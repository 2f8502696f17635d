-------------------------- MODULE SideRailsProofs --------------------------
(***************************************************************************)
(* Proofs about the rails that move no money: the receipts, the messages   *)
(* and the images.  Each part states its own inductive invariant.          *)
(***************************************************************************)
EXTENDS InvoiceRail, NotificationCourier, ImageStore, FiniteSetTheorems, TLAPS

-----------------------------------------------------------------------------
(* Receipts: the invariant.                                                  *)

\* The trigger freezes what has a reference: it never waits again.
FrozenStays ==
  /\ receipt.ref => receipt.status \in {"issued", "reconciled", "failed"}
  /\ receipt.status \in {"issued", "reconciled"} => receipt.ref

\* An issue job is acknowledged when the reference is there or the provider
\* refused; and only such a job makes a document.
IssueSettled ==
  /\ docjob["issue"] = "sent" => receipt.ref \/ paper.refused
  /\ paper.made => docjob["issue"] # "none"
  /\ \A s \in Scribe :
       /\ scribe[s].job = "issue" /\ scribe[s].pc = "follow" => receipt.ref
       /\ scribe[s].job = "issue" /\ scribe[s].pc = "ack" /\ scribe[s].live => receipt.ref \/ paper.refused
       /\ scribe[s].job = "issue" /\ scribe[s].pc = "write" /\ scribe[s].seen = "refused" => paper.refused
       /\ scribe[s].job = "issue" => docjob["issue"] # "none"

\* What a run of the reconciliation saw.
ReferenceSeen ==
  \A s \in Scribe :
    /\ scribe[s].pc # "free" <=> scribe[s].job # "none"
    /\ scribe[s].pc \in {"follow", "write", "create", "mark"} => scribe[s].job = "issue"
    /\ scribe[s].pc \in {"compare", "close", "case"} => scribe[s].job = "reconcile"
    /\ scribe[s].seen \in {"ref", "matched"} => receipt.ref
    /\ scribe[s].pc \in {"close", "case"} => scribe[s].seen \in {"matched", "mismatched"}

\* While no lease was lost, one run at a time reconciles, and a failed receipt
\* has its case, or the run that is about to open it.
OneReconciliation ==
  breaks = 0 =>
    /\ \A s \in Scribe : scribe[s].pc # "free" => scribe[s].live /\ docjob[scribe[s].job] = "processing"
    /\ \A s, t \in Scribe : scribe[s].job = scribe[t].job /\ scribe[s].job # "none" => s = t
    /\ ~paper.refused =>
         /\ \A s \in Scribe : scribe[s].pc = "case" /\ scribe[s].seen = "matched" => receipt.status = "reconciled"
         /\ receipt.status = "failed" =>
              disputed \/ \E s \in Scribe : scribe[s].pc = "case" /\ scribe[s].seen = "mismatched"

InvoiceInv == InvoiceTypeOK /\ FrozenStays /\ IssueSettled /\ ReferenceSeen /\ OneReconciliation

-----------------------------------------------------------------------------
(* Messages: the invariant.                                                  *)

\* The claim that stands: of one courier, who counted the attempts there are.
OneClaim ==
  /\ \A c, d \in Courier : courier[c].holds /\ courier[d].holds => c = d
  /\ \A c \in Courier :
       /\ courier[c].pc # "idle" /\ ~tally.final => courier[c].count < tally.claims
       /\ courier[c].holds => /\ courier[c].pc # "idle" /\ message.status = "processing"
                              /\ courier[c].count = message.attempts
       /\ hitches = 0 /\ courier[c].pc # "idle" => courier[c].holds

\* Attempts and claims, while no courier that was taken for dead has written.
Attempted ==
  /\ ~tally.late =>
       /\ message.status = "absent" => tally.claims = 0 /\ message.attempts = 0
       /\ message.status = "pending" => tally.claims <= message.attempts /\ message.attempts < MaxSends + retries
       /\ message.status = "processing" => tally.claims <= message.attempts + 1 /\ message.attempts < MaxSends + retries
       /\ message.status = "failed" => tally.claims <= message.attempts /\ message.attempts <= MaxSends + retries
       /\ message.status \notin {"absent", "pending", "processing"} => tally.claims <= MaxSends + retries
  /\ hitches = 0 => ~tally.late

\* What was given up or is tried again was claimed as often as it was counted.
ClaimedBefore ==
  /\ ~tally.final /\ message.status \in {"absent", "pending", "failed"} => message.attempts <= tally.claims
  /\ ~tally.final /\ message.status = "failed" => message.attempts >= MaxSends
  /\ message.status = "processing" /\ ~tally.final => message.attempts < tally.claims
  /\ \A c \in Courier : courier[c].answer = "permanent" => tally.final

\* Undisturbed, the provider takes a message once: then it is known to be sent.
TakenKnown ==
  hitches = 0 /\ ~tally.ambiguous =>
    /\ tally.taken <= 1
    /\ tally.taken = 1 => \/ message.status = "sent"
                         \/ \E c \in Courier : courier[c].holds /\ courier[c].answer = "success"

AnswerStages ==
  \A c \in Courier : courier[c].pc = "send" => courier[c].answer = "thrown"

\* Budgets: one at the start, one for each disturbance, one for each retry.  Of
\* them the message has one while it is not decided, and a courier whose claim
\* was taken from it keeps the one it counted from; the others are used up.
Stalled == {c \in Courier : courier[c].pc # "idle" /\ ~courier[c].holds}
Undecided == IF message.status \in {"absent", "pending", "processing"} THEN 1 ELSE 0
Capped(n) == IF n < MaxSends THEN n ELSE MaxSends - 1
Counts == [c \in Courier |-> courier[c].count]
\* What is spent of the budget of the message, and of those of the couriers of S.
Spent == IF message.status = "pending" THEN Capped(message.attempts)
         ELSE IF message.status = "processing" THEN Capped(message.attempts) + 1 ELSE 0
Owed(S, count) == {p \in S \X (0..(MaxSends - 1)) : p[2] <= count[p[1]]}
Granted == 1 + hitches + retries - Undecided
UsedUp == Granted - Cardinality(Stalled)
Budgeted ==
  /\ IsFiniteSet(Stalled) /\ UsedUp >= 0
  /\ tally.claims <= Spent + Cardinality(Owed(Stalled, Counts)) + MaxSends * UsedUp

CourierInv ==
  CourierTypeOK /\ OneClaim /\ Attempted /\ ClaimedBefore /\ TakenKnown /\ AnswerStages /\ Budgeted

-----------------------------------------------------------------------------
(* Images: the invariant.                                                    *)

\* What a request does at each of its steps.
RequestShape(d) ==
  /\ request[d].kind = "none" => request[d] = NoRequest
  /\ request[d].kind = "upload" => request[d].pc = "insert"
  /\ request[d].kind = "copy" => request[d].pc = "commit"
  /\ request[d].kind = "remove" => request[d].pc \in {"commit", "delete"}
  /\ request[d].kind = "drop" => request[d].pc \in {"enqueue", "commit"}
  /\ request[d].kind \in {"remove", "drop"} /\ request[d].pc # "delete" => image[d] = "listed"
  /\ request[d].pc = "delete" => image[d] = "removed" /\ ~request[d].shared
  /\ request[d].pc = "enqueue" => ~request[d].shared
  /\ request[d].kind \in {"upload", "copy"} => image[d] = "none"
RequestShapes == \A d \in Deal : RequestShape(d)

\* Before and during the upload there is nothing else.
Untouched == Listed = {} /\ cleanup.status = "none" /\ Cleaning = {}
FirstUpload ==
  /\ object = "absent" => Untouched /\ \A d \in Deal : request[d] = NoRequest
  /\ \A d \in Deal : request[d].kind = "upload" =>
       Untouched /\ object = "stored" /\ \A e \in Deal \ {d} : request[e] = NoRequest

\* Whoever acts on the judgement that he alone refers, or nobody: the others
\* were copied beside the judgement.
TornOnly(by) == Listed \subseteq torn \cup by /\ Copying \subseteq torn
JudgementsHold ==
  /\ object = "gone" => TornOnly({})
  /\ \A w \in Cleaner : cleaner[w].pc = "delete" => TornOnly({})
  /\ \A d \in Removing : ~request[d].shared => TornOnly({d})

\* The claims of a task: one of them is the newest, and an attempt beyond the
\* budget was paid for by a claim that died or stalled.
Holding(w) == cleaner[w].pc # "idle" /\ cleaner[w].try = cleanup.tries
ClaimsFenced ==
  /\ cleanup.status = "pending" => cleanup.tries < MaxTries
  /\ cleanup.status = "processing" =>
       /\ cleanup.tries > 0
       /\ \A v, w \in Cleaner : Holding(v) /\ Holding(w) => v = w
       /\ cleanup.tries + (IF \E v \in Cleaner : Holding(v) THEN 0 ELSE 1) <= MaxTries + slips
  /\ Live /\ cleanup.tries > 0 => \A v \in Cleaner : cleaner[v].try <= cleanup.tries

\* Undisturbed, one at a time takes references away, and nobody cleans meanwhile.
OneAtATime ==
  ~crossed =>
    /\ \A d, e \in Removing : d = e
    /\ \A d \in Removing : request[d].shared => Listed \ {d} # {}
    /\ \A d \in Removing, w \in Cleaner : cleaner[w].pc \in {"idle", "judge"}
    /\ slips = 0 =>
         /\ \A d \in Deal : request[d].kind = "drop" /\ request[d].pc = "commit" /\ ~request[d].shared => Live
         /\ \A w \in Cleaner : cleaner[w].pc = "ack" /\ object = "stored" => Listed # {}

\* The stored object has a reference, or somebody on whom its removal depends.
SomebodyCares ==
  slips = 0 /\ ~crossed /\ object = "stored" =>
    \/ Listed # {} \/ Live \/ cleanup.status = "failed"
    \/ \E d \in Deal : request[d].kind = "upload" \/ request[d].pc = "delete"

ImageInv ==
  ImageTypeOK /\ RequestShapes /\ FirstUpload /\ JudgementsHold /\ ClaimsFenced /\ OneAtATime /\ SomebodyCares

-----------------------------------------------------------------------------
(* Receipts: the proof.                                                      *)

ReceiptRecord == [status : {"absent", "pending", "processing", "issued", "failed", "reconciled"}, ref : BOOLEAN]
JobTable == [DocumentJob -> {"none", "pending", "processing", "sent", "failed"}]
RunPoint == {"free", "read", "mark", "create", "write", "follow", "compare", "close", "case", "ack", "throw"}
Sighting == {"none", "success", "refused", "unknown", "ref", "matched", "mismatched"}
RunRecord == [job : DocumentJob \cup {"none"}, pc : RunPoint, live : BOOLEAN, seen : Sighting]
PaperRecord == [made : BOOLEAN, refused : BOOLEAN]

\* The type of the rail, by these names.
LEMMA InvoiceTypes ==
  InvoiceTypeOK <=> /\ receipt \in ReceiptRecord /\ disputed \in BOOLEAN /\ docjob \in JobTable
                    /\ scribe \in [Scribe -> RunRecord] /\ breaks \in 0..MaxBreaks /\ paper \in PaperRecord
BY DEF InvoiceTypeOK, ReceiptRecord, JobTable, RunPoint, Sighting, RunRecord, PaperRecord

\* ... and after a step.
LEMMA InvoiceTypesNext ==
  ASSUME receipt' \in ReceiptRecord, disputed' \in BOOLEAN, docjob' \in JobTable,
         scribe' \in [Scribe -> RunRecord], breaks' \in 0..MaxBreaks, paper' \in PaperRecord
  PROVE  InvoiceTypeOK'
BY DEF InvoiceTypeOK, ReceiptRecord, JobTable, RunPoint, Sighting, RunRecord, PaperRecord

\* A run goes on to its next statement.
LEMMA TurnMoves ==
  ASSUME InvoiceTypeOK, NEW s \in Scribe, NEW pc \in RunPoint, Turn(s, pc)
  PROVE  /\ scribe' \in [Scribe -> RunRecord]
         /\ scribe'[s].pc = pc /\ scribe'[s].job = scribe[s].job /\ scribe'[s].live = scribe[s].live
         /\ scribe'[s].seen = scribe[s].seen
         /\ \A t \in Scribe \ {s} : scribe'[t] = scribe[t]
<1>1. scribe \in [Scribe -> RunRecord] BY InvoiceTypes
<1>2. scribe' = [scribe EXCEPT ![s].pc = pc] BY DEF Turn
<1>3. QED BY <1>1, <1>2 DEF RunRecord

\* ... and remembers what it saw.
LEMMA TurnSeeingMoves ==
  ASSUME InvoiceTypeOK, NEW s \in Scribe, NEW pc \in RunPoint, NEW seen \in Sighting, TurnSeeing(s, pc, seen)
  PROVE  /\ scribe' \in [Scribe -> RunRecord]
         /\ scribe'[s].pc = pc /\ scribe'[s].job = scribe[s].job /\ scribe'[s].live = scribe[s].live
         /\ scribe'[s].seen = seen
         /\ \A t \in Scribe \ {s} : scribe'[t] = scribe[t]
<1>1. scribe \in [Scribe -> RunRecord] BY InvoiceTypes
<1>2. scribe' = [scribe EXCEPT ![s].pc = pc, ![s].seen = seen] BY DEF TurnSeeing
<1>3. QED BY <1>1, <1>2 DEF RunRecord

\* A run is replaced.
LEMMA RunMoves ==
  ASSUME InvoiceTypeOK, NEW s \in Scribe, NEW r \in RunRecord, scribe' = [scribe EXCEPT ![s] = r]
  PROVE  /\ scribe' \in [Scribe -> RunRecord] /\ scribe'[s] = r
         /\ \A t \in Scribe \ {s} : scribe'[t] = scribe[t]
<1>1. scribe \in [Scribe -> RunRecord] BY InvoiceTypes
<1>2. QED BY <1>1

\* A job is written.
LEMMA DocumentJobMoves ==
  ASSUME InvoiceTypeOK, NEW j \in DocumentJob, NEW v \in {"pending", "processing", "sent", "failed"},
         docjob' = [docjob EXCEPT ![j] = v]
  PROVE  docjob' \in JobTable /\ docjob'[j] = v /\ \A k \in DocumentJob \ {j} : docjob'[k] = docjob[k]
<1>1. docjob \in JobTable BY InvoiceTypes
<1>2. QED BY <1>1 DEF JobTable

\* A job is armed unless it is there.
LEMMA IfMissingMoves ==
  ASSUME InvoiceTypeOK, NEW j \in DocumentJob, docjob' = IfMissing(j)
  PROVE  /\ docjob' \in JobTable
         /\ \A k \in DocumentJob : \/ docjob'[k] = docjob[k]
                                   \/ k = j /\ docjob[k] \in {"none", "failed"} /\ docjob'[k] = "pending"
<1>1. docjob \in JobTable BY InvoiceTypes
<1>2. CASE docjob' = docjob BY <1>1, <1>2
<1>3. CASE ~Present(j) /\ docjob' = [docjob EXCEPT ![j] = "pending"]
  <2>1. docjob[j] \in {"none", "failed"} BY <1>1, <1>3 DEF JobTable, Present
  <2>2. docjob' \in JobTable /\ docjob'[j] = "pending" /\ \A k \in DocumentJob \ {j} : docjob'[k] = docjob[k]
    BY <1>3, DocumentJobMoves
  <2>3. QED BY <2>1, <2>2
<1>4. QED BY <1>2, <1>3 DEF IfMissing

\* A worker takes a job.
LEMMA TakeInv ==
  ASSUME InvoiceInv, NEW s \in Scribe, NEW j \in DocumentJob, TakeDocumentJob(s, j)
  PROVE  InvoiceInv'
<1> DEFINE r == [Resting EXCEPT !.job = j, !.pc = "read", !.live = TRUE]
<1>1. InvoiceTypeOK BY DEF InvoiceInv
<1>2. r \in RunRecord /\ r.job = j /\ r.pc = "read" /\ r.live = TRUE /\ r.seen = "none"
  BY DEF Resting, RunRecord, RunPoint, Sighting
<1>3. scribe' = [scribe EXCEPT ![s] = r] /\ UNCHANGED <<receipt, disputed, breaks, paper>>
  BY DEF TakeDocumentJob
<1> HIDE DEF r
<1>4. scribe' \in [Scribe -> RunRecord] /\ scribe'[s] = r /\ \A t \in Scribe \ {s} : scribe'[t] = scribe[t]
  BY <1>1, <1>2, <1>3, RunMoves
<1>5. /\ docjob' \in JobTable /\ docjob'[j] = "processing" /\ docjob[j] = "pending"
      /\ \A k \in DocumentJob \ {j} : docjob'[k] = docjob[k]
  BY <1>1, DocumentJobMoves DEF TakeDocumentJob
<1>6. InvoiceTypeOK' BY <1>1, <1>3, <1>4, <1>5, InvoiceTypes, InvoiceTypesNext
<1>7. FrozenStays' BY <1>3 DEF InvoiceInv, FrozenStays
<1>8. IssueSettled' BY <1>2, <1>3, <1>4, <1>5 DEF InvoiceInv, IssueSettled, DocumentJob
<1>9. ReferenceSeen' BY <1>2, <1>3, <1>4 DEF InvoiceInv, ReferenceSeen, DocumentJob
<1>10. OneReconciliation'
  <2>1. SUFFICES ASSUME breaks = 0 PROVE OneReconciliation' BY <1>3 DEF OneReconciliation
  <2>2. /\ \A t \in Scribe : scribe[t].pc # "free" => scribe[t].live /\ docjob[scribe[t].job] = "processing"
        /\ \A t, u \in Scribe : scribe[t].job = scribe[u].job /\ scribe[t].job # "none" => t = u
    BY <2>1 DEF InvoiceInv, OneReconciliation
  <2>3. \A t \in Scribe : scribe[t].pc # "free" <=> scribe[t].job # "none" BY DEF InvoiceInv, ReferenceSeen
  <2>4. \A t \in Scribe : scribe[t].job \in DocumentJob \cup {"none"}
    BY <1>1, InvoiceTypes DEF RunRecord
  <2>5. \A t \in Scribe : scribe[t].job # j BY <1>5, <2>2, <2>3 DEF DocumentJob
  <2>6. \A t \in Scribe : scribe'[t].pc # "free" => scribe'[t].live /\ docjob'[scribe'[t].job] = "processing"
    BY <1>2, <1>4, <1>5, <2>2, <2>3, <2>4, <2>5
  <2>7. \A t, u \in Scribe : scribe'[t].job = scribe'[u].job /\ scribe'[t].job # "none" => t = u
    BY <1>2, <1>4, <2>2, <2>5
  <2>8. scribe[s].pc = "free" BY DEF TakeDocumentJob
  <2>9. ~paper'.refused =>
          /\ \A t \in Scribe : scribe'[t].pc = "case" /\ scribe'[t].seen = "matched" => receipt'.status = "reconciled"
          /\ receipt'.status = "failed" =>
               disputed' \/ \E t \in Scribe : scribe'[t].pc = "case" /\ scribe'[t].seen = "mismatched"
    <3>1. \A t \in Scribe : scribe[t].pc = "case" => t # s BY <2>8
    <3>2. QED BY <1>2, <1>3, <1>4, <2>1, <3>1 DEF InvoiceInv, OneReconciliation
  <2>10. QED BY <2>6, <2>7, <2>9 DEF OneReconciliation
<1>11. QED BY <1>6, <1>7, <1>8, <1>9, <1>10 DEF InvoiceInv

\* The worker writes the verdict of a run that still holds its lease.
LEMMA EndRunInv ==
  ASSUME InvoiceInv, NEW s \in Scribe, EndDocumentRun(s)
  PROVE  InvoiceInv'
<1> DEFINE j == scribe[s].job
<1>1. InvoiceTypeOK BY DEF InvoiceInv
<1>2. Resting \in RunRecord /\ Resting.job = "none" /\ Resting.pc = "free" /\ Resting.live = FALSE
      /\ Resting.seen = "none"
  BY DEF Resting, RunRecord, RunPoint, Sighting
<1>3. scribe' = [scribe EXCEPT ![s] = Resting] /\ UNCHANGED <<receipt, disputed, breaks, paper>>
      /\ scribe[s].pc \in {"ack", "throw"}
  BY DEF EndDocumentRun
<1>4. scribe' \in [Scribe -> RunRecord] /\ scribe'[s] = Resting /\ \A t \in Scribe \ {s} : scribe'[t] = scribe[t]
  BY <1>1, <1>2, <1>3, RunMoves
<1>5. j \in DocumentJob
  <2>1. scribe[s].job \in DocumentJob \cup {"none"} BY <1>1, InvoiceTypes DEF RunRecord
  <2>2. QED BY <1>3, <2>1 DEF InvoiceInv, ReferenceSeen
<1>6. /\ docjob' \in JobTable
      /\ \A k \in DocumentJob \ {j} : docjob'[k] = docjob[k]
      /\ docjob'[j] = docjob[j] \/ docjob'[j] \in {"pending", "failed"}
           \/ (docjob'[j] = "sent" /\ scribe[s].pc = "ack" /\ scribe[s].live)
  <2>1. docjob \in JobTable BY <1>1, InvoiceTypes
  <2>2. CASE docjob' = docjob BY <2>1, <2>2
  <2>3. CASE \E v \in {"sent"} : docjob' = [docjob EXCEPT ![j] = v] /\ scribe[s].pc = "ack" /\ scribe[s].live
    BY <2>3, <1>1, <1>5, DocumentJobMoves
  <2>4. CASE \E v \in {"pending", "failed"} : docjob' = [docjob EXCEPT ![j] = v]
    <3>1. PICK v \in {"pending", "failed"} : docjob' = [docjob EXCEPT ![j] = v] BY <2>4
    <3>2. v \in {"pending", "processing", "sent", "failed"} OBVIOUS
    <3> HIDE DEF j
    <3>3. docjob' \in JobTable /\ docjob'[j] = v /\ \A k \in DocumentJob \ {j} : docjob'[k] = docjob[k]
      BY <1>1, <1>5, <3>1, <3>2, DocumentJobMoves
    <3>4. QED BY <3>3
  <2>5. QED BY <2>2, <2>3, <2>4 DEF EndDocumentRun
<1>7. InvoiceTypeOK' BY <1>1, <1>3, <1>4, <1>6, InvoiceTypes, InvoiceTypesNext
<1>8. FrozenStays' BY <1>3 DEF InvoiceInv, FrozenStays
<1>9. IssueSettled'
  <2>1. IssueSettled BY DEF InvoiceInv
  <2>2. docjob["issue"] # "none" => docjob'["issue"] # "none" BY <1>6 DEF DocumentJob
  <2>3. docjob'["issue"] = "sent" => receipt.ref \/ paper.refused BY <1>6, <2>1 DEF IssueSettled, DocumentJob
  <2>4. QED BY <1>2, <1>3, <1>4, <2>1, <2>2, <2>3 DEF IssueSettled
<1>10. ReferenceSeen' BY <1>2, <1>3, <1>4 DEF InvoiceInv, ReferenceSeen
<1>11. OneReconciliation'
  <2>1. SUFFICES ASSUME breaks = 0 PROVE OneReconciliation' BY <1>3 DEF OneReconciliation
  <2>2. /\ \A t \in Scribe : scribe[t].pc # "free" => scribe[t].live /\ docjob[scribe[t].job] = "processing"
        /\ \A t, u \in Scribe : scribe[t].job = scribe[u].job /\ scribe[t].job # "none" => t = u
    BY <2>1 DEF InvoiceInv, OneReconciliation
  <2>3. \A t \in Scribe : scribe[t].pc # "free" <=> scribe[t].job # "none" BY DEF InvoiceInv, ReferenceSeen
  <2>4. \A t \in Scribe : scribe[t].job \in DocumentJob \cup {"none"}
    BY <1>1, InvoiceTypes DEF RunRecord
  <2>5. \A t \in Scribe \ {s} : scribe[t].job # j BY <1>5, <2>2 DEF DocumentJob
  <2>6. \A t \in Scribe : scribe'[t].pc # "free" => scribe'[t].live /\ docjob'[scribe'[t].job] = "processing"
    BY <1>2, <1>4, <1>6, <2>2, <2>3, <2>4, <2>5
  <2>7. \A t, u \in Scribe : scribe'[t].job = scribe'[u].job /\ scribe'[t].job # "none" => t = u
    BY <1>2, <1>4, <2>2
  <2>8. ~paper'.refused =>
          /\ \A t \in Scribe : scribe'[t].pc = "case" /\ scribe'[t].seen = "matched" => receipt'.status = "reconciled"
          /\ receipt'.status = "failed" =>
               disputed' \/ \E t \in Scribe : scribe'[t].pc = "case" /\ scribe'[t].seen = "mismatched"
    <3>1. \A t \in Scribe : scribe[t].pc = "case" => t # s BY <1>3
    <3>2. QED BY <1>2, <1>3, <1>4, <2>1, <3>1 DEF InvoiceInv, OneReconciliation
  <2>9. QED BY <2>6, <2>7, <2>8 DEF OneReconciliation
<1>12. QED BY <1>7, <1>8, <1>9, <1>10, <1>11 DEF InvoiceInv

\* A lease is lost, or the process with it.
LEMMA LoseScribeInv ==
  ASSUME InvoiceInv, NEW s \in Scribe, LoseScribe(s)
  PROVE  InvoiceInv'
<1>1. InvoiceTypeOK BY DEF InvoiceInv
<1>2. Resting \in RunRecord /\ Resting.job = "none" /\ Resting.pc = "free" /\ Resting.live = FALSE
      /\ Resting.seen = "none"
  BY DEF Resting, RunRecord, RunPoint, Sighting
<1>3. /\ UNCHANGED <<receipt, disputed, paper>> /\ breaks' = breaks + 1 /\ breaks < MaxBreaks
      /\ docjob' = [docjob EXCEPT ![scribe[s].job] = "pending"]
  BY DEF LoseScribe
<1>4. scribe[s] \in RunRecord BY <1>1, InvoiceTypes
<1>5. /\ scribe' \in [Scribe -> RunRecord] /\ \A t \in Scribe \ {s} : scribe'[t] = scribe[t]
      /\ \/ scribe'[s] = Resting
         \/ /\ scribe'[s].job = scribe[s].job /\ scribe'[s].pc = scribe[s].pc
            /\ scribe'[s].seen = scribe[s].seen /\ scribe'[s].live = FALSE
  <2>1. scribe \in [Scribe -> RunRecord] BY <1>1, InvoiceTypes
  <2>2. CASE scribe' = [scribe EXCEPT ![s].live = FALSE] BY <2>1, <2>2 DEF RunRecord
  <2>3. CASE scribe' = [scribe EXCEPT ![s] = Resting] BY <1>1, <1>2, <2>3, RunMoves
  <2>4. QED BY <2>2, <2>3 DEF LoseScribe
<1>6. docjob' \in JobTable /\ \A k \in DocumentJob : docjob'[k] = docjob[k] \/ docjob'[k] = "pending"
  <2>1. docjob \in JobTable BY <1>1, InvoiceTypes
  <2>2. QED BY <1>3, <2>1 DEF JobTable
<1>7. breaks \in Nat /\ breaks' \in 0..MaxBreaks /\ breaks' # 0 BY <1>1, <1>3, InvoiceTypes, InvoiceAssumption
<1>8. InvoiceTypeOK' BY <1>1, <1>3, <1>5, <1>6, <1>7, InvoiceTypes, InvoiceTypesNext
<1>9. FrozenStays' BY <1>3 DEF InvoiceInv, FrozenStays
<1>10. IssueSettled'
  <2>1. IssueSettled BY DEF InvoiceInv
  <2>2. docjob["issue"] # "none" => docjob'["issue"] # "none" BY <1>6 DEF DocumentJob
  <2>3. docjob'["issue"] = "sent" => docjob["issue"] = "sent" BY <1>6 DEF DocumentJob
  <2>4. QED BY <1>2, <1>3, <1>5, <2>1, <2>2, <2>3 DEF IssueSettled
<1>11. ReferenceSeen' BY <1>2, <1>3, <1>5 DEF InvoiceInv, ReferenceSeen
<1>12. OneReconciliation' BY <1>7 DEF OneReconciliation
<1>13. QED BY <1>8, <1>9, <1>10, <1>11, <1>12 DEF InvoiceInv

\* A statement outside the runs: the receipt gets no verdict, a job is armed.
LEMMA AroundInv ==
  ASSUME InvoiceInv, UNCHANGED <<disputed, scribe, breaks, paper>>, receipt' \in ReceiptRecord, docjob' \in JobTable,
         \A k \in DocumentJob : \/ docjob'[k] = docjob[k]
                                \/ docjob[k] \in {"none", "failed"} /\ docjob'[k] = "pending",
         receipt' = receipt \/ (~receipt.ref /\ receipt'.ref = FALSE /\ receipt'.status = "pending"
                                /\ receipt.status \in {"absent", "processing", "failed"})
  PROVE  InvoiceInv'
<1>1. InvoiceTypeOK BY DEF InvoiceInv
<1>2. InvoiceTypeOK' BY <1>1, InvoiceTypes, InvoiceTypesNext
<1>3. receipt'.ref <=> receipt.ref BY <1>1, InvoiceTypes DEF ReceiptRecord
<1>4. FrozenStays' BY <1>3 DEF InvoiceInv, FrozenStays
<1>5. IssueSettled'
  <2>1. IssueSettled BY DEF InvoiceInv
  <2>2. docjob["issue"] # "none" => docjob'["issue"] # "none" BY DEF DocumentJob
  <2>3. docjob'["issue"] = "sent" => docjob["issue"] = "sent" BY DEF DocumentJob
  <2>4. QED BY <1>3, <2>1, <2>2, <2>3 DEF IssueSettled
<1>6. ReferenceSeen' BY <1>3 DEF InvoiceInv, ReferenceSeen
<1>7. OneReconciliation'
  <2>1. SUFFICES ASSUME breaks = 0 PROVE OneReconciliation' BY DEF OneReconciliation
  <2>2. \A t \in Scribe : scribe[t].job \in DocumentJob \cup {"none"} BY <1>1, InvoiceTypes DEF RunRecord
  <2>3. \A t \in Scribe : scribe[t].pc # "free" <=> scribe[t].job # "none" BY DEF InvoiceInv, ReferenceSeen
  <2>4. \A t \in Scribe : scribe[t].pc # "free" => scribe[t].live /\ docjob'[scribe[t].job] = "processing"
    BY <2>1, <2>2, <2>3 DEF InvoiceInv, OneReconciliation
  <2>5. ~paper.refused =>
          /\ \A t \in Scribe : scribe[t].pc = "case" /\ scribe[t].seen = "matched" => receipt'.status = "reconciled"
          /\ receipt'.status = "failed" =>
               disputed \/ \E t \in Scribe : scribe[t].pc = "case" /\ scribe[t].seen = "mismatched"
    BY <2>1 DEF InvoiceInv, OneReconciliation
  <2>6. QED BY <2>1, <2>4, <2>5 DEF InvoiceInv, OneReconciliation
<1>8. QED BY <1>2, <1>4, <1>5, <1>6, <1>7 DEF InvoiceInv

\* The receipt waits for a run.
LEMMA Waiting ==
  ASSUME InvoiceTypeOK, receipt' = [receipt EXCEPT !.status = "pending"]
  PROVE  receipt' \in ReceiptRecord /\ receipt'.status = "pending" /\ receipt'.ref = receipt.ref
         /\ receipt.ref \in BOOLEAN
BY InvoiceTypes DEF ReceiptRecord

\* The document and its job, the maintenance, the provider's event and the retry.
LEMMA OutsideInv ==
  ASSUME InvoiceInv,
         EnqueueReceipt \/ EnqueuePending \/ ReclaimDocument \/ InvoiceWebhook \/ RetryInvoiceFailed
  PROVE  InvoiceInv'
<1>1. InvoiceTypeOK BY DEF InvoiceInv
<1>2. receipt \in ReceiptRecord /\ docjob \in JobTable BY <1>1, InvoiceTypes
<1>3. "issue" \in DocumentJob /\ "reconcile" \in DocumentJob BY DEF DocumentJob
<1>4. CASE EnqueueReceipt
  <2>1. /\ docjob' \in JobTable
        /\ \A k \in DocumentJob : \/ docjob'[k] = docjob[k]
                                  \/ docjob[k] \in {"none", "failed"} /\ docjob'[k] = "pending"
    BY <1>1, <1>2, <1>3, <1>4, IfMissingMoves DEF EnqueueReceipt
  <2>2. receipt.ref = FALSE BY <1>2, <1>4 DEF EnqueueReceipt, InvoiceInv, FrozenStays, ReceiptRecord
  <2>3. QED BY <1>1, <1>4, <2>1, <2>2, Waiting, AroundInv DEF EnqueueReceipt
<1>5. CASE EnqueuePending \/ InvoiceWebhook
  <2>1. /\ docjob' \in JobTable
        /\ \A k \in DocumentJob : \/ docjob'[k] = docjob[k]
                                  \/ docjob[k] \in {"none", "failed"} /\ docjob'[k] = "pending"
    BY <1>1, <1>3, <1>5, IfMissingMoves DEF EnqueuePending, InvoiceWebhook
  <2>2. QED BY <1>2, <1>5, <2>1, AroundInv DEF EnqueuePending, InvoiceWebhook
<1>6. CASE ReclaimDocument
  <2>1. receipt.ref = FALSE BY <1>2, <1>6 DEF ReclaimDocument, InvoiceInv, FrozenStays, ReceiptRecord
  <2>2. QED BY <1>1, <1>2, <1>6, <2>1, Waiting, AroundInv DEF ReclaimDocument
<1>7. CASE RetryInvoiceFailed
  <2>1. receipt.ref = FALSE BY <1>2, <1>7 DEF RetryInvoiceFailed, ReceiptRecord
  <2>2. QED BY <1>1, <1>2, <1>7, <2>1, Waiting, AroundInv DEF RetryInvoiceFailed
<1>8. QED BY <1>4, <1>5, <1>6, <1>7

\* While no lease is lost a failed receipt is disputed, or about to be.
FailureCarried ==
  ~paper.refused =>
    /\ \A s \in Scribe : scribe[s].pc = "case" /\ scribe[s].seen = "matched" => receipt.status = "reconciled"
    /\ receipt.status = "failed" =>
         disputed \/ \E s \in Scribe : scribe[s].pc = "case" /\ scribe[s].seen = "mismatched"

\* What the statement s comes to promises of its run.
Coming(s) ==
  /\ scribe[s].pc \in {"follow", "write", "create", "mark"} => scribe[s].job = "issue"
  /\ scribe[s].pc \in {"compare", "close", "case"} => scribe[s].job = "reconcile"
  /\ scribe[s].seen \in {"ref", "matched"} => receipt.ref
  /\ scribe[s].pc \in {"close", "case"} => scribe[s].seen \in {"matched", "mismatched"}
  /\ scribe[s].job = "issue" =>
       /\ scribe[s].pc = "follow" => receipt.ref
       /\ scribe[s].pc = "ack" /\ scribe[s].live => receipt.ref \/ paper.refused
       /\ scribe[s].pc = "write" /\ scribe[s].seen = "refused" => paper.refused

\* One statement of one run.
LEMMA StatementInv ==
  ASSUME InvoiceInv, NEW s \in Scribe, scribe[s].pc # "free", scribe'[s].pc # "free",
         scribe' \in [Scribe -> RunRecord], scribe'[s].job = scribe[s].job, scribe'[s].live = scribe[s].live,
         \A t \in Scribe \ {s} : scribe'[t] = scribe[t],
         UNCHANGED breaks, receipt' \in ReceiptRecord, paper' \in PaperRecord, disputed' \in BOOLEAN,
         docjob' \in JobTable,
         \A k \in DocumentJob : \/ docjob'[k] = docjob[k]
                                \/ docjob[k] \in {"none", "failed"} /\ docjob'[k] = "pending",
         receipt.ref => receipt'.ref, paper.refused => paper'.refused,
         paper'.made => paper.made \/ scribe[s].job = "issue",
         FrozenStays', Coming(s)', breaks = 0 => FailureCarried'
  PROVE  InvoiceInv'
<1>1. InvoiceTypeOK BY DEF InvoiceInv
<1>2. InvoiceTypeOK' BY <1>1, InvoiceTypes, InvoiceTypesNext
<1>3. IssueSettled'
  <2>1. IssueSettled BY DEF InvoiceInv
  <2>2. docjob["issue"] # "none" => docjob'["issue"] # "none" BY DEF DocumentJob
  <2>3. docjob'["issue"] = "sent" => docjob["issue"] = "sent" BY DEF DocumentJob
  <2>4. ASSUME NEW t \in Scribe
        PROVE  /\ scribe'[t].job = "issue" /\ scribe'[t].pc = "follow" => receipt'.ref
               /\ scribe'[t].job = "issue" /\ scribe'[t].pc = "ack" /\ scribe'[t].live => receipt'.ref \/ paper'.refused
               /\ scribe'[t].job = "issue" /\ scribe'[t].pc = "write" /\ scribe'[t].seen = "refused" => paper'.refused
               /\ scribe'[t].job = "issue" => docjob'["issue"] # "none"
    <3>1. CASE t = s BY <3>1, <2>1, <2>2 DEF IssueSettled, Coming
    <3>2. CASE t # s BY <3>2, <2>1, <2>2 DEF IssueSettled
    <3>3. QED BY <3>1, <3>2
  <2>5. paper'.made => docjob'["issue"] # "none" BY <2>1, <2>2 DEF IssueSettled
  <2>6. QED BY <2>1, <2>3, <2>4, <2>5 DEF IssueSettled
<1>4. ReferenceSeen'
  <2>1. ReferenceSeen BY DEF InvoiceInv
  <2>2. \A t \in Scribe \ {s} : t \in Scribe /\ scribe'[t] = scribe[t] OBVIOUS
  <2>3. QED BY <2>1, <2>2 DEF ReferenceSeen, Coming
<1>5. OneReconciliation'
  <2>1. SUFFICES ASSUME breaks = 0 PROVE OneReconciliation' BY DEF OneReconciliation
  <2>2. \A t \in Scribe : scribe[t].job \in DocumentJob \cup {"none"} BY <1>1, InvoiceTypes DEF RunRecord
  <2>3. \A t \in Scribe : scribe[t].pc # "free" <=> scribe[t].job # "none" BY DEF InvoiceInv, ReferenceSeen
  <2>4. /\ \A t \in Scribe : scribe[t].pc # "free" => scribe[t].live /\ docjob[scribe[t].job] = "processing"
        /\ \A t, u \in Scribe : scribe[t].job = scribe[u].job /\ scribe[t].job # "none" => t = u
    BY <2>1 DEF InvoiceInv, OneReconciliation
  <2>5. \A t \in Scribe : /\ scribe'[t].job = scribe[t].job /\ scribe'[t].live = scribe[t].live
                          /\ scribe'[t].pc # "free" => scribe[t].pc # "free"
    OBVIOUS
  <2>6. \A t \in Scribe : scribe'[t].pc # "free" => scribe'[t].live /\ docjob'[scribe'[t].job] = "processing"
    BY <2>2, <2>3, <2>4, <2>5
  <2>7. \A t, u \in Scribe : scribe'[t].job = scribe'[u].job /\ scribe'[t].job # "none" => t = u
    BY <2>4, <2>5
  <2>8. QED BY <2>1, <2>6, <2>7 DEF OneReconciliation, FailureCarried
<1>6. QED BY <1>2, <1>3, <1>4, <1>5 DEF InvoiceInv

\* What the invariant says of a run and of the failure.
LEMMA ComingNow ==
  ASSUME InvoiceInv, NEW s \in Scribe
  PROVE  /\ Coming(s) /\ (breaks = 0 => FailureCarried)
         /\ breaks = 0 => \A t \in Scribe : scribe[s].job = scribe[t].job /\ scribe[s].job # "none" => s = t
         /\ receipt \in ReceiptRecord /\ paper \in PaperRecord /\ disputed \in BOOLEAN /\ docjob \in JobTable
         /\ FrozenStays /\ InvoiceTypeOK
BY InvoiceTypes DEF InvoiceInv, ReferenceSeen, IssueSettled, OneReconciliation, FailureCarried, Coming

\* The run that issues: reading, and the mark that the document is being made.
LEMMA MarkInvI ==
  ASSUME InvoiceInv, NEW s \in Scribe, ReadDocument(s) \/ MarkProcessing(s)
  PROVE  InvoiceInv'
<1>1. Coming(s) /\ (breaks = 0 => FailureCarried) /\ FrozenStays /\ InvoiceTypeOK
      /\ receipt \in ReceiptRecord /\ paper \in PaperRecord /\ disputed \in BOOLEAN /\ docjob \in JobTable
  BY ComingNow
<1>2. UNCHANGED <<disputed, docjob, breaks, paper>> /\ scribe[s].job = "issue" /\ scribe[s].pc \in {"read", "mark"}
  BY DEF ReadDocument, MarkProcessing, AtStep
<1>3. PICK pc \in {"ack", "mark", "throw", "create"} :
        /\ Turn(s, pc) /\ (pc = "ack" => receipt.status \in {"issued", "reconciled"})
        /\ \/ receipt' = receipt
           \/ ~receipt.ref /\ receipt' = [receipt EXCEPT !.status = "processing"]
  <2>1. CASE ReadDocument(s) BY <2>1 DEF ReadDocument
  <2>2. CASE MarkProcessing(s) BY <2>2 DEF MarkProcessing, Frozen
  <2>3. QED BY <2>1, <2>2
<1>4. pc \in RunPoint BY DEF RunPoint
<1>5. /\ scribe' \in [Scribe -> RunRecord]
      /\ scribe'[s].pc = pc /\ scribe'[s].job = scribe[s].job /\ scribe'[s].live = scribe[s].live
      /\ scribe'[s].seen = scribe[s].seen
      /\ \A t \in Scribe \ {s} : scribe'[t] = scribe[t]
  BY <1>1, <1>3, <1>4, TurnMoves
<1>6. receipt' \in ReceiptRecord /\ receipt'.ref = receipt.ref
      /\ (receipt'.status = receipt.status \/ (receipt'.status = "processing" /\ ~receipt.ref))
  BY <1>1, <1>3 DEF ReceiptRecord
<1>7. FrozenStays' BY <1>1, <1>6 DEF FrozenStays
<1>8. Coming(s)' BY <1>1, <1>2, <1>3, <1>5, <1>6 DEF Coming, FrozenStays
<1>9. breaks = 0 => FailureCarried'
  <2>1. SUFFICES ASSUME breaks = 0, ~paper.refused PROVE FailureCarried' BY <1>2 DEF FailureCarried
  <2>2. \A t \in Scribe : scribe'[t].pc = "case" => scribe[t].pc = "case" /\ scribe'[t] = scribe[t]
    BY <1>3, <1>5
  <2>3. \A t \in Scribe : scribe[t].pc = "case" => scribe'[t] = scribe[t] BY <1>2, <1>5
  <2>4. \A t \in Scribe : scribe[t].seen = "matched" => receipt.ref
    BY DEF InvoiceInv, ReferenceSeen
  <2>5. QED BY <1>1, <1>2, <1>6, <2>1, <2>2, <2>3, <2>4 DEF FailureCarried
<1>10. QED BY <1>1, <1>2, <1>3, <1>5, <1>6, <1>7, <1>8, <1>9, StatementInv

\* The provider is asked.
LEMMA CreateInv ==
  ASSUME InvoiceInv, NEW s \in Scribe, CreateDocument(s)
  PROVE  InvoiceInv'
<1>1. Coming(s) /\ (breaks = 0 => FailureCarried) /\ FrozenStays /\ InvoiceTypeOK
      /\ receipt \in ReceiptRecord /\ paper \in PaperRecord /\ disputed \in BOOLEAN /\ docjob \in JobTable
  BY ComingNow
<1>2. UNCHANGED <<receipt, disputed, docjob, breaks>> /\ scribe[s].job = "issue" /\ scribe[s].pc = "create"
  BY DEF CreateDocument, AtStep
<1>3. PICK seen \in {"success", "unknown", "refused"} :
        TurnSeeing(s, "write", seen) /\ (seen = "refused" => paper' = [paper EXCEPT !.refused = TRUE])
  BY DEF CreateDocument
<1>4. paper' \in PaperRecord /\ (paper.refused => paper'.refused) /\ (seen = "refused" => paper'.refused)
  BY <1>1, <1>3 DEF CreateDocument, PaperRecord
<1>5. "write" \in RunPoint /\ seen \in Sighting BY DEF RunPoint, Sighting
<1>6. /\ scribe' \in [Scribe -> RunRecord]
      /\ scribe'[s].pc = "write" /\ scribe'[s].job = scribe[s].job /\ scribe'[s].live = scribe[s].live
      /\ scribe'[s].seen = seen
      /\ \A t \in Scribe \ {s} : scribe'[t] = scribe[t]
  BY <1>1, <1>3, <1>5, TurnSeeingMoves
<1>7. FrozenStays' BY <1>1, <1>2 DEF FrozenStays
<1>8. Coming(s)' BY <1>2, <1>3, <1>4, <1>6 DEF Coming
<1>9. breaks = 0 => FailureCarried'
  <2>1. \A t \in Scribe : (scribe'[t].pc = "case" \/ scribe[t].pc = "case") => scribe'[t] = scribe[t]
    BY <1>2, <1>6
  <2>2. QED BY <1>1, <1>2, <1>4, <2>1 DEF FailureCarried
<1>10. QED BY <1>1, <1>2, <1>4, <1>6, <1>7, <1>8, <1>9, StatementInv

\* The outcome is written: issued, failed, or to be tried again.
LEMMA OutcomeInv ==
  ASSUME InvoiceInv, NEW s \in Scribe, WriteOutcome(s)
  PROVE  InvoiceInv'
<1>1. Coming(s) /\ (breaks = 0 => FailureCarried) /\ FrozenStays /\ InvoiceTypeOK
      /\ receipt \in ReceiptRecord /\ paper \in PaperRecord /\ disputed \in BOOLEAN /\ docjob \in JobTable
  BY ComingNow
<1>2. UNCHANGED <<disputed, docjob, breaks, paper>> /\ scribe[s].job = "issue" /\ scribe[s].pc = "write"
  BY DEF WriteOutcome, AtStep
<1>3. PICK pc \in {"follow", "throw", "ack"} :
        /\ Turn(s, pc)
        /\ \/ ~receipt.ref /\ receipt' = [status |-> "issued", ref |-> TRUE] /\ pc = "follow"
           \/ receipt' = receipt /\ pc = "throw"
           \/ scribe[s].seen = "refused" /\ receipt' = [receipt EXCEPT !.status = "failed"] /\ pc = "ack"
           \/ ~receipt.ref /\ receipt' = [receipt EXCEPT !.status = "pending"] /\ pc = "throw"
  BY DEF WriteOutcome, Frozen
<1>4. pc \in RunPoint BY DEF RunPoint
<1>5. /\ scribe' \in [Scribe -> RunRecord]
      /\ scribe'[s].pc = pc /\ scribe'[s].job = scribe[s].job /\ scribe'[s].live = scribe[s].live
      /\ scribe'[s].seen = scribe[s].seen
      /\ \A t \in Scribe \ {s} : scribe'[t] = scribe[t]
  BY <1>1, <1>3, <1>4, TurnMoves
<1>6. /\ receipt' \in ReceiptRecord /\ (receipt.ref => receipt'.ref)
      /\ \/ receipt'.status = "issued" /\ receipt'.ref /\ ~receipt.ref
         \/ receipt' = receipt /\ pc = "throw"
         \/ receipt'.status = "failed" /\ receipt'.ref = receipt.ref /\ paper.refused
         \/ receipt'.status = "pending" /\ ~receipt'.ref /\ ~receipt.ref
  <2>1. CASE ~receipt.ref /\ receipt' = [status |-> "issued", ref |-> TRUE] BY <2>1 DEF ReceiptRecord
  <2>2. CASE receipt' = receipt /\ pc = "throw" BY <1>1, <2>2
  <2>3. CASE scribe[s].seen = "refused" /\ receipt' = [receipt EXCEPT !.status = "failed"]
    <3>1. paper.refused BY <1>1, <1>2, <2>3 DEF Coming
    <3>2. receipt' \in ReceiptRecord /\ receipt'.status = "failed" /\ receipt'.ref = receipt.ref
      BY <1>1, <2>3 DEF ReceiptRecord
    <3>3. QED BY <3>1, <3>2
  <2>4. CASE ~receipt.ref /\ receipt' = [receipt EXCEPT !.status = "pending"]
    BY <1>1, <2>4, Waiting
  <2>5. QED BY <1>3, <2>1, <2>2, <2>3, <2>4
<1>7. (pc = "follow" => receipt'.ref) /\ (pc = "ack" => paper.refused) BY <1>1, <1>2, <1>3 DEF Coming
<1>8. FrozenStays' BY <1>1, <1>6 DEF FrozenStays
<1>9. Coming(s)' BY <1>1, <1>2, <1>3, <1>5, <1>6, <1>7 DEF Coming
<1>10. breaks = 0 => FailureCarried'
  <2>1. SUFFICES ASSUME breaks = 0, ~paper.refused PROVE FailureCarried' BY <1>2 DEF FailureCarried
  <2>2. \A t \in Scribe : (scribe'[t].pc = "case" \/ scribe[t].pc = "case") => scribe'[t] = scribe[t]
    BY <1>2, <1>3, <1>5
  <2>3. \A t \in Scribe : scribe[t].seen = "matched" => receipt.ref
    BY DEF InvoiceInv, ReferenceSeen
  <2>4. QED BY <1>1, <1>2, <1>6, <2>1, <2>2, <2>3 DEF FailureCarried
<1>11. QED BY <1>1, <1>2, <1>3, <1>5, <1>6, <1>8, <1>9, <1>10, StatementInv

\* The job that reconciles is armed.
LEMMA FollowInv ==
  ASSUME InvoiceInv, NEW s \in Scribe, FollowUp(s)
  PROVE  InvoiceInv'
<1>1. Coming(s) /\ (breaks = 0 => FailureCarried) /\ FrozenStays /\ InvoiceTypeOK
      /\ receipt \in ReceiptRecord /\ paper \in PaperRecord /\ disputed \in BOOLEAN /\ docjob \in JobTable
  BY ComingNow
<1>2. UNCHANGED <<receipt, disputed, breaks, paper>> /\ scribe[s].job = "issue" /\ scribe[s].pc = "follow"
      /\ Turn(s, "ack") /\ docjob' = IfMissing("reconcile")
  BY DEF FollowUp, AtStep
<1>3. "ack" \in RunPoint /\ "reconcile" \in DocumentJob BY DEF RunPoint, DocumentJob
<1>4. /\ scribe' \in [Scribe -> RunRecord]
      /\ scribe'[s].pc = "ack" /\ scribe'[s].job = scribe[s].job /\ scribe'[s].live = scribe[s].live
      /\ scribe'[s].seen = scribe[s].seen
      /\ \A t \in Scribe \ {s} : scribe'[t] = scribe[t]
  BY <1>1, <1>2, <1>3, TurnMoves
<1>5. /\ docjob' \in JobTable
      /\ \A k \in DocumentJob : \/ docjob'[k] = docjob[k]
                                \/ docjob[k] \in {"none", "failed"} /\ docjob'[k] = "pending"
  BY <1>1, <1>2, <1>3, IfMissingMoves
<1>6. FrozenStays' BY <1>1, <1>2 DEF FrozenStays
<1>7. Coming(s)' BY <1>1, <1>2, <1>4 DEF Coming
<1>8. breaks = 0 => FailureCarried'
  <2>1. \A t \in Scribe : (scribe'[t].pc = "case" \/ scribe[t].pc = "case") => scribe'[t] = scribe[t]
    BY <1>2, <1>4
  <2>2. QED BY <1>1, <1>2, <2>1 DEF FailureCarried
<1>9. QED BY <1>1, <1>2, <1>4, <1>5, <1>6, <1>7, <1>8, StatementInv

\* The run that reconciles, up to its verdict.
LEMMA CompareInv ==
  ASSUME InvoiceInv, NEW s \in Scribe, ReadReference(s) \/ Compare(s)
  PROVE  InvoiceInv'
<1>1. Coming(s) /\ (breaks = 0 => FailureCarried) /\ FrozenStays /\ InvoiceTypeOK
      /\ receipt \in ReceiptRecord /\ paper \in PaperRecord /\ disputed \in BOOLEAN /\ docjob \in JobTable
  BY ComingNow
<1>2. UNCHANGED <<receipt, disputed, docjob, breaks, paper>> /\ scribe[s].job = "reconcile"
      /\ scribe[s].pc \in {"read", "compare"}
  BY DEF ReadReference, Compare, AtStep
<1>3. PICK pc \in {"compare", "close"}, seen \in {"ref", "none", "matched", "mismatched"} :
        /\ TurnSeeing(s, pc, seen)
        /\ seen \in {"ref", "matched"} => receipt.ref
        /\ pc = "close" => seen \in {"matched", "mismatched"}
  <2>1. CASE ReadReference(s) BY <2>1 DEF ReadReference
  <2>2. CASE Compare(s)
    <3>1. PICK seen \in {"mismatched"} \cup (IF scribe[s].seen = "ref" /\ paper.made THEN {"matched"} ELSE {}) :
            TurnSeeing(s, "close", seen)
      BY <2>2 DEF Compare
    <3>2. seen = "matched" => receipt.ref BY <1>1, <3>1 DEF Coming
    <3>3. QED BY <3>1, <3>2
  <2>3. QED BY <2>1, <2>2
<1>4. pc \in RunPoint /\ seen \in Sighting BY DEF RunPoint, Sighting
<1>5. /\ scribe' \in [Scribe -> RunRecord]
      /\ scribe'[s].pc = pc /\ scribe'[s].job = scribe[s].job /\ scribe'[s].live = scribe[s].live
      /\ scribe'[s].seen = seen
      /\ \A t \in Scribe \ {s} : scribe'[t] = scribe[t]
  BY <1>1, <1>3, <1>4, TurnSeeingMoves
<1>6. FrozenStays' BY <1>1, <1>2 DEF FrozenStays
<1>7. Coming(s)' BY <1>2, <1>3, <1>5 DEF Coming
<1>8. breaks = 0 => FailureCarried'
  <2>1. \A t \in Scribe : (scribe'[t].pc = "case" \/ scribe[t].pc = "case") => scribe'[t] = scribe[t]
    BY <1>2, <1>3, <1>5
  <2>2. QED BY <1>1, <1>2, <2>1 DEF FailureCarried
<1>9. QED BY <1>1, <1>2, <1>3, <1>5, <1>6, <1>7, <1>8, StatementInv

\* The verdict on the document.  What fails has its case next.
LEMMA VerdictInv ==
  ASSUME InvoiceInv, NEW s \in Scribe, WriteVerdict(s)
  PROVE  InvoiceInv'
<1>1. Coming(s) /\ FrozenStays /\ InvoiceTypeOK
      /\ receipt \in ReceiptRecord /\ paper \in PaperRecord /\ disputed \in BOOLEAN /\ docjob \in JobTable
  BY ComingNow
<1>2. UNCHANGED <<disputed, docjob, breaks, paper>> /\ scribe[s].job = "reconcile" /\ scribe[s].pc = "close"
      /\ Turn(s, "case") /\ scribe[s].seen \in {"matched", "mismatched"}
  BY <1>1 DEF WriteVerdict, AtStep, Coming
<1>3. /\ scribe' \in [Scribe -> RunRecord]
      /\ scribe'[s].pc = "case" /\ scribe'[s].job = scribe[s].job /\ scribe'[s].live = scribe[s].live
      /\ scribe'[s].seen = scribe[s].seen
      /\ \A t \in Scribe \ {s} : scribe'[t] = scribe[t]
  BY <1>1, <1>2, TurnMoves DEF RunPoint
<1>4. /\ receipt' \in ReceiptRecord /\ receipt'.ref = receipt.ref
      /\ scribe[s].seen = "matched" => receipt'.status = "reconciled"
      /\ scribe[s].seen # "matched" => receipt'.status = "failed"
  BY <1>1 DEF WriteVerdict, ReceiptRecord
<1>5. FrozenStays' BY <1>1, <1>2, <1>4 DEF FrozenStays, Coming
<1>6. Coming(s)' BY <1>1, <1>2, <1>3, <1>4 DEF Coming
<1>7. breaks = 0 => FailureCarried'
  <2>1. SUFFICES ASSUME breaks = 0 PROVE FailureCarried' OBVIOUS
  <2>2. \A t \in Scribe : scribe[t].pc = "case" => t = s
    BY <1>2, <2>1, ComingNow DEF InvoiceInv, ReferenceSeen
  <2>3. \A t \in Scribe : scribe'[t].pc = "case" => t = s BY <1>3, <2>2
  <2>4. QED BY <1>2, <1>3, <1>4, <2>3 DEF FailureCarried
<1>8. QED BY <1>1, <1>2, <1>3, <1>4, <1>5, <1>6, <1>7, StatementInv

\* ... and the case itself.
LEMMA CaseInv ==
  ASSUME InvoiceInv, NEW s \in Scribe, WriteCase(s)
  PROVE  InvoiceInv'
<1>1. Coming(s) /\ (breaks = 0 => FailureCarried) /\ FrozenStays /\ InvoiceTypeOK
      /\ receipt \in ReceiptRecord /\ paper \in PaperRecord /\ disputed \in BOOLEAN /\ docjob \in JobTable
  BY ComingNow
<1>2. UNCHANGED <<receipt, docjob, breaks, paper>> /\ scribe[s].job = "reconcile" /\ scribe[s].pc = "case"
      /\ Turn(s, "ack") /\ disputed' = (scribe[s].seen = "mismatched")
      /\ scribe[s].seen \in {"matched", "mismatched"}
  BY <1>1 DEF WriteCase, AtStep, Coming
<1>3. /\ scribe' \in [Scribe -> RunRecord]
      /\ scribe'[s].pc = "ack" /\ scribe'[s].job = scribe[s].job /\ scribe'[s].live = scribe[s].live
      /\ scribe'[s].seen = scribe[s].seen
      /\ \A t \in Scribe \ {s} : scribe'[t] = scribe[t]
  BY <1>1, <1>2, TurnMoves DEF RunPoint
<1>4. FrozenStays' BY <1>1, <1>2 DEF FrozenStays
<1>5. Coming(s)' BY <1>1, <1>2, <1>3 DEF Coming
<1>6. breaks = 0 => FailureCarried'
  <2>1. SUFFICES ASSUME breaks = 0, ~paper.refused PROVE FailureCarried' BY <1>2 DEF FailureCarried
  <2>2. \A t \in Scribe : scribe[t].pc = "case" => t = s
    BY <1>2, <2>1, ComingNow DEF InvoiceInv, ReferenceSeen
  <2>3. \A t \in Scribe : scribe'[t].pc # "case" BY <1>3, <2>2
  <2>4. scribe[s].seen = "matched" => receipt'.status = "reconciled"
    BY <1>1, <1>2, <2>1 DEF FailureCarried
  <2>5. QED BY <1>2, <2>3, <2>4 DEF FailureCarried
<1>7. disputed' \in BOOLEAN BY <1>2
<1>8. QED BY <1>1, <1>2, <1>3, <1>4, <1>5, <1>6, <1>7, StatementInv

\* The empty rail.
LEMMA InvoiceStart == InvoiceInit => InvoiceInv
<1>1. SUFFICES ASSUME InvoiceInit PROVE InvoiceInv OBVIOUS
<1>2. Resting \in RunRecord BY DEF Resting, RunRecord, RunPoint, Sighting
<1>3. breaks = 0 /\ 0 \in 0..MaxBreaks BY <1>1, InvoiceAssumption DEF InvoiceInit
<1>4. InvoiceTypeOK
  BY <1>1, <1>2, <1>3, InvoiceTypes DEF InvoiceInit, ReceiptRecord, JobTable, PaperRecord, DocumentJob
<1>5. \A s \in Scribe : scribe[s].job = "none" /\ scribe[s].pc = "free" /\ scribe[s].seen = "none"
  BY <1>1 DEF InvoiceInit, Resting
<1>6. FrozenStays /\ IssueSettled BY <1>1, <1>5 DEF InvoiceInit, FrozenStays, IssueSettled, DocumentJob
<1>7. ReferenceSeen BY <1>5 DEF ReferenceSeen
<1>8. OneReconciliation BY <1>1, <1>5 DEF InvoiceInit, OneReconciliation
<1>9. QED BY <1>4, <1>6, <1>7, <1>8 DEF InvoiceInv

\* Every step of the rail.
LEMMA InvoiceStep == InvoiceInv /\ [InvoiceNext]_invoiceVars => InvoiceInv'
<1>1. SUFFICES ASSUME InvoiceInv, [InvoiceNext]_invoiceVars PROVE InvoiceInv' OBVIOUS
<1>2. CASE EnqueueReceipt \/ EnqueuePending \/ ReclaimDocument \/ InvoiceWebhook \/ RetryInvoiceFailed
  BY <1>1, <1>2, OutsideInv
<1>3. ASSUME NEW s \in Scribe,
             \/ EndDocumentRun(s) \/ LoseScribe(s) \/ (\E j \in DocumentJob : TakeDocumentJob(s, j))
             \/ ReadDocument(s) \/ MarkProcessing(s) \/ CreateDocument(s) \/ WriteOutcome(s) \/ FollowUp(s)
             \/ ReadReference(s) \/ Compare(s) \/ WriteVerdict(s) \/ WriteCase(s)
      PROVE  InvoiceInv'
  <2>1. CASE EndDocumentRun(s) \/ LoseScribe(s) \/ (\E j \in DocumentJob : TakeDocumentJob(s, j))
    BY <1>1, <2>1, EndRunInv, LoseScribeInv, TakeInv
  <2>2. CASE ReadDocument(s) \/ MarkProcessing(s) \/ CreateDocument(s) \/ WriteOutcome(s) \/ FollowUp(s)
    BY <1>1, <2>2, MarkInvI, CreateInv, OutcomeInv, FollowInv
  <2>3. CASE ReadReference(s) \/ Compare(s) \/ WriteVerdict(s) \/ WriteCase(s)
    BY <1>1, <2>3, CompareInv, VerdictInv, CaseInv
  <2>4. QED BY <1>3, <2>1, <2>2, <2>3
<1>4. CASE UNCHANGED invoiceVars
  <2>1. UNCHANGED <<receipt, disputed, docjob, scribe, breaks, paper>> BY <1>4 DEF invoiceVars
  <2>2. UNCHANGED <<InvoiceTypeOK, FrozenStays, IssueSettled, ReferenceSeen, OneReconciliation>>
    BY <2>1 DEF InvoiceTypeOK, FrozenStays, IssueSettled, ReferenceSeen, OneReconciliation
  <2>3. QED BY <1>1, <2>2 DEF InvoiceInv
<1>5. QED BY <1>1, <1>2, <1>3, <1>4 DEF InvoiceNext

\* In every reachable state the receipt, its jobs and their runs have their types.
THEOREM ReceiptTypes == InvoiceSpec => []InvoiceTypeOK
<1>1. InvoiceInv => InvoiceTypeOK BY DEF InvoiceInv
<1>2. QED BY <1>1, InvoiceStart, InvoiceStep, PTL DEF InvoiceSpec

\* However many workers issue and reconcile, and however often they lose their
\* leases: once no job is left, a receipt the provider never refused is not
\* waiting, what the provider made is on record or before somebody, and a
\* failure is before somebody unless two reconciliations overlapped.
THEOREM ReceiptKept == InvoiceSpec => []NoReceiptForgotten
<1>1. InvoiceInv => NoReceiptForgotten
  <2>1. SUFFICES ASSUME InvoiceInv, Finished, ~paper.refused
                 PROVE  /\ receipt.status # "pending"
                        /\ paper.made => receipt.ref \/ BeforeSomeone
                        /\ receipt.status = "failed" => BeforeSomeone \/ breaks > 0
    BY DEF NoReceiptForgotten
  <2>2. docjob["issue"] \in {"none", "sent", "failed"} /\ "issue" \in DocumentJob
    BY <2>1, InvoiceTypes DEF InvoiceInv, Finished, DocumentJob, JobTable
  <2>3. docjob["issue"] = "sent" => receipt.ref BY <2>1 DEF InvoiceInv, IssueSettled
  <2>4. receipt.status # "pending"
    <3>1. receipt.status = "pending" => docjob["issue"] = "sent" BY <2>1, <2>2 DEF Finished, Present
    <3>2. receipt.ref => receipt.status # "pending" BY <2>1 DEF InvoiceInv, FrozenStays
    <3>3. QED BY <2>3, <3>1, <3>2
  <2>5. paper.made => receipt.ref \/ BeforeSomeone
    BY <2>1, <2>2, <2>3 DEF InvoiceInv, IssueSettled, BeforeSomeone
  <2>6. receipt.status = "failed" => BeforeSomeone \/ breaks > 0
    <3>1. breaks = 0 \/ breaks > 0 BY <2>1, InvoiceAssumption DEF InvoiceInv, InvoiceTypeOK
    <3>2. CASE breaks = 0 BY <2>1, <3>2 DEF InvoiceInv, OneReconciliation, BeforeSomeone, Finished
    <3>3. QED BY <3>1, <3>2
  <2>7. QED BY <2>4, <2>5, <2>6
<1>2. QED BY <1>1, InvoiceStart, InvoiceStep, PTL DEF InvoiceSpec

-----------------------------------------------------------------------------
(* Messages: the proof.                                                      *)

MessageRecord == [status : {"absent", "pending", "processing", "sent", "skipped", "blocked", "failed"}, attempts : Nat]
FlushRecord == [pc : {"idle", "send", "record", "write"}, count : Nat, answer : SendAnswer, holds : BOOLEAN]
TallyRecord == [claims : Nat, taken : Nat, late : BOOLEAN, final : BOOLEAN, ambiguous : BOOLEAN]

\* The type of the courier's variables, by these names.
LEMMA CourierTypesNamed ==
  CourierTypeOK <=> /\ message \in MessageRecord /\ courier \in [Courier -> FlushRecord] /\ tally \in TallyRecord
                    /\ hitches \in 0..MaxHitches /\ retries \in 0..MaxRetries
BY DEF CourierTypeOK, MessageRecord, FlushRecord, TallyRecord

\* ... and after a step.
LEMMA CourierTypesNext ==
  ASSUME message' \in MessageRecord, courier' \in [Courier -> FlushRecord], tally' \in TallyRecord,
         hitches' \in 0..MaxHitches, retries' \in 0..MaxRetries
  PROVE  CourierTypeOK'
BY DEF CourierTypeOK, MessageRecord, FlushRecord, TallyRecord

\* The constants and the counters are numbers.
LEMMA CourierNumbers ==
  ASSUME CourierTypeOK
  PROVE  /\ MaxSends \in Nat /\ MaxSends > 0 /\ MaxHitches \in Nat /\ MaxRetries \in Nat
         /\ hitches \in Nat /\ retries \in Nat
         /\ message.attempts \in Nat /\ tally.claims \in Nat /\ tally.taken \in Nat
         /\ \A c \in Courier : courier[c].count \in Nat
<1>1. message \in MessageRecord /\ courier \in [Courier -> FlushRecord] /\ tally \in TallyRecord
  BY CourierTypesNamed
<1>2. hitches \in Nat /\ retries \in Nat BY CourierTypesNamed, CourierAssumption
<1>3. QED BY <1>1, <1>2, CourierAssumption DEF MessageRecord, FlushRecord, TallyRecord

\* One courier goes on.
LEMMA FlushMoves ==
  ASSUME CourierTypeOK, NEW c \in Courier, NEW f \in FlushRecord, courier' = [courier EXCEPT ![c] = f]
  PROVE  courier' \in [Courier -> FlushRecord] /\ courier'[c] = f /\ \A d \in Courier \ {c} : courier'[d] = courier[d]
<1>1. courier \in [Courier -> FlushRecord] BY CourierTypesNamed
<1>2. QED BY <1>1

\* Whoever claimed the message has it no longer.
LEMMA DisownedMoves ==
  ASSUME CourierTypeOK
  PROVE  /\ Disowned \in [Courier -> FlushRecord]
         /\ \A d \in Courier : /\ Disowned[d].pc = courier[d].pc /\ Disowned[d].count = courier[d].count
                               /\ Disowned[d].answer = courier[d].answer /\ Disowned[d].holds = FALSE
<1>1. courier \in [Courier -> FlushRecord] BY CourierTypesNamed
<1>2. QED BY <1>1 DEF Disowned, FlushRecord

\* ... and one courier goes on.
LEMMA TakesOver ==
  ASSUME CourierTypeOK, NEW c \in Courier, NEW f \in FlushRecord, courier' = [Disowned EXCEPT ![c] = f]
  PROVE  /\ courier' \in [Courier -> FlushRecord] /\ courier'[c] = f
         /\ \A d \in Courier \ {c} : /\ courier'[d].pc = courier[d].pc /\ courier'[d].count = courier[d].count
                                     /\ courier'[d].answer = courier[d].answer /\ courier'[d].holds = FALSE
<1> DEFINE D == Disowned
<1>1. /\ D \in [Courier -> FlushRecord]
      /\ \A d \in Courier : /\ D[d].pc = courier[d].pc /\ D[d].count = courier[d].count
                            /\ D[d].answer = courier[d].answer /\ D[d].holds = FALSE
  BY DisownedMoves
<1>2. courier' = [D EXCEPT ![c] = f] OBVIOUS
<1> HIDE DEF D
<1>3. QED BY <1>1, <1>2

\* The idle courier.
LEMMA IdleFlush ==
  NoFlush \in FlushRecord /\ NoFlush.pc = "idle" /\ NoFlush.count = 0 /\ NoFlush.answer = "thrown"
  /\ NoFlush.holds = FALSE
BY DEF NoFlush, FlushRecord, SendAnswer

\* The message after a counted attempt.
LEMMA CountedForm ==
  ASSUME CourierTypeOK, NEW n \in Nat
  PROVE  /\ Counted(n) \in MessageRecord /\ Counted(n).attempts = n
         /\ n < MaxSends => Counted(n).status = "pending"
         /\ n >= MaxSends => Counted(n).status = "failed"
BY CourierNumbers DEF Counted, MessageRecord

\* The message after the courier c has written.
LEMMA OutcomeForm ==
  ASSUME CourierTypeOK, NEW c \in Courier
  PROVE  /\ Outcome(c) \in MessageRecord
         /\ \/ courier[c].answer = "success" /\ Outcome(c).status = "sent" /\ Outcome(c).attempts = message.attempts + 1
            \/ /\ courier[c].answer = "permanent" /\ Outcome(c).status = "failed"
               /\ Outcome(c).attempts = message.attempts + 1
            \/ /\ courier[c].answer \in {"skipped", "blocked"} /\ Outcome(c).status \in {"skipped", "blocked"}
               /\ Outcome(c).attempts = message.attempts
            \/ /\ courier[c].answer \in {"temporary", "thrown"} /\ Outcome(c).attempts = courier[c].count + 1
               /\ \/ Outcome(c).status = "pending" /\ courier[c].count + 1 < MaxSends
                  \/ Outcome(c).status = "failed" /\ courier[c].count + 1 >= MaxSends
<1>1. message \in MessageRecord /\ courier \in [Courier -> FlushRecord] BY CourierTypesNamed
<1>2. courier[c].answer \in SendAnswer /\ courier[c].count \in Nat /\ message.attempts \in Nat
  BY <1>1 DEF FlushRecord, MessageRecord
<1>3. CASE courier[c].answer = "success"
  <2>1. Outcome(c) = [status |-> "sent", attempts |-> message.attempts + 1] BY <1>3 DEF Outcome
  <2>2. QED BY <1>2, <1>3, <2>1 DEF MessageRecord
<1>4. CASE courier[c].answer = "permanent"
  <2>1. Outcome(c) = [status |-> "failed", attempts |-> message.attempts + 1] BY <1>4 DEF Outcome
  <2>2. QED BY <1>2, <1>4, <2>1 DEF MessageRecord
<1>5. CASE courier[c].answer \in {"skipped", "blocked"}
  <2>1. Outcome(c) = [message EXCEPT !.status = courier[c].answer] BY <1>5 DEF Outcome
  <2>2. QED BY <1>1, <1>2, <1>5, <2>1 DEF MessageRecord
<1>6. CASE courier[c].answer \in {"temporary", "thrown"}
  <2>1. Outcome(c) = Counted(courier[c].count + 1) BY <1>6 DEF Outcome
  <2>2. courier[c].count + 1 \in Nat BY <1>2
  <2>3. courier[c].count + 1 < MaxSends \/ courier[c].count + 1 >= MaxSends BY <2>2, CourierNumbers
  <2>4. QED BY <1>6, <2>1, <2>2, <2>3, CountedForm
<1>7. QED BY <1>2, <1>3, <1>4, <1>5, <1>6 DEF SendAnswer

\* What the couriers of a set owe grows by what one more courier counted.
LEMMA OwedGrows ==
  ASSUME NEW S \in SUBSET Courier, IsFiniteSet(S), NEW c \in Courier \ S, NEW count \in [Courier -> Nat]
  PROVE  /\ IsFiniteSet(S \cup {c}) /\ Cardinality(S \cup {c}) = Cardinality(S) + 1
         /\ IsFiniteSet(Owed(S, count)) /\ IsFiniteSet(Owed(S \cup {c}, count))
         /\ Cardinality(Owed(S \cup {c}, count)) = Cardinality(Owed(S, count)) + Capped(count[c]) + 1
         /\ Cardinality(Owed(S, count)) \in Nat /\ Cardinality(S) \in Nat
<1> DEFINE Row == {c} \X (0..Capped(count[c]))
           Old == Owed(S, count)
           New == Owed(S \cup {c}, count)
<1>1. MaxSends \in Nat /\ MaxSends > 0 /\ count[c] \in Nat BY CourierAssumption
<1>2. Capped(count[c]) \in Nat /\ Capped(count[c]) <= MaxSends - 1 BY <1>1 DEF Capped
<1>3. IsFiniteSet(0..(MaxSends - 1)) /\ IsFiniteSet(0..Capped(count[c]))
      /\ Cardinality(0..Capped(count[c])) = Capped(count[c]) + 1
  BY <1>1, <1>2, FS_Interval
<1>4. IsFiniteSet(S \cup {c}) /\ Cardinality(S \cup {c}) = Cardinality(S) + 1 BY FS_AddElement
<1>5. IsFiniteSet(S \X (0..(MaxSends - 1))) BY <1>3, FS_Product
<1>6. IsFiniteSet(Old)
  <2>1. Old \in SUBSET (S \X (0..(MaxSends - 1))) BY DEF Owed
  <2>2. QED BY <1>5, <2>1, FS_Subset
<1>7. IsFiniteSet({c}) /\ Cardinality({c}) = 1 BY FS_Singleton
<1>8. IsFiniteSet(Row) /\ Cardinality(Row) = Capped(count[c]) + 1
  <2>1. IsFiniteSet(Row) /\ Cardinality(Row) = Cardinality({c}) * Cardinality(0..Capped(count[c]))
    BY <1>3, <1>7, FS_Product
  <2>2. QED BY <1>2, <1>3, <1>7, <2>1
<1>9. New = Old \cup Row
  <2>1. \A i \in 0..(MaxSends - 1) : i <= count[c] <=> i \in 0..Capped(count[c])
    BY <1>1, <1>2 DEF Capped
  <2>2. 0..Capped(count[c]) \subseteq 0..(MaxSends - 1) BY <1>1, <1>2
  <2>3. \A d, i : <<d, i>> \in New <=> <<d, i>> \in Old \cup Row
    <3>1. ASSUME NEW d, NEW i PROVE <<d, i>> \in New <=> <<d, i>> \in Old \cup Row
      <4>1. <<d, i>> \in New <=> d \in S \cup {c} /\ i \in 0..(MaxSends - 1) /\ i <= count[d] BY DEF Owed
      <4>2. <<d, i>> \in Old <=> d \in S /\ i \in 0..(MaxSends - 1) /\ i <= count[d] BY DEF Owed
      <4>3. <<d, i>> \in Row <=> d = c /\ i \in 0..Capped(count[c]) OBVIOUS
      <4>4. QED BY <2>1, <2>2, <4>1, <4>2, <4>3
    <3>2. QED BY <3>1
  <2>4. \A p \in New \cup Old \cup Row : p = <<p[1], p[2]>> BY DEF Owed
  <2> HIDE DEF Row, Old, New
  <2>5. \A p : p \in New <=> p \in Old \cup Row
    <3>1. ASSUME NEW p, p \in New \cup Old \cup Row PROVE p \in New <=> p \in Old \cup Row
      BY <2>3, <2>4, <3>1
    <3>2. QED BY <3>1
  <2>6. QED BY <2>5
<1>10. Old \cap Row = {}
  <2>1. \A p \in Old : p[1] \in S BY DEF Owed
  <2>2. \A p \in Row : p[1] = c OBVIOUS
  <2>3. QED BY <2>1, <2>2
<1>11. Cardinality(Old) \in Nat /\ Cardinality(S) \in Nat BY <1>6, FS_CardinalityType
<1>12. IsFiniteSet(New) /\ Cardinality(New) = Cardinality(Old) + Cardinality(Row)
  <2>1. Cardinality(Old \cap Row) = 0 BY <1>10, FS_EmptySet
  <2>2. IsFiniteSet(Old \cup Row)
        /\ Cardinality(Old \cup Row) = Cardinality(Old) + Cardinality(Row) - Cardinality(Old \cap Row)
    BY <1>6, <1>8, FS_Union
  <2> HIDE DEF Row, Old, New
  <2>3. Cardinality(Row) \in Int BY <1>2, <1>8
  <2>4. QED BY <1>9, <1>11, <2>1, <2>2, <2>3
<1>13. QED BY <1>2, <1>4, <1>6, <1>8, <1>11, <1>12

\* It depends on the counts of these couriers alone.
LEMMA OwedSame ==
  ASSUME NEW S, NEW count, NEW other, \A c \in S : count[c] = other[c]
  PROVE  Owed(S, count) = Owed(S, other)
BY DEF Owed

\* Nobody owes more than a budget.
LEMMA OwedBound ==
  ASSUME NEW S, IsFiniteSet(S), NEW count
  PROVE  /\ Cardinality(Owed(S, count)) <= MaxSends * Cardinality(S)
         /\ Cardinality(Owed(S, count)) \in Nat /\ Cardinality(S) \in Nat /\ IsFiniteSet(Owed(S, count))
<1>1. MaxSends \in Nat /\ MaxSends > 0 BY CourierAssumption
<1>2. IsFiniteSet(0..(MaxSends - 1)) /\ Cardinality(0..(MaxSends - 1)) = MaxSends BY <1>1, FS_Interval
<1>3. IsFiniteSet(S \X (0..(MaxSends - 1)))
      /\ Cardinality(S \X (0..(MaxSends - 1))) = Cardinality(S) * Cardinality(0..(MaxSends - 1))
  BY <1>2, FS_Product
<1>4. Owed(S, count) \in SUBSET (S \X (0..(MaxSends - 1))) BY DEF Owed
<1>5. IsFiniteSet(Owed(S, count)) /\ Cardinality(Owed(S, count)) <= Cardinality(S \X (0..(MaxSends - 1)))
  BY <1>3, <1>4, FS_Subset
<1>6. Cardinality(S) \in Nat /\ Cardinality(Owed(S, count)) \in Nat BY <1>5, FS_CardinalityType
<1>7. Cardinality(S) * MaxSends = MaxSends * Cardinality(S) BY <1>1, <1>6
<1>8. QED BY <1>2, <1>3, <1>5, <1>6, <1>7

\* The numbers of the budgets.
LEMMA BudgetNumbers ==
  ASSUME CourierTypeOK
  PROVE  /\ Stalled \in SUBSET Courier /\ Counts \in [Courier -> Nat]
         /\ \A c \in Courier : Counts[c] = courier[c].count /\ Capped(courier[c].count) \in 0..(MaxSends - 1)
         /\ Capped(message.attempts) \in 0..(MaxSends - 1) /\ Spent \in 0..MaxSends /\ Undecided \in {0, 1}
<1>1. \A n \in Nat : Capped(n) \in 0..(MaxSends - 1) BY CourierAssumption DEF Capped
<1>2. message.attempts \in Nat /\ MaxSends \in Nat /\ MaxSends > 0 /\ \A c \in Courier : courier[c].count \in Nat
  BY CourierNumbers
<1>3. Capped(message.attempts) \in 0..(MaxSends - 1) BY <1>1, <1>2
<1>4. Spent \in 0..MaxSends BY <1>2, <1>3 DEF Spent
<1>5. QED BY <1>1, <1>2, <1>3, <1>4 DEF Stalled, Counts, Undecided

\* The budgets after a step, from what the step adds to each number.
LEMMA BudgetSums ==
  ASSUME NEW M \in Nat, NEW claims \in Int, NEW spent \in Int, NEW owed \in Int, NEW used \in Int,
         NEW claims2 \in Int, NEW spent2 \in Int, NEW owed2 \in Int, NEW used2 \in Int,
         claims <= spent + owed + M * used, used >= 0,
         \/ used2 = used /\ claims2 + spent + owed <= claims + spent2 + owed2
         \/ used2 = used + 1 /\ claims2 + spent + owed <= claims + spent2 + owed2 + M
         \/ used2 = used + 2 /\ claims2 + spent + owed <= claims + spent2 + owed2 + M + M
  PROVE  claims2 <= spent2 + owed2 + M * used2 /\ used2 >= 0
<1>1. M * (used + 1) = M * used + M /\ M * (used + 2) = M * used + M + M OBVIOUS
<1>2. M * used \in Int OBVIOUS
<1>3. CASE used2 = used /\ claims2 + spent + owed <= claims + spent2 + owed2 BY <1>2, <1>3
<1>4. CASE used2 = used + 1 /\ claims2 + spent + owed <= claims + spent2 + owed2 + M
  <2> DEFINE P == M * used
  <2>1. P \in Int /\ claims <= spent + owed + P /\ M * used2 = P + M BY <1>1, <1>2, <1>4
  <2> HIDE DEF P
  <2>2. QED BY <1>4, <2>1
<1>5. CASE used2 = used + 2 /\ claims2 + spent + owed <= claims + spent2 + owed2 + M + M
  <2> DEFINE P == M * used
  <2>1. P \in Int /\ claims <= spent + owed + P /\ M * used2 = P + M + M BY <1>1, <1>2, <1>5
  <2> HIDE DEF P
  <2>2. QED BY <1>5, <2>1
<1>6. QED BY <1>3, <1>4, <1>5

\* The numbers of the budgets have their types ...
BudgetTyped ==
  /\ MaxSends \in Nat /\ tally.claims \in Int /\ Spent \in Int /\ Granted \in Int
  /\ Cardinality(Stalled) \in Nat /\ Cardinality(Owed(Stalled, Counts)) \in Nat
  /\ UsedUp = Granted - Cardinality(Stalled) /\ UsedUp \in Int
\* ... in every state of the right type ...
LEMMA BudgetTypes == CourierTypeOK /\ IsFiniteSet(Stalled) => BudgetTyped
<1>1. SUFFICES ASSUME CourierTypeOK, IsFiniteSet(Stalled) PROVE BudgetTyped OBVIOUS
<1>2. MaxSends \in Nat /\ tally.claims \in Int /\ hitches \in Nat /\ retries \in Nat BY <1>1, CourierNumbers
<1>3. Spent \in 0..MaxSends /\ Undecided \in {0, 1} BY <1>1, BudgetNumbers
<1>4. Cardinality(Stalled) \in Nat /\ Cardinality(Owed(Stalled, Counts)) \in Nat BY <1>1, OwedBound
<1>5. Spent \in Int BY <1>2, <1>3
<1>6. Granted \in Int BY <1>2, <1>3 DEF Granted
<1>7. QED BY <1>2, <1>4, <1>5, <1>6 DEF UsedUp, BudgetTyped

\* ... before and after a step.
LEMMA BudgetTypesNext == (CourierTypeOK /\ IsFiniteSet(Stalled))' => BudgetTyped'
BY BudgetTypes, PTL

\* A step after which the same couriers are stalled.
LEMMA BudgetKeeps ==
  ASSUME CourierTypeOK, CourierTypeOK', Budgeted, Stalled' = Stalled,
         \A d \in Stalled : courier'[d].count = courier[d].count,
         \/ Granted' = Granted /\ tally'.claims + Spent <= tally.claims + Spent'
         \/ Granted' = Granted + 1 /\ tally'.claims + Spent <= tally.claims + Spent' + MaxSends
         \/ Granted' = Granted + 2 /\ tally'.claims + Spent <= tally.claims + Spent' + MaxSends + MaxSends
  PROVE  Budgeted'
<1> DEFINE O == Cardinality(Owed(Stalled, Counts))
<1>1. IsFiniteSet(Stalled) /\ UsedUp >= 0 /\ tally.claims <= Spent + O + MaxSends * UsedUp BY DEF Budgeted
<1>2. O' = O
  <2>1. \A d \in Stalled : Counts'[d] = Counts[d] BY BudgetNumbers DEF Counts
  <2>2. Owed(Stalled, Counts') = Owed(Stalled, Counts) BY <2>1, OwedSame
  <2>3. Owed(Stalled, Counts)' = Owed(Stalled', Counts') BY DEF Owed
  <2>4. QED BY <2>2, <2>3
<1>3. /\ MaxSends \in Nat /\ tally.claims \in Int /\ Spent \in Int /\ Granted \in Int /\ O \in Nat
      /\ Cardinality(Stalled) \in Nat /\ UsedUp = Granted - Cardinality(Stalled) /\ UsedUp \in Int
  BY <1>1, BudgetTypes DEF BudgetTyped
<1>4. /\ tally'.claims \in Int /\ Spent' \in Int /\ Granted' \in Int
      /\ UsedUp' = Granted' - Cardinality(Stalled) /\ UsedUp' \in Int /\ MaxSends' = MaxSends
  BY <1>1, BudgetTypesNext DEF BudgetTyped
<1> HIDE DEF O
<1>5. \/ UsedUp' = UsedUp /\ tally'.claims + Spent + O <= tally.claims + Spent' + O'
      \/ UsedUp' = UsedUp + 1 /\ tally'.claims + Spent + O <= tally.claims + Spent' + O' + MaxSends
      \/ UsedUp' = UsedUp + 2 /\ tally'.claims + Spent + O <= tally.claims + Spent' + O' + MaxSends + MaxSends
  BY <1>2, <1>3, <1>4
<1>6. tally'.claims <= Spent' + O' + MaxSends * UsedUp' /\ UsedUp' >= 0
  BY <1>1, <1>2, <1>3, <1>4, <1>5, BudgetSums
<1>7. QED BY <1>1, <1>6 DEF Budgeted, O

\* A step after which a courier is no longer stalled.
LEMMA BudgetDrops ==
  ASSUME CourierTypeOK, CourierTypeOK', Budgeted, NEW c \in Stalled, Stalled' = Stalled \ {c},
         \A d \in Stalled \ {c} : courier'[d].count = courier[d].count,
         LET kept == tally'.claims + Spent + Capped(courier[c].count) + 1
         IN  \/ Granted' = Granted - 1 /\ kept <= tally.claims + Spent'
             \/ Granted' = Granted /\ kept <= tally.claims + Spent' + MaxSends
             \/ Granted' = Granted + 1 /\ kept <= tally.claims + Spent' + MaxSends + MaxSends
  PROVE  Budgeted'
<1> DEFINE O == Cardinality(Owed(Stalled, Counts))
           T == Stalled \ {c}
           k == Capped(courier[c].count)
<1>1. IsFiniteSet(Stalled) /\ UsedUp >= 0 /\ tally.claims <= Spent + O + MaxSends * UsedUp BY DEF Budgeted
<1>2. c \in Courier /\ Counts \in [Courier -> Nat] /\ Counts[c] = courier[c].count /\ k \in 0..(MaxSends - 1)
      /\ Stalled \in SUBSET Courier
  BY BudgetNumbers
<1>3. IsFiniteSet(T) /\ T \in SUBSET Courier /\ c \in Courier \ T /\ T \cup {c} = Stalled
  BY <1>1, <1>2, FS_RemoveElement
<1>4. /\ Cardinality(Stalled) = Cardinality(T) + 1 /\ Cardinality(T) \in Nat
      /\ O = Cardinality(Owed(T, Counts)) + k + 1 /\ Cardinality(Owed(T, Counts)) \in Nat
  <2> HIDE DEF T
  <2>1. /\ Cardinality(T \cup {c}) = Cardinality(T) + 1 /\ Cardinality(T) \in Nat
        /\ Cardinality(Owed(T \cup {c}, Counts)) = Cardinality(Owed(T, Counts)) + Capped(Counts[c]) + 1
        /\ Cardinality(Owed(T, Counts)) \in Nat
    BY <1>2, <1>3, OwedGrows
  <2>2. QED BY <1>2, <1>3, <2>1
<1>5. O' = Cardinality(Owed(T, Counts)) /\ Stalled' = T
  <2>1. \A d \in T : Counts'[d] = Counts[d] BY BudgetNumbers DEF Counts
  <2>2. Owed(T, Counts') = Owed(T, Counts) BY <2>1, OwedSame
  <2>3. Owed(Stalled, Counts)' = Owed(Stalled', Counts') BY DEF Owed
  <2>4. QED BY <2>2, <2>3
<1>6. /\ MaxSends \in Nat /\ tally.claims \in Int /\ Spent \in Int /\ Granted \in Int /\ O \in Nat
      /\ UsedUp = Granted - Cardinality(Stalled) /\ UsedUp \in Int
  BY <1>1, BudgetTypes DEF BudgetTyped
<1>7. /\ tally'.claims \in Int /\ Spent' \in Int /\ Granted' \in Int
      /\ UsedUp' = Granted' - Cardinality(T) /\ UsedUp' \in Int
  BY <1>3, <1>5, BudgetTypesNext DEF BudgetTyped
<1>8. k \in Int /\ k >= 0 BY <1>2, <1>6
<1> HIDE DEF O, T, k
<1>9. \/ UsedUp' = UsedUp /\ tally'.claims + Spent + O <= tally.claims + Spent' + O'
      \/ UsedUp' = UsedUp + 1 /\ tally'.claims + Spent + O <= tally.claims + Spent' + O' + MaxSends
      \/ UsedUp' = UsedUp + 2 /\ tally'.claims + Spent + O <= tally.claims + Spent' + O' + MaxSends + MaxSends
  <2> DEFINE kept == tally'.claims + Spent + k + 1
  <2>1. \/ Granted' = Granted - 1 /\ kept <= tally.claims + Spent'
        \/ Granted' = Granted /\ kept <= tally.claims + Spent' + MaxSends
        \/ Granted' = Granted + 1 /\ kept <= tally.claims + Spent' + MaxSends + MaxSends
    BY DEF k
  <2>2. QED BY <1>4, <1>5, <1>6, <1>7, <1>8, <2>1
<1>10. O' \in Int BY <1>4, <1>5
<1>11. tally'.claims <= Spent' + O' + MaxSends * UsedUp' /\ UsedUp' >= 0
  BY <1>1, <1>6, <1>7, <1>9, <1>10, BudgetSums
<1>12. QED BY <1>3, <1>5, <1>11 DEF Budgeted, O

\* A step after which one more courier is stalled.
LEMMA BudgetGrows ==
  ASSUME CourierTypeOK, CourierTypeOK', Budgeted, NEW c \in Courier \ Stalled, Stalled' = Stalled \cup {c},
         \A d \in Stalled' : courier'[d].count = courier[d].count,
         LET kept == tally'.claims + Spent
             more == tally.claims + Spent' + Capped(courier[c].count) + 1
         IN  \/ Granted' = Granted + 1 /\ kept <= more
             \/ Granted' = Granted + 2 /\ kept <= more + MaxSends
  PROVE  Budgeted'
<1> DEFINE O == Cardinality(Owed(Stalled, Counts))
           T == Stalled \cup {c}
           k == Capped(courier[c].count)
<1>1. IsFiniteSet(Stalled) /\ UsedUp >= 0 /\ tally.claims <= Spent + O + MaxSends * UsedUp BY DEF Budgeted
<1>2. Counts \in [Courier -> Nat] /\ Counts[c] = courier[c].count /\ k \in 0..(MaxSends - 1)
      /\ Stalled \in SUBSET Courier
  BY BudgetNumbers
<1>3. /\ IsFiniteSet(T) /\ Cardinality(T) = Cardinality(Stalled) + 1 /\ Cardinality(Stalled) \in Nat
      /\ Cardinality(Owed(T, Counts)) = O + k + 1
  BY <1>1, <1>2, OwedGrows
<1>4. O' = Cardinality(Owed(T, Counts)) /\ Stalled' = T
  <2>1. \A d \in T : Counts'[d] = Counts[d] BY BudgetNumbers DEF Counts
  <2>2. Owed(T, Counts') = Owed(T, Counts) BY <2>1, OwedSame
  <2>3. Owed(Stalled, Counts)' = Owed(Stalled', Counts') BY DEF Owed
  <2>4. QED BY <2>2, <2>3
<1>5. /\ MaxSends \in Nat /\ tally.claims \in Int /\ Spent \in Int /\ Granted \in Int /\ O \in Nat
      /\ UsedUp = Granted - Cardinality(Stalled) /\ UsedUp \in Int
  BY <1>1, BudgetTypes DEF BudgetTyped
<1>6. /\ tally'.claims \in Int /\ Spent' \in Int /\ Granted' \in Int
      /\ UsedUp' = Granted' - Cardinality(T) /\ UsedUp' \in Int
  BY <1>3, <1>4, BudgetTypesNext DEF BudgetTyped
<1>7. k \in Int /\ k >= 0 BY <1>2, <1>5
<1> HIDE DEF O, T, k
<1>8. \/ UsedUp' = UsedUp /\ tally'.claims + Spent + O <= tally.claims + Spent' + O'
      \/ UsedUp' = UsedUp + 1 /\ tally'.claims + Spent + O <= tally.claims + Spent' + O' + MaxSends
  <2> DEFINE kept == tally'.claims + Spent
             more == tally.claims + Spent' + k + 1
  <2>1. \/ Granted' = Granted + 1 /\ kept <= more
        \/ Granted' = Granted + 2 /\ kept <= more + MaxSends
    BY DEF k
  <2>2. QED BY <1>3, <1>4, <1>5, <1>6, <1>7, <2>1
<1>9. O' \in Int BY <1>3, <1>4, <1>5, <1>7
<1>10. tally'.claims <= Spent' + O' + MaxSends * UsedUp' /\ UsedUp' >= 0
  BY <1>1, <1>5, <1>6, <1>8, <1>9, BudgetSums
<1>11. QED BY <1>3, <1>4, <1>10 DEF Budgeted, O

\* A step after which another courier is stalled in the place of one.
LEMMA BudgetSwaps ==
  ASSUME CourierTypeOK, CourierTypeOK', Budgeted, NEW c \in Stalled, NEW e \in Courier \ Stalled,
         Stalled' = (Stalled \ {c}) \cup {e},
         \A d \in Stalled' : courier'[d].count = courier[d].count,
         LET kept == tally'.claims + Spent + Capped(courier[c].count)
             more == tally.claims + Spent' + Capped(courier[e].count)
         IN  \/ Granted' = Granted /\ kept <= more
             \/ Granted' = Granted + 1 /\ kept <= more + MaxSends
  PROVE  Budgeted'
<1> DEFINE O == Cardinality(Owed(Stalled, Counts))
           T == Stalled \ {c}
           U == T \cup {e}
           k == Capped(courier[c].count)
           l == Capped(courier[e].count)
<1>1. IsFiniteSet(Stalled) /\ UsedUp >= 0 /\ tally.claims <= Spent + O + MaxSends * UsedUp BY DEF Budgeted
<1>2. /\ c \in Courier /\ Counts \in [Courier -> Nat] /\ Counts[c] = courier[c].count /\ k \in 0..(MaxSends - 1)
      /\ Counts[e] = courier[e].count /\ l \in 0..(MaxSends - 1) /\ Stalled \in SUBSET Courier
  BY BudgetNumbers
<1>3. IsFiniteSet(T) /\ T \in SUBSET Courier /\ c \in Courier \ T /\ e \in Courier \ T /\ T \cup {c} = Stalled
  BY <1>1, <1>2, FS_RemoveElement
<1>4. /\ Cardinality(Stalled) = Cardinality(T) + 1 /\ Cardinality(T) \in Nat
      /\ O = Cardinality(Owed(T, Counts)) + k + 1 /\ Cardinality(Owed(T, Counts)) \in Nat
  <2> HIDE DEF T
  <2>1. /\ Cardinality(T \cup {c}) = Cardinality(T) + 1 /\ Cardinality(T) \in Nat
        /\ Cardinality(Owed(T \cup {c}, Counts)) = Cardinality(Owed(T, Counts)) + Capped(Counts[c]) + 1
        /\ Cardinality(Owed(T, Counts)) \in Nat
    BY ZenonT(60), <1>2, <1>3, OwedGrows
  <2>2. QED BY <1>2, <1>3, <2>1
<1>5. /\ IsFiniteSet(U) /\ Cardinality(U) = Cardinality(T) + 1
      /\ Cardinality(Owed(U, Counts)) = Cardinality(Owed(T, Counts)) + l + 1
  <2> HIDE DEF T
  <2>1. QED BY <1>2, <1>3, OwedGrows
<1>6. O' = Cardinality(Owed(U, Counts)) /\ Stalled' = U
  <2>1. \A d \in U : Counts'[d] = Counts[d] BY BudgetNumbers DEF Counts
  <2>2. Owed(U, Counts') = Owed(U, Counts) BY <2>1, OwedSame
  <2>3. Owed(Stalled, Counts)' = Owed(Stalled', Counts') BY DEF Owed
  <2>4. QED BY <2>2, <2>3
<1>7. /\ MaxSends \in Nat /\ tally.claims \in Int /\ Spent \in Int /\ Granted \in Int /\ O \in Nat
      /\ UsedUp = Granted - Cardinality(Stalled) /\ UsedUp \in Int
  BY <1>1, BudgetTypes DEF BudgetTyped
<1>8. /\ tally'.claims \in Int /\ Spent' \in Int /\ Granted' \in Int
      /\ UsedUp' = Granted' - Cardinality(U) /\ UsedUp' \in Int
  BY <1>5, <1>6, BudgetTypesNext DEF BudgetTyped
<1>9. k \in Int /\ l \in Int BY <1>2, <1>7
<1> HIDE DEF O, T, U, k, l
<1>10. \/ UsedUp' = UsedUp /\ tally'.claims + Spent + O <= tally.claims + Spent' + O'
       \/ UsedUp' = UsedUp + 1 /\ tally'.claims + Spent + O <= tally.claims + Spent' + O' + MaxSends
  <2> DEFINE kept == tally'.claims + Spent + k
             more == tally.claims + Spent' + l
  <2>1. \/ Granted' = Granted /\ kept <= more
        \/ Granted' = Granted + 1 /\ kept <= more + MaxSends
    BY DEF k, l
  <2>2. QED BY <1>4, <1>5, <1>6, <1>7, <1>8, <1>9, <2>1
<1>11. O' \in Int BY <1>4, <1>5, <1>6, <1>9
<1>12. tally'.claims <= Spent' + O' + MaxSends * UsedUp' /\ UsedUp' >= 0
  BY <1>1, <1>7, <1>8, <1>10, <1>11, BudgetSums
<1>13. QED BY <1>5, <1>6, <1>12 DEF Budgeted, O

\* What the invariant says of the types.
LEMMA CourierNow ==
  ASSUME CourierInv
  PROVE  /\ CourierTypeOK
         /\ message \in MessageRecord /\ courier \in [Courier -> FlushRecord] /\ tally \in TallyRecord
         /\ hitches \in 0..MaxHitches /\ retries \in 0..MaxRetries
         /\ MaxSends \in Nat /\ MaxSends > 0 /\ hitches \in Nat /\ retries \in Nat
         /\ message.attempts \in Nat /\ tally.claims \in Nat /\ tally.taken \in Nat
         /\ \A c \in Courier : courier[c].count \in Nat
         /\ OneClaim /\ Attempted /\ ClaimedBefore /\ TakenKnown /\ AnswerStages /\ Budgeted
BY CourierTypesNamed, CourierNumbers DEF CourierInv

\* The message is enqueued, or an administrator tries it again.
LEMMA EnqueueInv ==
  ASSUME CourierInv, EnqueueNotification \/ RetryNotification
  PROVE  CourierInv'
<1>1. /\ CourierTypeOK
      /\ message \in MessageRecord /\ courier \in [Courier -> FlushRecord] /\ tally \in TallyRecord
      /\ hitches \in 0..MaxHitches /\ retries \in 0..MaxRetries
      /\ MaxSends \in Nat /\ MaxSends > 0 /\ hitches \in Nat /\ retries \in Nat
      /\ message.attempts \in Nat /\ tally.claims \in Nat
      /\ OneClaim /\ Attempted /\ ClaimedBefore /\ TakenKnown /\ AnswerStages /\ Budgeted
  BY CourierNow
<1>2. /\ UNCHANGED <<courier, hitches, tally>> /\ message' = [message EXCEPT !.status = "pending"]
      /\ \/ message.status = "absent" /\ retries' = retries
         \/ message.status = "failed" /\ retries' = retries + 1 /\ retries < MaxRetries
  BY DEF EnqueueNotification, RetryNotification
<1>3. message' \in MessageRecord /\ message'.status = "pending" /\ message'.attempts = message.attempts
  BY <1>1, <1>2 DEF MessageRecord
<1>4. retries' \in 0..MaxRetries /\ retries' \in Nat /\ retries' >= retries BY <1>1, <1>2, CourierAssumption
<1>5. CourierTypeOK' BY <1>1, <1>2, <1>3, <1>4, CourierTypesNext
<1>6. \A c \in Courier : courier[c].holds = FALSE
  <2>1. courier \in [Courier -> FlushRecord] BY <1>1
  <2>2. \A c \in Courier : courier[c].holds \in BOOLEAN BY <2>1 DEF FlushRecord
  <2>3. QED BY <1>1, <1>2, <2>2 DEF OneClaim
<1>7. OneClaim' BY <1>1, <1>2, <1>6 DEF OneClaim
<1>8. Attempted' BY <1>1, <1>2, <1>3, <1>4 DEF Attempted
<1>9. ClaimedBefore' BY <1>1, <1>2, <1>3 DEF ClaimedBefore
<1>10. TakenKnown'
  <2>1. SUFFICES ASSUME hitches = 0, ~tally.ambiguous PROVE tally.taken <= 1 /\ tally.taken # 1
    BY <1>2 DEF TakenKnown
  <2>2. QED BY <1>1, <1>2, <1>6, <2>1 DEF TakenKnown
<1>11. AnswerStages' BY <1>1, <1>2 DEF AnswerStages
<1>12. Budgeted'
  <2>1. Stalled' = Stalled /\ \A d \in Stalled : courier'[d].count = courier[d].count BY <1>2 DEF Stalled
  <2>2. Granted' = Granted
    BY <1>1, <1>2, <1>3, <1>4 DEF Granted, Undecided
  <2>3. Spent = 0 BY <1>2 DEF Spent
  <2>4. Spent' \in Nat
    <3>1. Spent' = Capped(message'.attempts) BY <1>3 DEF Spent, Capped
    <3>2. Capped(message'.attempts) \in Nat BY <1>1, <1>3 DEF Capped
    <3>3. QED BY <3>1, <3>2
  <2>5. tally'.claims + Spent <= tally.claims + Spent' BY <1>1, <1>2, <2>3, <2>4
  <2>6. QED BY <1>1, <1>5, <2>1, <2>2, <2>5, BudgetKeeps
<1>13. QED BY <1>5, <1>7, <1>8, <1>9, <1>10, <1>11, <1>12 DEF CourierInv

\* A courier claims the message: an attempt that nobody has counted before.
LEMMA ClaimInv ==
  ASSUME CourierInv, NEW c \in Courier, ClaimMessage(c)
  PROVE  CourierInv'
<1> DEFINE f == [pc |-> "send", count |-> message.attempts, answer |-> "thrown", holds |-> TRUE]
<1>1. /\ CourierTypeOK
      /\ message \in MessageRecord /\ courier \in [Courier -> FlushRecord] /\ tally \in TallyRecord
      /\ hitches \in 0..MaxHitches /\ retries \in 0..MaxRetries
      /\ MaxSends \in Nat /\ MaxSends > 0 /\ hitches \in Nat /\ retries \in Nat
      /\ message.attempts \in Nat /\ tally.claims \in Nat
      /\ OneClaim /\ Attempted /\ ClaimedBefore /\ TakenKnown /\ AnswerStages /\ Budgeted
  BY CourierNow
<1>2. /\ UNCHANGED <<hitches, retries>> /\ message' = [message EXCEPT !.status = "processing"]
      /\ courier' = [Disowned EXCEPT ![c] = f] /\ tally' = [tally EXCEPT !.claims = @ + 1]
      /\ courier[c].pc = "idle" /\ message.status = "pending"
  BY DEF ClaimMessage, Busy
<1>3. f \in FlushRecord /\ f.pc = "send" /\ f.count = message.attempts /\ f.answer = "thrown" /\ f.holds = TRUE
  BY <1>1 DEF FlushRecord, SendAnswer
<1> HIDE DEF f
<1>4. /\ courier' \in [Courier -> FlushRecord] /\ courier'[c] = f
      /\ \A d \in Courier \ {c} : /\ courier'[d].pc = courier[d].pc /\ courier'[d].count = courier[d].count
                                  /\ courier'[d].answer = courier[d].answer /\ courier'[d].holds = FALSE
  BY <1>1, <1>2, <1>3, TakesOver
<1>5. message' \in MessageRecord /\ message'.status = "processing" /\ message'.attempts = message.attempts
  BY <1>1, <1>2 DEF MessageRecord
<1>6. /\ tally' \in TallyRecord /\ tally'.claims = tally.claims + 1 /\ tally'.taken = tally.taken
      /\ tally'.late = tally.late /\ tally'.final = tally.final /\ tally'.ambiguous = tally.ambiguous
  BY <1>1, <1>2 DEF TallyRecord
<1>7. CourierTypeOK' BY <1>1, <1>2, <1>4, <1>5, <1>6, CourierTypesNext
<1>8. \A d \in Courier : courier[d].holds = FALSE
  <2>1. \A d \in Courier : courier[d].holds \in BOOLEAN BY <1>1 DEF FlushRecord
  <2>2. QED BY <1>1, <1>2, <2>1 DEF OneClaim
<1>9. OneClaim'
  <2>1. ASSUME NEW d \in Courier
        PROVE  /\ courier'[d].pc # "idle" /\ ~tally'.final => courier'[d].count < tally'.claims
               /\ courier'[d].holds => /\ courier'[d].pc # "idle" /\ message'.status = "processing"
                                       /\ courier'[d].count = message'.attempts
               /\ hitches' = 0 /\ courier'[d].pc # "idle" => courier'[d].holds
               /\ courier'[d].holds => d = c
    <3>1. CASE d = c
      <4>1. ~tally.final => message.attempts <= tally.claims BY <1>1, <1>2 DEF ClaimedBefore
      <4>2. QED BY <1>1, <1>3, <1>4, <1>5, <1>6, <3>1, <4>1
    <3>2. CASE d # c
      <4>1. courier[d].count \in Nat BY CourierNow
      <4>2. courier[d].pc # "idle" /\ ~tally.final => courier[d].count < tally.claims BY <1>1 DEF OneClaim
      <4>3. ~(hitches = 0 /\ courier[d].pc # "idle") BY <1>1, <1>8 DEF OneClaim
      <4>4. QED BY <1>1, <1>2, <1>4, <1>6, <3>2, <4>1, <4>2, <4>3
    <3>3. QED BY <3>1, <3>2
  <2>2. QED BY <2>1 DEF OneClaim
<1>10. Attempted' BY <1>1, <1>2, <1>5, <1>6 DEF Attempted
<1>11. ClaimedBefore'
  <2>1. \A d \in Courier : courier'[d].answer = "permanent" => courier[d].answer = "permanent"
    BY <1>3, <1>4
  <2>2. QED BY <1>1, <1>2, <1>5, <1>6, <2>1 DEF ClaimedBefore
<1>12. TakenKnown'
  <2>1. hitches = 0 /\ ~tally.ambiguous => tally.taken <= 1 /\ tally.taken # 1 BY <1>1, <1>2, <1>8 DEF TakenKnown
  <2>2. QED BY <1>2, <1>6, <2>1 DEF TakenKnown
<1>13. AnswerStages'
  <2>1. \A d \in Courier : courier'[d].pc = "send" => courier'[d].answer = "thrown"
    BY <1>1, <1>3, <1>4 DEF AnswerStages
  <2>2. QED BY <2>1 DEF AnswerStages
<1>14. Budgeted'
  <2>1. Stalled' = Stalled /\ \A d \in Stalled : courier'[d].count = courier[d].count
    <3>1. \A d \in Courier : d \in Stalled' <=> d \in Stalled
      <4>1. ASSUME NEW d \in Courier PROVE d \in Stalled' <=> d \in Stalled
        <5>1. CASE d = c BY <1>2, <1>3, <1>4, <5>1 DEF Stalled
        <5>2. CASE d # c BY <1>4, <1>8, <5>2 DEF Stalled
        <5>3. QED BY <5>1, <5>2
      <4>2. QED BY <4>1
    <3>2. Stalled \subseteq Courier /\ Stalled' \subseteq Courier BY DEF Stalled
    <3>3. \A d \in Stalled : d # c BY <1>2 DEF Stalled
    <3>4. QED BY <1>4, <3>1, <3>2, <3>3
  <2>2. Granted' = Granted BY <1>2, <1>5 DEF Granted, Undecided
  <2>3. Spent' = Spent + 1 BY <1>1, <1>2, <1>5 DEF Spent, Capped
  <2>4. Spent \in Int BY <1>1, <1>2 DEF Spent, Capped
  <2>5. tally'.claims + Spent <= tally.claims + Spent' BY <1>1, <1>6, <2>3, <2>4
  <2>6. QED BY <1>1, <1>7, <2>1, <2>2, <2>5, BudgetKeeps
<1>15. QED BY <1>7, <1>9, <1>10, <1>11, <1>12, <1>13, <1>14 DEF CourierInv

\* A courier goes on with the message it claimed.
LEMMA GoOnInv ==
  ASSUME CourierInv, NEW c \in Courier, NEW f \in FlushRecord, courier' = [courier EXCEPT ![c] = f],
         courier[c].pc # "idle", f.pc # "idle", f.count = courier[c].count, f.holds = courier[c].holds,
         f.pc = "send" => f.answer = "thrown", f.answer = "permanent" => tally'.final,
         UNCHANGED <<message, retries>>, hitches' \in {hitches, hitches + 1}, hitches' <= MaxHitches,
         tally' \in TallyRecord, tally'.claims = tally.claims, tally'.late = tally.late,
         tally.final => tally'.final, TakenKnown'
  PROVE  CourierInv'
<1>1. /\ CourierTypeOK
      /\ message \in MessageRecord /\ courier \in [Courier -> FlushRecord] /\ tally \in TallyRecord
      /\ hitches \in 0..MaxHitches /\ retries \in 0..MaxRetries
      /\ MaxSends \in Nat /\ MaxSends > 0 /\ hitches \in Nat /\ retries \in Nat
      /\ message.attempts \in Nat /\ tally.claims \in Nat
      /\ OneClaim /\ Attempted /\ ClaimedBefore /\ TakenKnown /\ AnswerStages /\ Budgeted
  BY CourierNow
<1>2. courier' \in [Courier -> FlushRecord] /\ courier'[c] = f /\ \A d \in Courier \ {c} : courier'[d] = courier[d]
  BY <1>1, FlushMoves
<1>3. hitches' \in 0..MaxHitches /\ (hitches' = 0 => hitches = 0) BY <1>1, CourierAssumption
<1>4. CourierTypeOK' BY <1>1, <1>2, <1>3, CourierTypesNext
<1>5. \A d \in Courier : /\ courier'[d].pc # "idle" <=> courier[d].pc # "idle"
                         /\ courier'[d].count = courier[d].count /\ courier'[d].holds = courier[d].holds
  BY <1>2
<1>6. OneClaim' BY <1>1, <1>3, <1>5 DEF OneClaim
<1>7. Attempted' BY <1>1, <1>3 DEF Attempted
<1>8. ClaimedBefore'
  <2>1. \A d \in Courier : courier'[d].answer = "permanent" => tally'.final BY <1>1, <1>2 DEF ClaimedBefore
  <2>2. QED BY <1>1, <2>1 DEF ClaimedBefore
<1>9. AnswerStages'
  <2>1. \A d \in Courier : courier'[d].pc = "send" => courier'[d].answer = "thrown"
    BY <1>1, <1>2 DEF AnswerStages
  <2>2. QED BY <2>1 DEF AnswerStages
<1>10. Budgeted'
  <2>1. Stalled' = Stalled BY <1>5 DEF Stalled
  <2>2. \A d \in Stalled : courier'[d].count = courier[d].count BY <1>5 DEF Stalled
  <2>3. Undecided' = Undecided /\ Undecided \in Int BY DEF Undecided
  <2>4. Granted' = Granted \/ Granted' = Granted + 1
    <3>1. retries' = retries /\ hitches \in Int /\ retries \in Int BY <1>1
    <3>2. CASE hitches' = hitches BY <2>3, <3>1, <3>2 DEF Granted
    <3>3. CASE hitches' = hitches + 1 BY <2>3, <3>1, <3>3 DEF Granted
    <3>4. QED BY <3>2, <3>3
  <2>5. Spent' = Spent /\ Spent \in Int BY <1>1 DEF Spent, Capped
  <2>6. QED BY <1>1, <1>4, <2>1, <2>2, <2>4, <2>5, BudgetKeeps
<1>11. QED BY <1>4, <1>6, <1>7, <1>8, <1>9, <1>10 DEF CourierInv

\* The provider is asked.
LEMMA SendInvN ==
  ASSUME CourierInv, NEW c \in Courier, Send(c)
  PROVE  CourierInv'
<1>1. /\ CourierTypeOK /\ courier \in [Courier -> FlushRecord] /\ tally \in TallyRecord
      /\ hitches \in 0..MaxHitches /\ hitches \in Nat /\ tally.taken \in Nat
      /\ OneClaim /\ TakenKnown /\ AnswerStages
  BY CourierNow
<1>2. UNCHANGED <<message, hitches, retries>> /\ courier[c].pc = "send" BY DEF Send, Busy
<1>3. PICK answer \in SendAnswer, took \in BOOLEAN :
        /\ took => answer \in {"success", "temporary", "thrown"}
        /\ answer = "success" => took
        /\ courier' = [courier EXCEPT ![c].answer = answer,
                                      ![c].pc = IF answer = "thrown" THEN "write" ELSE "record"]
        /\ tally' = [tally EXCEPT !.taken = IF took THEN @ + 1 ELSE @,
                                  !.ambiguous = @ \/ (took /\ answer # "success"),
                                  !.final = @ \/ answer = "permanent"]
  BY DEF Send
<1> DEFINE pc == IF answer = "thrown" THEN "write" ELSE "record"
           f == [courier[c] EXCEPT !.answer = answer, !.pc = pc]
<1>4. courier[c] \in FlushRecord BY <1>1
<1>5. /\ f \in FlushRecord /\ f.pc = pc /\ f.answer = answer /\ f.count = courier[c].count
      /\ f.holds = courier[c].holds
  BY <1>4 DEF FlushRecord
<1>6. courier' = [courier EXCEPT ![c] = f] BY <1>1, <1>3
<1>7. pc # "idle" /\ pc # "send" OBVIOUS
<1> HIDE DEF f, pc
<1>8. /\ tally' \in TallyRecord /\ tally'.claims = tally.claims /\ tally'.late = tally.late
      /\ tally'.taken = IF took THEN tally.taken + 1 ELSE tally.taken
      /\ tally'.final = (tally.final \/ answer = "permanent")
      /\ tally'.ambiguous = (tally.ambiguous \/ (took /\ answer # "success"))
  <2> DEFINE taken == IF took THEN tally.taken + 1 ELSE tally.taken
             ambiguous == tally.ambiguous \/ (took /\ answer # "success")
             final == tally.final \/ answer = "permanent"
  <2>1. taken \in Nat /\ ambiguous \in BOOLEAN /\ final \in BOOLEAN BY <1>1
  <2>2. tally' = [tally EXCEPT !.taken = taken, !.ambiguous = ambiguous, !.final = final] BY <1>3
  <2> HIDE DEF taken, ambiguous, final
  <2>3. /\ tally' \in TallyRecord /\ tally'.claims = tally.claims /\ tally'.late = tally.late
        /\ tally'.taken = taken /\ tally'.final = final /\ tally'.ambiguous = ambiguous
    BY <1>1, <2>1, <2>2 DEF TallyRecord
  <2>4. QED BY <2>3 DEF taken, ambiguous, final
<1>9. courier' \in [Courier -> FlushRecord] /\ courier'[c] = f /\ \A d \in Courier \ {c} : courier'[d] = courier[d]
  BY <1>1, <1>5, <1>6, FlushMoves
<1>10. TakenKnown'
  <2>1. SUFFICES ASSUME hitches = 0, ~tally'.ambiguous
                 PROVE  /\ tally'.taken <= 1
                        /\ tally'.taken = 1 => \/ message.status = "sent"
                                               \/ \E d \in Courier : courier'[d].holds /\ courier'[d].answer = "success"
    BY <1>2 DEF TakenKnown
  <2>2. courier[c].holds /\ message.status = "processing" BY <1>1, <1>2, <2>1 DEF OneClaim
  <2>3. tally.taken # 1 /\ tally.taken <= 1
    <3>1. ~tally.ambiguous BY <1>8, <2>1
    <3>2. \A d \in Courier : courier[d].holds => courier[d].answer = "thrown"
      BY <1>1, <1>2, <2>2 DEF OneClaim, AnswerStages
    <3>3. QED BY <1>1, <2>1, <2>2, <3>1, <3>2 DEF TakenKnown
  <2>4. CASE took
    <3>1. answer = "success" BY <1>8, <2>1, <2>4
    <3>2. courier'[c].holds /\ courier'[c].answer = "success" BY <1>5, <1>9, <2>2, <3>1
    <3>3. QED BY <1>1, <1>8, <2>3, <2>4, <3>2
  <2>5. CASE ~took BY <1>8, <2>3, <2>5
  <2>6. QED BY <2>4, <2>5
<1>11. hitches' \in {hitches, hitches + 1} /\ hitches' <= MaxHitches BY <1>1, <1>2, CourierAssumption
<1>12. QED BY <1>2, <1>5, <1>6, <1>7, <1>8, <1>10, <1>11, GoOnInv

\* A courier stops without having written: what it may have owed is lost.
LEMMA StopInv ==
  ASSUME CourierInv, NEW c \in Courier, courier' = [courier EXCEPT ![c] = NoFlush], courier[c].pc # "idle",
         UNCHANGED <<message, retries, tally>>, hitches' = hitches + 1, hitches' <= MaxHitches
  PROVE  CourierInv'
<1>1. /\ CourierTypeOK
      /\ message \in MessageRecord /\ courier \in [Courier -> FlushRecord] /\ tally \in TallyRecord
      /\ hitches \in 0..MaxHitches /\ retries \in 0..MaxRetries
      /\ MaxSends \in Nat /\ MaxSends > 0 /\ hitches \in Nat /\ retries \in Nat
      /\ message.attempts \in Nat /\ tally.claims \in Nat
      /\ OneClaim /\ Attempted /\ ClaimedBefore /\ TakenKnown /\ AnswerStages /\ Budgeted
  BY CourierNow
<1>2. /\ courier' \in [Courier -> FlushRecord] /\ courier'[c] = NoFlush
      /\ \A d \in Courier \ {c} : courier'[d] = courier[d]
  BY <1>1, FlushMoves, IdleFlush
<1>3. hitches' \in 0..MaxHitches /\ hitches' # 0 BY <1>1, CourierAssumption
<1>4. CourierTypeOK' BY <1>1, <1>2, <1>3, CourierTypesNext
<1>5. courier'[c].holds = FALSE /\ courier'[c].pc = "idle" /\ courier'[c].answer = "thrown"
  BY <1>2, IdleFlush
<1>6. OneClaim'
  <2>1. \A d, e \in Courier : courier'[d].holds /\ courier'[e].holds => d = e
    BY <1>1, <1>2, <1>5 DEF OneClaim
  <2>2. \A d \in Courier :
          /\ courier'[d].pc # "idle" /\ ~tally'.final => courier'[d].count < tally'.claims
          /\ courier'[d].holds => /\ courier'[d].pc # "idle" /\ message'.status = "processing"
                                  /\ courier'[d].count = message'.attempts
    BY <1>1, <1>2, <1>5 DEF OneClaim
  <2>3. QED BY <1>3, <2>1, <2>2 DEF OneClaim
<1>7. Attempted' BY <1>1, <1>3 DEF Attempted
<1>8. ClaimedBefore'
  <2>1. \A d \in Courier : courier'[d].answer = "permanent" => tally'.final BY <1>1, <1>2, <1>5 DEF ClaimedBefore
  <2>2. QED BY <1>1, <2>1 DEF ClaimedBefore
<1>9. TakenKnown' BY <1>3 DEF TakenKnown
<1>10. AnswerStages'
  <2>1. \A d \in Courier : courier'[d].pc = "send" => courier'[d].answer = "thrown"
    BY <1>1, <1>2, <1>5 DEF AnswerStages
  <2>2. QED BY <2>1 DEF AnswerStages
<1>11. Budgeted'
  <2>1. Undecided' = Undecided /\ Undecided \in Int BY DEF Undecided
  <2>2. Granted' = Granted + 1 BY <1>1, <2>1 DEF Granted
  <2>3. Spent' = Spent /\ Spent \in Int BY <1>1 DEF Spent, Capped
  <2>4. \A d \in Courier : d \in Stalled' <=> d \in Stalled \ {c}
    BY <1>2, <1>5 DEF Stalled
  <2>5. Stalled' \subseteq Courier /\ Stalled \subseteq Courier BY DEF Stalled
  <2>6. Stalled' = Stalled \ {c} BY <2>4, <2>5
  <2>7. \A d \in Stalled \ {c} : courier'[d].count = courier[d].count BY <1>2, <2>5
  <2>8. CASE c \in Stalled
    <3>1. Capped(courier[c].count) \in 0..(MaxSends - 1) BY <1>1, BudgetNumbers
    <3>2. Capped(courier[c].count) + 1 <= MaxSends /\ Capped(courier[c].count) \in Int BY <1>1, <3>1
    <3>3. tally'.claims + Spent + Capped(courier[c].count) + 1 <= tally.claims + Spent' + MaxSends + MaxSends
      BY <1>1, <2>3, <3>2
    <3>4. QED BY <1>1, <1>4, <2>2, <2>6, <2>7, <2>8, <3>3, BudgetDrops
  <2>9. CASE c \notin Stalled
    <3>1. Stalled' = Stalled BY <2>6, <2>9
    <3>2. tally'.claims + Spent <= tally.claims + Spent' + MaxSends BY <1>1, <2>3
    <3>3. QED BY <1>1, <1>4, <2>2, <2>7, <2>9, <3>1, <3>2, BudgetKeeps
  <2>10. QED BY <2>8, <2>9
<1>12. QED BY <1>4, <1>6, <1>7, <1>8, <1>9, <1>10, <1>11 DEF CourierInv

\* The attempt is recorded, a write fails, or a courier dies.
LEMMA TroubleInv ==
  ASSUME CourierInv, NEW c \in Courier, RecordAttempt(c) \/ WriteFails(c) \/ CourierDies(c)
  PROVE  CourierInv'
<1>1. /\ CourierTypeOK /\ courier \in [Courier -> FlushRecord] /\ tally \in TallyRecord
      /\ hitches \in 0..MaxHitches /\ hitches \in Nat /\ MaxHitches \in Nat
      /\ TakenKnown /\ ClaimedBefore
  BY CourierNow, CourierNumbers
<1>2. UNCHANGED <<message, retries, tally>> BY DEF RecordAttempt, WriteFails, CourierDies
<1>3. courier[c] \in FlushRecord BY <1>1
<1>4. CASE RecordAttempt(c)
  <2>1. courier[c].pc = "record" BY <1>4 DEF RecordAttempt, Busy
  <2>2. PICK f \in FlushRecord :
          /\ courier' = [courier EXCEPT ![c] = f] /\ f.pc = "write" /\ f.count = courier[c].count
          /\ f.holds = courier[c].holds
          /\ \/ f.answer = courier[c].answer /\ hitches' = hitches
             \/ f.answer = "thrown" /\ hitches < MaxHitches /\ hitches' = hitches + 1
    <3>1. CASE courier' = [courier EXCEPT ![c].pc = "write"] /\ UNCHANGED hitches
      <4> DEFINE f == [courier[c] EXCEPT !.pc = "write"]
      <4>1. f \in FlushRecord /\ f.pc = "write" /\ f.count = courier[c].count /\ f.holds = courier[c].holds
            /\ f.answer = courier[c].answer
        BY <1>3 DEF FlushRecord
      <4>2. courier' = [courier EXCEPT ![c] = f] BY <1>1, <3>1
      <4> HIDE DEF f
      <4>3. QED BY <3>1, <4>1, <4>2
    <3>2. CASE courier' = [courier EXCEPT ![c].pc = "write", ![c].answer = "thrown"] /\ Hitch
      <4> DEFINE f == [courier[c] EXCEPT !.pc = "write", !.answer = "thrown"]
      <4>1. f \in FlushRecord /\ f.pc = "write" /\ f.count = courier[c].count /\ f.holds = courier[c].holds
            /\ f.answer = "thrown"
        BY <1>3 DEF FlushRecord, SendAnswer
      <4>2. courier' = [courier EXCEPT ![c] = f] BY <1>1, <3>2
      <4> HIDE DEF f
      <4>3. QED BY <3>2, <4>1, <4>2 DEF Hitch
    <3>3. QED BY <1>4, <3>1, <3>2 DEF RecordAttempt
  <2>3. courier'[c] = f /\ \A d \in Courier \ {c} : courier'[d] = courier[d] BY <1>1, <2>2, FlushMoves
  <2>4. hitches' \in {hitches, hitches + 1} /\ hitches' <= MaxHitches BY <1>1, <2>2
  <2>5. f.answer = "permanent" => tally'.final BY <1>1, <1>2, <2>2 DEF ClaimedBefore
  <2>6. TakenKnown'
    <3>1. SUFFICES ASSUME hitches' = 0 PROVE TakenKnown' BY DEF TakenKnown
    <3>2. hitches = 0 /\ f.answer = courier[c].answer BY <1>1, <2>2, <3>1
    <3>3. \A d \in Courier : courier'[d].holds = courier[d].holds /\ courier'[d].answer = courier[d].answer
      BY <2>2, <2>3, <3>2
    <3>4. QED BY <1>1, <1>2, <3>2, <3>3 DEF TakenKnown
  <2>7. QED BY <1>1, <1>2, <2>1, <2>2, <2>4, <2>5, <2>6, GoOnInv
<1>5. ASSUME WriteFails(c) \/ CourierDies(c) PROVE CourierInv'
  <2>1. hitches' = hitches + 1 /\ hitches' <= MaxHitches /\ courier[c].pc # "idle"
    BY <1>1, <1>5 DEF WriteFails, CourierDies, Hitch, Busy
  <2>2. CASE courier' = [courier EXCEPT ![c] = NoFlush] BY <1>2, <2>1, <2>2, StopInv
  <2>3. CASE courier' = [courier EXCEPT ![c] = [@ EXCEPT !.answer = "thrown"]] /\ courier[c].pc = "write"
    <3> DEFINE f == [courier[c] EXCEPT !.answer = "thrown"]
    <3>1. f \in FlushRecord /\ f.pc = "write" /\ f.count = courier[c].count /\ f.holds = courier[c].holds
          /\ f.answer = "thrown"
      BY <1>3, <2>3 DEF FlushRecord, SendAnswer
    <3>2. courier' = [courier EXCEPT ![c] = f] BY <1>1, <2>3
    <3> HIDE DEF f
    <3>3. TakenKnown' BY <1>1, <2>1 DEF TakenKnown
    <3>4. QED BY <1>1, <1>2, <2>1, <3>1, <3>2, <3>3, GoOnInv
  <2>4. QED BY <1>5, <2>2, <2>3 DEF WriteFails, CourierDies, Busy
<1>6. QED BY <1>4, <1>5

\* The maintenance takes a claim for stranded: who made it owes what he counted.
LEMMA ReclaimInv ==
  ASSUME CourierInv, ReclaimStranded
  PROVE  CourierInv'
<1>1. /\ CourierTypeOK
      /\ message \in MessageRecord /\ courier \in [Courier -> FlushRecord] /\ tally \in TallyRecord
      /\ hitches \in 0..MaxHitches /\ retries \in 0..MaxRetries /\ MaxHitches \in Nat
      /\ MaxSends \in Nat /\ MaxSends > 0 /\ hitches \in Nat /\ retries \in Nat
      /\ message.attempts \in Nat /\ tally.claims \in Nat
      /\ OneClaim /\ Attempted /\ ClaimedBefore /\ TakenKnown /\ AnswerStages /\ Budgeted
  BY CourierNow, CourierNumbers
<1> DEFINE n == message.attempts + 1
<1>2. /\ UNCHANGED <<retries, tally>> /\ message' = Counted(n) /\ courier' = Disowned /\ message.status = "processing"
      /\ \/ (\E c \in Courier : courier[c].holds) /\ hitches' = hitches + 1 /\ hitches < MaxHitches
         \/ (\A c \in Courier : ~courier[c].holds) /\ hitches' = hitches
  BY DEF ReclaimStranded, Hitch
<1>3. n \in Nat BY <1>1
<1>4. /\ message' \in MessageRecord /\ message'.attempts = n
      /\ \/ message'.status = "pending" /\ n < MaxSends
         \/ message'.status = "failed" /\ n >= MaxSends
  BY <1>1, <1>2, <1>3, CountedForm
<1>5. /\ courier' \in [Courier -> FlushRecord]
      /\ \A d \in Courier : /\ courier'[d].pc = courier[d].pc /\ courier'[d].count = courier[d].count
                            /\ courier'[d].answer = courier[d].answer /\ courier'[d].holds = FALSE
  BY <1>1, <1>2, DisownedMoves
<1>6. hitches' \in 0..MaxHitches /\ (hitches' = 0 => hitches = 0 /\ \A c \in Courier : ~courier[c].holds)
  BY <1>1, <1>2
<1>7. CourierTypeOK' BY <1>1, <1>2, <1>4, <1>5, <1>6, CourierTypesNext
<1>8. OneClaim'
  <2>1. hitches' = 0 => \A d \in Courier : courier[d].pc = "idle" BY <1>1, <1>6 DEF OneClaim
  <2>2. QED BY <1>1, <1>2, <1>5, <1>6, <2>1 DEF OneClaim
<1>9. Attempted' BY <1>1, <1>2, <1>4, <1>6 DEF Attempted
<1>10. ClaimedBefore'
  <2>1. \A d \in Courier : courier'[d].answer = "permanent" => tally'.final BY <1>1, <1>2, <1>5 DEF ClaimedBefore
  <2>2. QED BY <1>1, <1>2, <1>4, <2>1 DEF ClaimedBefore
<1>11. TakenKnown'
  <2>1. SUFFICES ASSUME hitches' = 0, ~tally.ambiguous PROVE tally.taken <= 1 /\ tally.taken # 1
    BY <1>2 DEF TakenKnown
  <2>2. QED BY <1>1, <1>2, <1>6, <2>1 DEF TakenKnown
<1>12. AnswerStages'
  <2>1. \A d \in Courier : courier'[d].pc = "send" => courier'[d].answer = "thrown"
    BY <1>1, <1>5 DEF AnswerStages
  <2>2. QED BY <2>1 DEF AnswerStages
<1>13. Budgeted'
  <2>1. Undecided = 1 BY <1>2 DEF Undecided
  <2>2. Spent = Capped(message.attempts) + 1 /\ Capped(message.attempts) \in Nat
        /\ Capped(message.attempts) + 1 <= MaxSends
    BY <1>1, <1>2 DEF Spent, Capped
  <2>3. \/ n < MaxSends /\ Spent' = n /\ Spent = n /\ Undecided' = 1
        \/ Spent' = 0 /\ Undecided' = 0
    BY <1>1, <1>4, <2>2 DEF Spent, Capped, Undecided
  <2>4. Stalled \subseteq Courier /\ Stalled' \subseteq Courier BY DEF Stalled
  <2>5. CASE \E c \in Courier : courier[c].holds
    <3>1. PICK c \in Courier : courier[c].holds BY <2>5
    <3>2. hitches' = hitches + 1 BY <1>2, <3>1
    <3>3. courier[c].pc # "idle" /\ courier[c].count = message.attempts BY <1>1, <3>1 DEF OneClaim
    <3>4. \A d \in Courier : d \in Stalled' <=> d \in Stalled \cup {c}
      BY <1>1, <1>5, <3>1, <3>3 DEF OneClaim, Stalled
    <3>5. Stalled' = Stalled \cup {c} BY <2>4, <3>4
    <3>6. c \in Courier \ Stalled BY <3>1 DEF Stalled
    <3>7. \A d \in Stalled' : courier'[d].count = courier[d].count BY <1>5, <2>4
    <3>8. Capped(courier[c].count) = Capped(message.attempts) BY <3>3
    <3>9. \/ Granted' = Granted + 1 /\ Spent' = n
          \/ Granted' = Granted + 2 /\ Spent' = 0
      BY <1>1, <1>2, <2>1, <2>3, <3>2 DEF Granted
    <3> HIDE DEF n
    <3>10. LET kept == tally'.claims + Spent
               more == tally.claims + Spent' + Capped(courier[c].count) + 1
           IN  \/ Granted' = Granted + 1 /\ kept <= more
               \/ Granted' = Granted + 2 /\ kept <= more + MaxSends
      BY <1>1, <1>2, <1>3, <2>2, <3>8, <3>9
    <3>11. QED BY <1>1, <1>7, <3>5, <3>6, <3>7, <3>10, BudgetGrows
  <2>6. CASE \A c \in Courier : ~courier[c].holds
    <3>1. hitches' = hitches BY <1>2, <2>6
    <3>2. \A d \in Courier : d \in Stalled' <=> d \in Stalled BY <1>5, <2>6 DEF Stalled
    <3>3. Stalled' = Stalled BY <2>4, <3>2
    <3>4. \A d \in Stalled : courier'[d].count = courier[d].count BY <1>5, <2>4
    <3>5. \/ Granted' = Granted /\ Spent' = Spent
          \/ Granted' = Granted + 1 /\ Spent' = 0
      BY <1>1, <1>2, <2>1, <2>3, <3>1 DEF Granted
    <3>6. \/ Granted' = Granted /\ tally'.claims + Spent <= tally.claims + Spent'
          \/ Granted' = Granted + 1 /\ tally'.claims + Spent <= tally.claims + Spent' + MaxSends
      BY <1>1, <1>2, <2>2, <3>5
    <3>7. QED BY <1>1, <1>7, <3>3, <3>4, <3>6, BudgetKeeps
  <2>7. QED BY <2>5, <2>6
<1>14. QED BY <1>7, <1>8, <1>9, <1>10, <1>11, <1>12, <1>13 DEF CourierInv

\* A courier writes, in time or late.
LEMMA WriteInvN ==
  ASSUME CourierInv, NEW c \in Courier, Write(c)
  PROVE  CourierInv'
<1>1. /\ CourierTypeOK
      /\ message \in MessageRecord /\ courier \in [Courier -> FlushRecord] /\ tally \in TallyRecord
      /\ hitches \in 0..MaxHitches /\ retries \in 0..MaxRetries
      /\ MaxSends \in Nat /\ MaxSends > 0 /\ hitches \in Nat /\ retries \in Nat
      /\ message.attempts \in Nat /\ tally.claims \in Nat /\ courier[c].count \in Nat
      /\ OneClaim /\ Attempted /\ ClaimedBefore /\ TakenKnown /\ AnswerStages /\ Budgeted
  BY CourierNow
<1>2. /\ UNCHANGED <<hitches, retries>> /\ message' = Outcome(c) /\ courier' = [Disowned EXCEPT ![c] = NoFlush]
      /\ tally' = [tally EXCEPT !.late = @ \/ ~courier[c].holds] /\ courier[c].pc = "write"
  BY DEF Write, Busy
<1>3. /\ courier' \in [Courier -> FlushRecord] /\ courier'[c] = NoFlush
      /\ \A d \in Courier \ {c} : /\ courier'[d].pc = courier[d].pc /\ courier'[d].count = courier[d].count
                                  /\ courier'[d].answer = courier[d].answer /\ courier'[d].holds = FALSE
  BY <1>1, <1>2, TakesOver, IdleFlush
<1>4. /\ tally' \in TallyRecord /\ tally'.claims = tally.claims /\ tally'.taken = tally.taken
      /\ tally'.late = (tally.late \/ ~courier[c].holds) /\ tally'.final = tally.final
      /\ tally'.ambiguous = tally.ambiguous
  <2> DEFINE late == tally.late \/ ~courier[c].holds
  <2>1. late \in BOOLEAN BY <1>1 DEF TallyRecord
  <2>2. tally' = [tally EXCEPT !.late = late] BY <1>2
  <2> HIDE DEF late
  <2>3. /\ tally' \in TallyRecord /\ tally'.claims = tally.claims /\ tally'.taken = tally.taken
        /\ tally'.late = late /\ tally'.final = tally.final /\ tally'.ambiguous = tally.ambiguous
    BY <1>1, <2>1, <2>2 DEF TallyRecord
  <2>4. QED BY <2>3 DEF late
<1>5. /\ message' \in MessageRecord
      /\ \/ courier[c].answer = "success" /\ message'.status = "sent" /\ message'.attempts = message.attempts + 1
         \/ /\ courier[c].answer = "permanent" /\ message'.status = "failed"
            /\ message'.attempts = message.attempts + 1
         \/ /\ courier[c].answer \in {"skipped", "blocked"} /\ message'.status \in {"skipped", "blocked"}
            /\ message'.attempts = message.attempts
         \/ /\ courier[c].answer \in {"temporary", "thrown"} /\ message'.attempts = courier[c].count + 1
            /\ \/ message'.status = "pending" /\ courier[c].count + 1 < MaxSends
               \/ message'.status = "failed" /\ courier[c].count + 1 >= MaxSends
  BY <1>1, <1>2, OutcomeForm
<1>6. courier'[c].holds = FALSE /\ courier'[c].pc = "idle" /\ courier'[c].answer = "thrown"
  BY <1>3, IdleFlush
<1>7. CourierTypeOK' BY <1>1, <1>2, <1>3, <1>4, <1>5, CourierTypesNext
<1>8. \A d \in Courier : courier[d].holds \in BOOLEAN /\ courier'[d].holds = FALSE BY <1>1, <1>3, <1>6 DEF FlushRecord
<1>9. OneClaim'
  <2>1. hitches = 0 => \A d \in Courier : courier[d].pc # "idle" => d = c BY <1>1, <1>2 DEF OneClaim
  <2>2. \A d \in Courier :
          /\ courier'[d].pc # "idle" /\ ~tally'.final => courier'[d].count < tally'.claims
          /\ hitches' = 0 /\ courier'[d].pc # "idle" => courier'[d].holds
    BY <1>1, <1>2, <1>3, <1>4, <1>6, <2>1 DEF OneClaim
  <2>3. QED BY <1>8, <2>2 DEF OneClaim
<1>10. Attempted'
  <2>1. hitches' = 0 => ~tally'.late BY <1>1, <1>2, <1>4 DEF Attempted, OneClaim
  <2>2. SUFFICES ASSUME ~tally'.late
                 PROVE  /\ message'.status = "absent" => tally'.claims = 0 /\ message'.attempts = 0
                        /\ message'.status = "pending" =>
                             tally'.claims <= message'.attempts /\ message'.attempts < MaxSends + retries'
                        /\ message'.status = "processing" =>
                             tally'.claims <= message'.attempts + 1 /\ message'.attempts < MaxSends + retries'
                        /\ message'.status = "failed" =>
                             tally'.claims <= message'.attempts /\ message'.attempts <= MaxSends + retries'
                        /\ message'.status \notin {"absent", "pending", "processing"} =>
                             tally'.claims <= MaxSends + retries'
    BY <2>1 DEF Attempted
  <2>3. courier[c].holds /\ ~tally.late BY <1>4, <1>8, <2>2
  <2>4. message.status = "processing" /\ courier[c].count = message.attempts BY <1>1, <2>3 DEF OneClaim
  <2>5. tally.claims <= message.attempts + 1 /\ message.attempts < MaxSends + retries
    BY <1>1, <2>3, <2>4 DEF Attempted
  <2>6. QED BY <1>1, <1>2, <1>4, <1>5, <2>4, <2>5
<1>11. ClaimedBefore'
  <2>1. \A d \in Courier : courier'[d].answer = "permanent" => tally'.final
    BY <1>1, <1>3, <1>4, <1>6 DEF ClaimedBefore
  <2>2. ~tally.final => courier[c].count + 1 <= tally.claims BY <1>1, <1>2 DEF OneClaim
  <2>3. courier[c].answer = "permanent" => tally.final BY <1>1 DEF ClaimedBefore
  <2>4. QED BY <1>1, <1>4, <1>5, <2>1, <2>2, <2>3 DEF ClaimedBefore
<1>12. TakenKnown'
  <2>1. SUFFICES ASSUME hitches = 0, ~tally.ambiguous
                 PROVE  tally.taken <= 1 /\ (tally.taken = 1 => message'.status = "sent")
    BY <1>2, <1>4 DEF TakenKnown
  <2>2. courier[c].holds BY <1>1, <1>2, <2>1 DEF OneClaim
  <2>3. message.status = "processing" /\ \A d \in Courier : courier[d].holds => d = c BY <1>1, <2>2 DEF OneClaim
  <2>4. tally.taken = 1 => courier[c].answer = "success" BY <1>1, <2>1, <2>3 DEF TakenKnown
  <2>5. QED BY <1>1, <1>5, <2>1, <2>4 DEF TakenKnown
<1>13. AnswerStages'
  <2>1. \A d \in Courier : courier'[d].pc = "send" => courier'[d].answer = "thrown"
    BY <1>1, <1>3, <1>6 DEF AnswerStages
  <2>2. QED BY <2>1 DEF AnswerStages
<1>14. Budgeted'
  <2> DEFINE k == Capped(courier[c].count)
  <2>1. k \in Nat /\ k + 1 <= MaxSends BY <1>1 DEF Capped
  <2>2. \/ Undecided' = 1 /\ Spent' = k + 1 /\ k = courier[c].count /\ k + 1 < MaxSends
        \/ Undecided' = 0 /\ Spent' = 0
    BY <1>1, <1>5 DEF Undecided, Spent, Capped
  <2>3. Spent \in Nat /\ Spent <= MaxSends /\ Undecided \in {0, 1} /\ (Undecided = 0 => Spent = 0)
    BY <1>1 DEF Spent, Capped, Undecided
  <2>4. Stalled \subseteq Courier /\ Stalled' \subseteq Courier BY DEF Stalled
  <2>5. \A d \in Stalled' : d \in Courier \ {c} /\ courier'[d].count = courier[d].count
    BY <1>3, <1>6, <2>4 DEF Stalled
  <2>6. \A d \in Courier \ {c} : d \in Stalled' <=> d \in Stalled \/ courier[d].holds
    BY <1>1, <1>3, <1>8 DEF Stalled, OneClaim
  <2>7. Granted' = Granted + Undecided - Undecided' /\ Granted \in Int
    BY <1>1, <1>2, <2>2, <2>3 DEF Granted
  <2>8. CASE courier[c].holds
    <3>1. c \notin Stalled /\ message.status = "processing" /\ courier[c].count = message.attempts
          /\ \A d \in Courier \ {c} : ~courier[d].holds
      BY <1>1, <2>8 DEF OneClaim, Stalled
    <3>2. Stalled' = Stalled BY <2>4, <2>5, <2>6, <3>1
    <3>3. Spent = k + 1 /\ Undecided = 1 BY <3>1 DEF Spent, Undecided
    <3> HIDE DEF k
    <3>4. \/ Granted' = Granted /\ tally'.claims + Spent <= tally.claims + Spent'
          \/ Granted' = Granted + 1 /\ tally'.claims + Spent <= tally.claims + Spent' + MaxSends
      BY <1>1, <1>4, <2>1, <2>2, <2>7, <3>3
    <3>5. \A d \in Stalled : courier'[d].count = courier[d].count BY <2>5, <3>2
    <3>6. QED BY <1>1, <1>7, <3>2, <3>4, <3>5, BudgetKeeps
  <2>9. CASE ~courier[c].holds /\ \E e \in Courier : courier[e].holds
    <3>1. PICK e \in Courier : courier[e].holds BY <2>9
    <3>2. /\ message.status = "processing" /\ courier[e].count = message.attempts /\ courier[e].pc # "idle" /\ e # c
          /\ \A d \in Courier : courier[d].holds => d = e
      BY <1>1, <2>9, <3>1 DEF OneClaim
    <3>3. c \in Stalled /\ e \in Courier \ Stalled BY <1>2, <2>9, <3>1 DEF Stalled
    <3>4. \A d \in Courier : d \in Stalled' <=> d \in (Stalled \ {c}) \cup {e} BY <2>5, <2>6, <3>1, <3>2
    <3>5. Stalled' = (Stalled \ {c}) \cup {e} BY <2>4, <3>4
    <3> DEFINE l == Capped(courier[e].count)
    <3>6. Spent = l + 1 /\ Undecided = 1 /\ l \in Nat BY <1>1, <3>2 DEF Spent, Undecided, Capped
    <3> HIDE DEF k, l
    <3>7. \/ Granted' = Granted /\ tally'.claims + Spent + k <= tally.claims + Spent' + l
          \/ Granted' = Granted + 1 /\ tally'.claims + Spent + k <= tally.claims + Spent' + l + MaxSends
      BY <1>1, <1>4, <2>1, <2>2, <2>7, <3>6
    <3>8. \A d \in Stalled' : courier'[d].count = courier[d].count BY <2>5
    <3>9. QED BY <1>1, <1>7, <3>3, <3>5, <3>7, <3>8, BudgetSwaps DEF k, l
  <2>10. CASE \A d \in Courier : ~courier[d].holds
    <3>1. c \in Stalled BY <1>2, <2>10 DEF Stalled
    <3>2. Stalled' = Stalled \ {c} BY <2>4, <2>5, <2>6, <2>10
    <3> HIDE DEF k
    <3>3. \/ Granted' = Granted - 1 /\ tally'.claims + Spent + k + 1 <= tally.claims + Spent'
          \/ Granted' = Granted /\ tally'.claims + Spent + k + 1 <= tally.claims + Spent' + MaxSends
          \/ Granted' = Granted + 1 /\ tally'.claims + Spent + k + 1 <= tally.claims + Spent' + MaxSends + MaxSends
      BY <1>1, <1>4, <2>1, <2>2, <2>3, <2>7
    <3>4. \A d \in Stalled \ {c} : courier'[d].count = courier[d].count BY <2>5, <3>2
    <3>5. QED BY <1>1, <1>7, <3>1, <3>2, <3>3, <3>4, BudgetDrops DEF k
  <2>11. QED BY <2>8, <2>9, <2>10
<1>15. QED BY <1>7, <1>9, <1>10, <1>11, <1>12, <1>13, <1>14 DEF CourierInv

\* No message and no courier at work.
LEMMA CourierStart == CourierInit => CourierInv
<1>1. SUFFICES ASSUME CourierInit PROVE CourierInv OBVIOUS
<1>2. /\ message = [status |-> "absent", attempts |-> 0] /\ courier = [c \in Courier |-> NoFlush]
      /\ hitches = 0 /\ retries = 0
      /\ tally = [claims |-> 0, taken |-> 0, late |-> FALSE, final |-> FALSE, ambiguous |-> FALSE]
  BY <1>1 DEF CourierInit
<1>3. MaxSends \in Nat /\ MaxSends > 0 /\ MaxHitches \in Nat /\ MaxRetries \in Nat BY CourierAssumption
<1>4. CourierTypeOK BY <1>2, <1>3, IdleFlush, CourierTypesNamed DEF MessageRecord, TallyRecord
<1>5. \A c \in Courier : courier[c].holds = FALSE /\ courier[c].pc = "idle" /\ courier[c].answer = "thrown"
  BY <1>2, IdleFlush
<1>6. OneClaim BY <1>2, <1>5 DEF OneClaim
<1>7. Attempted /\ ClaimedBefore BY <1>2, <1>5 DEF Attempted, ClaimedBefore
<1>8. TakenKnown /\ AnswerStages BY <1>2, <1>5 DEF TakenKnown, AnswerStages
<1>9. Budgeted
  <2>1. Stalled = {} BY <1>5 DEF Stalled
  <2>2. IsFiniteSet(Stalled) /\ Cardinality(Stalled) = 0 BY <2>1, FS_EmptySet
  <2>3. Granted = 0 /\ UsedUp = 0 BY <1>2, <2>2 DEF Granted, UsedUp, Undecided
  <2>4. Spent = 0 BY <1>2 DEF Spent
  <2>5. Cardinality(Owed(Stalled, Counts)) \in Nat BY <2>2, OwedBound
  <2>6. MaxSends * UsedUp = 0 BY <1>3, <2>3
  <2>7. tally.claims = 0 BY <1>2
  <2>8. QED BY <2>2, <2>3, <2>4, <2>5, <2>6, <2>7 DEF Budgeted
<1>10. QED BY <1>4, <1>6, <1>7, <1>8, <1>9 DEF CourierInv

\* Every step of the couriers.
LEMMA CourierStep == CourierInv /\ [CourierNext]_courierVars => CourierInv'
<1>1. SUFFICES ASSUME CourierInv, [CourierNext]_courierVars PROVE CourierInv' OBVIOUS
<1>2. CASE EnqueueNotification \/ RetryNotification BY <1>1, <1>2, EnqueueInv
<1>3. CASE ReclaimStranded BY <1>1, <1>3, ReclaimInv
<1>4. ASSUME NEW c \in Courier,
             ClaimMessage(c) \/ Send(c) \/ RecordAttempt(c) \/ Write(c) \/ WriteFails(c) \/ CourierDies(c)
      PROVE  CourierInv'
  BY <1>1, <1>4, ClaimInv, SendInvN, TroubleInv, WriteInvN
<1>5. CASE UNCHANGED courierVars
  <2>1. UNCHANGED <<message, courier, hitches, retries, tally>> BY <1>5 DEF courierVars
  <2>2. UNCHANGED <<CourierTypeOK, OneClaim, Attempted, ClaimedBefore, TakenKnown, AnswerStages>>
    BY <2>1 DEF CourierTypeOK, OneClaim, Attempted, ClaimedBefore, TakenKnown, AnswerStages
  <2>3. UNCHANGED Budgeted
    BY <2>1 DEF Budgeted, UsedUp, Granted, Undecided, Spent, Owed, Counts, Stalled
  <2>4. QED BY <1>1, <2>2, <2>3 DEF CourierInv
<1>6. QED BY <1>1, <1>2, <1>3, <1>4, <1>5 DEF CourierNext

\* In every reachable state the message, the couriers and the counters have their types.
THEOREM MessageTypes == CourierSpec => []CourierTypeOK
<1>1. CourierInv => CourierTypeOK BY DEF CourierInv
<1>2. QED BY <1>1, CourierStart, CourierStep, PTL DEF CourierSpec

\* However many couriers die, stall or write late: a message is attempted within
\* its budget and once more for each retry, and when a courier that was taken for
\* dead has written, within a budget for each disturbance and each retry; it is
\* given up for want of attempts when they were made; and its recipient gets it
\* twice only if an answer was lost or a courier was disturbed.
THEOREM MessageBudget == CourierSpec => []WithinBudget
<1>1. CourierInv => WithinBudget
  <2>1. SUFFICES ASSUME CourierInv PROVE WithinBudget OBVIOUS
  <2>2. /\ CourierTypeOK
        /\ message \in MessageRecord /\ MaxSends \in Nat /\ MaxSends > 0 /\ hitches \in Nat /\ retries \in Nat
        /\ message.attempts \in Nat /\ tally.claims \in Nat /\ tally.taken \in Nat
        /\ Attempted /\ ClaimedBefore /\ TakenKnown /\ Budgeted
    BY <2>1, CourierNow
  <2>3. BudgetKept
    <3>1. SUFFICES ASSUME ~tally.late PROVE tally.claims <= MaxSends + retries BY DEF BudgetKept
    <3>2. QED BY <2>2, <3>1 DEF Attempted
  <2>4. GivenUpSpent BY <2>2 DEF GivenUpSpent, ClaimedBefore
  <2>5. TakenOnce
    <3>1. hitches > 0 \/ hitches = 0 BY <2>2
    <3>2. QED BY <2>2, <3>1 DEF TakenOnce, TakenKnown
  <2>6. BudgetDisturbed
    <3> DEFINE S == Cardinality(Stalled)
               O == Cardinality(Owed(Stalled, Counts))
    <3>1. IsFiniteSet(Stalled) /\ UsedUp >= 0 /\ tally.claims <= Spent + O + MaxSends * UsedUp
      BY <2>2 DEF Budgeted
    <3>2. O <= MaxSends * S /\ O \in Nat /\ S \in Nat BY <3>1, OwedBound
    <3>3. Spent \in 0..MaxSends /\ Undecided \in {0, 1} /\ (Undecided = 0 => Spent = 0)
      BY <2>2, BudgetNumbers DEF Spent, Undecided
    <3>4. UsedUp = 1 + hitches + retries - Undecided - S BY <2>2, <3>2, <3>3 DEF UsedUp, Granted
    <3> HIDE DEF S, O
    <3>5. Spent <= MaxSends * Undecided
      <4>1. CASE Undecided = 0 BY <2>2, <3>3, <4>1
      <4>2. CASE Undecided = 1 BY <2>2, <3>3, <4>2
      <4>3. QED BY <3>3, <4>1, <4>2
    <3>6. MaxSends * Undecided + MaxSends * S + MaxSends * UsedUp = MaxSends * (Undecided + S + UsedUp)
      BY <2>2, <3>2, <3>3, <3>4
    <3>7. Undecided + S + UsedUp = 1 + hitches + retries BY <2>2, <3>2, <3>3, <3>4
    <3>8. /\ MaxSends * Undecided \in Int /\ MaxSends * S \in Int /\ MaxSends * UsedUp \in Int /\ Spent \in Int
          /\ MaxSends * (1 + hitches + retries) \in Int
      BY <2>2, <3>2, <3>3, <3>4
    <3>9. tally.claims <= MaxSends * (1 + hitches + retries)
      <4> DEFINE a == MaxSends * Undecided  b == MaxSends * S  d == MaxSends * UsedUp
                 e == MaxSends * (1 + hitches + retries)
      <4>1. a + b + d = e BY <3>6, <3>7
      <4>2. tally.claims <= Spent + O + d /\ O <= b /\ Spent <= a BY <3>1, <3>2, <3>5
      <4>3. a \in Int /\ b \in Int /\ d \in Int /\ e \in Int /\ Spent \in Int BY <3>8
      <4> HIDE DEF a, b, d, e
      <4>4. tally.claims <= e BY <2>2, <3>2, <4>1, <4>2, <4>3
      <4>5. QED BY <4>4 DEF e
    <3>10. QED BY <3>9 DEF BudgetDisturbed
  <2>7. QED BY <2>3, <2>4, <2>5, <2>6 DEF WithinBudget
<1>2. QED BY <1>1, CourierStart, CourierStep, PTL DEF CourierSpec

-----------------------------------------------------------------------------
(* Images: the proof.                                                        *)

RequestRecord == [kind : {"none", "upload", "copy", "remove", "drop"},
                  pc : {"idle", "insert", "commit", "enqueue", "delete"}, shared : BOOLEAN]
RowState == {"none", "listed", "removed"}
CleanupRecord == [status : {"none", "pending", "processing", "completed", "failed"}, tries : 0..MaxTries + MaxSlips]
ClaimRecord == [pc : {"idle", "judge", "delete", "ack", "fail"}, try : 0..MaxTries + MaxSlips]

\* The type of the store, by these names.
LEMMA ImageTypesNamed ==
  ImageTypeOK <=> /\ object \in {"absent", "stored", "gone"} /\ image \in [Deal -> RowState]
                  /\ request \in [Deal -> RequestRecord] /\ cleanup \in CleanupRecord
                  /\ cleaner \in [Cleaner -> ClaimRecord] /\ slips \in 0..MaxSlips
                  /\ crossed \in BOOLEAN /\ torn \subseteq Deal
BY DEF ImageTypeOK, RequestRecord, RowState, CleanupRecord, ClaimRecord

\* ... and after a step.
LEMMA ImageTypesNext ==
  ASSUME object' \in {"absent", "stored", "gone"}, image' \in [Deal -> RowState],
         request' \in [Deal -> RequestRecord], cleanup' \in CleanupRecord,
         cleaner' \in [Cleaner -> ClaimRecord], slips' \in 0..MaxSlips, crossed' \in BOOLEAN, torn' \subseteq Deal
  PROVE  ImageTypeOK'
BY DEF ImageTypeOK, RequestRecord, RowState, CleanupRecord, ClaimRecord

\* What the invariant says of the types.
LEMMA ImageNow ==
  ASSUME ImageInv
  PROVE  /\ ImageTypeOK
         /\ object \in {"absent", "stored", "gone"} /\ image \in [Deal -> RowState]
         /\ request \in [Deal -> RequestRecord] /\ cleanup \in CleanupRecord
         /\ cleaner \in [Cleaner -> ClaimRecord] /\ slips \in 0..MaxSlips /\ slips \in Nat
         /\ crossed \in BOOLEAN /\ torn \subseteq Deal
         /\ MaxTries \in Nat /\ MaxTries > 0 /\ MaxSlips \in Nat
         /\ RequestShapes /\ FirstUpload /\ JudgementsHold /\ ClaimsFenced /\ OneAtATime /\ SomebodyCares
BY ImageTypesNamed, ImageAssumption DEF ImageInv

\* A request moves, and with it the row of its deal.
LEMMA DealMoves ==
  ASSUME ImageTypeOK, NEW d \in Deal, NEW r \in RequestRecord, NEW v \in RowState,
         request' = [request EXCEPT ![d] = r], image' = [image EXCEPT ![d] = v]
  PROVE  /\ request' \in [Deal -> RequestRecord] /\ request'[d] = r
         /\ \A e \in Deal \ {d} : request'[e] = request[e] /\ image'[e] = image[e]
         /\ image' \in [Deal -> RowState] /\ image'[d] = v
<1>1. image \in [Deal -> RowState] /\ request \in [Deal -> RequestRecord] BY ImageTypesNamed
<1>2. QED BY <1>1

\* A task that takes in another request, or a new one.
LEMMA BookedForm ==
  ASSUME ImageTypeOK
  PROVE  /\ Booked \in CleanupRecord
         /\ Live => Booked = cleanup
         /\ ~Live => Booked.status = "pending" /\ Booked.tries = 0
         /\ Booked.status \in {"pending", "processing"}
<1>1. cleanup \in CleanupRecord BY ImageTypesNamed
<1>2. CASE Live BY <1>1, <1>2 DEF Booked, Live
<1>3. CASE ~Live
  <2>1. Booked = [status |-> "pending", tries |-> 0] BY <1>3 DEF Booked
  <2>2. 0 \in 0..MaxTries + MaxSlips BY ImageAssumption
  <2>3. QED BY <1>3, <2>1, <2>2 DEF CleanupRecord
<1>4. QED BY <1>2, <1>3

\* Whoever uploads does so alone.
LEMMA UploadAlone ==
  ASSUME ImageInv, NEW d \in Deal, request[d] # NoRequest \/ Listed # {} \/ object = "absent"
  PROVE  \A e \in Deal \ {d} : request[e].kind # "upload"
<1>1. NoRequest.kind = "none" BY DEF NoRequest
<1>2. QED BY <1>1 DEF ImageInv, FirstUpload, Untouched

\* The request of deal d takes a step of its own.  Nobody else's is touched, a
\* row stops being listed only in a removal, and no deal starts or ends a copy
\* beside a judgement without being marked.
LEMMA DealStepInv ==
  ASSUME ImageInv, NEW d \in Deal, NEW r \in RequestRecord, NEW v \in RowState,
         request' = [request EXCEPT ![d] = r], image' = [image EXCEPT ![d] = v], UNCHANGED cleaner,
         cleanup' \in {cleanup, Booked}, slips' \in {slips, slips + 1}, slips' <= MaxSlips,
         object' \in {"stored", "gone"}, object' = "stored" /\ object # "stored" => object = "absent",
         crossed' \in BOOLEAN, crossed => crossed', torn \subseteq torn', torn' \subseteq Deal,
         RequestShape(d)',
         \A e \in Deal \ {d} : request[e].kind # "upload",
         r.kind = "upload" => Untouched' /\ object' = "stored" /\ \A e \in Deal \ {d} : request[e] = NoRequest,
         image[d] = "listed" /\ v # "listed" => d \in Removing,
         \/ v = "listed" => image[d] = "listed" \/ d \in Copying
         \/ object' # "gone" /\ Cleaning = {} /\ Removing = {} /\ r.kind # "remove" /\ r.kind # "drop",
         \/ r.kind = "copy" => d \in torn' \/ d \in Copying
         \/ object # "gone" /\ (\A w \in Cleaner : cleaner[w].pc # "delete") /\ \A e \in Removing : request[e].shared,
         object' = "gone" /\ object # "gone" => TornOnly({})',
         r.kind \in {"remove", "drop"} /\ ~r.shared => (d \in Removing /\ ~request[d].shared) \/ TornOnly({d})',
         r.kind \in {"remove", "drop"} /\ ~crossed' => d \in Removing \/ (Removing = {} /\ Cleaning = {}),
         r.kind \in {"remove", "drop"} /\ r.shared /\ ~crossed' => Listed \ {d} # {},
         r.kind = "drop" /\ r.pc = "commit" /\ ~r.shared /\ slips' = 0 /\ ~crossed' => Live',
         SomebodyCares'
  PROVE  ImageInv'
<1>1. /\ ImageTypeOK
      /\ object \in {"absent", "stored", "gone"} /\ image \in [Deal -> RowState]
      /\ request \in [Deal -> RequestRecord] /\ cleanup \in CleanupRecord
      /\ cleaner \in [Cleaner -> ClaimRecord] /\ slips \in 0..MaxSlips /\ slips \in Nat
      /\ MaxTries \in Nat /\ MaxTries > 0 /\ MaxSlips \in Nat
      /\ RequestShapes /\ FirstUpload /\ JudgementsHold /\ ClaimsFenced /\ OneAtATime
  BY ImageNow
<1>2. /\ request' \in [Deal -> RequestRecord] /\ request'[d] = r
      /\ \A e \in Deal \ {d} : request'[e] = request[e] /\ image'[e] = image[e]
      /\ image' \in [Deal -> RowState] /\ image'[d] = v
  BY <1>1, DealMoves
<1>3. /\ cleanup' \in CleanupRecord
      /\ \/ cleanup' = cleanup
         \/ ~Live /\ cleanup'.status = "pending" /\ cleanup'.tries = 0
  BY <1>1, BookedForm
<1>4. slips' \in 0..MaxSlips /\ slips' >= slips /\ (slips' = 0 => slips = 0) BY <1>1
<1>5. ImageTypeOK' BY <1>1, <1>2, <1>3, <1>4, ImageTypesNext
<1>6. RequestShapes'
  <2>1. ASSUME NEW e \in Deal \ {d} PROVE RequestShape(e)'
    BY <1>1, <1>2, <2>1 DEF RequestShapes, RequestShape
  <2>2. QED BY <2>1 DEF RequestShapes
<1>7. FirstUpload'
  <2>1. ASSUME NEW e \in Deal, request'[e].kind = "upload" PROVE e = d BY <1>2, <2>1
  <2>2. QED BY <1>2, <2>1 DEF FirstUpload
<1>8. /\ \A e \in Deal \ {d} : (e \in Listed' <=> e \in Listed) /\ (e \in Removing' <=> e \in Removing)
                               /\ (e \in Copying' <=> e \in Copying)
      /\ d \in Listed' <=> v = "listed"
      /\ d \in Removing' <=> r.kind \in {"remove", "drop"}
      /\ d \in Copying' <=> r.kind = "copy"
      /\ Listed' \subseteq Deal /\ Removing' \subseteq Deal /\ Copying' \subseteq Deal
      /\ d \in Listed <=> image[d] = "listed"
  BY <1>2 DEF Listed, Removing, Copying
<1>9. Cleaning' = Cleaning /\ Cleaning \subseteq Cleaner BY DEF Cleaning
<1>10. JudgementsHold'
  \* A judgement that held before holds on, and so does its mark.
  <2>1. ASSUME NEW by, TornOnly(by), by \subseteq Deal,
               \/ object = "gone" /\ object' = "gone"
               \/ \E w \in Cleaner : cleaner[w].pc = "delete"
               \/ \E e \in Removing : ~request[e].shared
        PROVE  TornOnly(by)'
    <3>1. ASSUME NEW e \in Copying' PROVE e \in torn'
      <4>1. CASE e # d BY <1>8, <2>1, <3>1, <4>1 DEF TornOnly
      <4>2. CASE e = d
        <5>1. r.kind = "copy" BY <1>8, <3>1, <4>2
        <5>2. CASE d \in torn' \/ d \in Copying BY <2>1, <4>2, <5>2 DEF TornOnly
        <5>3. CASE object # "gone" /\ (\A w \in Cleaner : cleaner[w].pc # "delete") /\ \A f \in Removing : request[f].shared
          BY <2>1, <5>3
        <5>4. QED BY <5>1, <5>2, <5>3
      <4>3. QED BY <4>1, <4>2
    <3>2. ASSUME NEW e \in Listed' PROVE e \in torn' \cup by
      <4>1. CASE e # d BY <1>8, <2>1, <3>2, <4>1 DEF TornOnly
      <4>2. CASE e = d
        <5>1. v = "listed" BY <1>8, <3>2, <4>2
        <5>2. CASE image[d] = "listed" \/ d \in Copying BY <1>8, <2>1, <4>2, <5>2 DEF TornOnly
        <5>3. CASE object' # "gone" /\ Cleaning = {} /\ Removing = {} BY <2>1, <5>3 DEF Cleaning
        <5>4. QED BY <5>1, <5>2, <5>3
      <4>3. QED BY <4>1, <4>2
    <3>3. QED BY <3>1, <3>2 DEF TornOnly
  <2>2. object' = "gone" => TornOnly({})'
    <3>1. CASE object = "gone" BY <1>1, <2>1, <3>1 DEF JudgementsHold
    <3>2. CASE object # "gone" BY <3>2
    <3>3. QED BY <3>1, <3>2
  <2>3. ASSUME NEW w \in Cleaner, cleaner'[w].pc = "delete" PROVE TornOnly({})'
    BY <1>1, <2>1, <2>3 DEF JudgementsHold
  <2>4. ASSUME NEW e \in Removing', ~request'[e].shared PROVE TornOnly({e})'
    <3>1. CASE e # d
      <4>1. e \in Deal /\ e \in Removing /\ ~request[e].shared BY <1>2, <1>8, <2>4, <3>1
      <4>2. TornOnly({e}) BY <1>1, <4>1 DEF JudgementsHold
      <4>3. QED BY <2>1, <4>1, <4>2
    <3>2. CASE e = d /\ d \in Removing /\ ~request[d].shared
      <4>1. TornOnly({d}) BY <1>1, <3>2 DEF JudgementsHold
      <4>2. QED BY <2>1, <3>2, <4>1
    <3>3. CASE e = d /\ TornOnly({d})' BY <3>3
    <3>4. QED BY <1>2, <1>8, <2>4, <3>1, <3>2, <3>3
  <2>5. QED BY <2>2, <2>3, <2>4 DEF JudgementsHold
<1>11. ClaimsFenced'
  <2>1. CASE cleanup' = cleanup
    <3>1. \A w \in Cleaner : Holding(w)' <=> Holding(w) BY <2>1 DEF Holding
    <3>2. Live' <=> Live BY <2>1 DEF Live
    <3>3. cleanup.tries \in Int BY <1>1 DEF CleanupRecord
    <3>4. cleanup.status = "processing" =>
            cleanup.tries + (IF \E w \in Cleaner : Holding(w)' THEN 0 ELSE 1) <= MaxTries + slips'
      BY <1>1, <1>4, <3>1, <3>3 DEF ClaimsFenced
    <3>5. QED BY <1>1, <2>1, <3>1, <3>2, <3>4 DEF ClaimsFenced
  <2>2. CASE cleanup'.status = "pending" /\ cleanup'.tries = 0 BY <1>1, <2>2 DEF ClaimsFenced
  <2>3. QED BY <1>3, <2>1, <2>2
<1>12. OneAtATime'
  <2>1. SUFFICES ASSUME ~crossed' PROVE OneAtATime' BY DEF OneAtATime
  <2>2. ~crossed BY <2>1
  <2>3. /\ \A e, f \in Removing : e = f
        /\ \A e \in Removing : request[e].shared => Listed \ {e} # {}
        /\ \A e \in Removing, w \in Cleaner : cleaner[w].pc \in {"idle", "judge"}
        /\ slips = 0 =>
             /\ \A e \in Deal : request[e].kind = "drop" /\ request[e].pc = "commit" /\ ~request[e].shared => Live
             /\ \A w \in Cleaner : cleaner[w].pc = "ack" /\ object = "stored" => Listed # {}
    BY <1>1, <2>2 DEF OneAtATime
  <2>4. d \in Removing' => d \in Removing \/ (Removing = {} /\ Cleaning = {}) BY <1>8, <2>1
  <2>5. \A e, f \in Removing' : e = f BY <1>8, <2>3, <2>4
  <2>6. ASSUME NEW e \in Removing', request'[e].shared PROVE Listed' \ {e} # {}
    <3>1. CASE e = d
      <4>1. Listed \ {d} # {} BY <1>2, <1>8, <2>1, <2>6, <3>1
      <4>2. QED BY <1>8, <3>1, <4>1 DEF Listed
    <3>2. CASE e # d
      <4>1. e \in Removing /\ e \in Deal /\ request[e].shared BY <1>2, <1>8, <2>6, <3>2
      <4>2. PICK f \in Listed \ {e} : TRUE BY <2>3, <4>1
      <4>3. f \in Deal BY DEF Listed
      <4>4. f = d => d \in Listed'
        <5>1. d \notin Removing BY <2>3, <3>2, <4>1
        <5>2. QED BY <1>8, <4>2, <5>1
      <4>5. f \in Listed' BY <1>8, <4>2, <4>3, <4>4
      <4>6. QED BY <4>2, <4>5
    <3>3. QED BY <3>1, <3>2
  <2>7. ASSUME NEW e \in Removing', NEW w \in Cleaner PROVE cleaner'[w].pc \in {"idle", "judge"}
    <3>1. CASE e # d BY <1>8, <2>3, <2>7, <3>1
    <3>2. CASE e = d BY <1>8, <2>3, <2>4, <2>7, <3>2 DEF Cleaning
    <3>3. QED BY <3>1, <3>2
  <2>8. ASSUME slips' = 0
        PROVE  /\ \A e \in Deal : request'[e].kind = "drop" /\ request'[e].pc = "commit" /\ ~request'[e].shared => Live'
               /\ \A w \in Cleaner : cleaner'[w].pc = "ack" /\ object' = "stored" => Listed' # {}
    <3>1. Live => Live' BY <1>3 DEF Live
    <3>2. slips = 0 BY <1>4, <2>8
    <3>3. \A e \in Deal : request'[e].kind = "drop" /\ request'[e].pc = "commit" /\ ~request'[e].shared => Live'
      BY <1>2, <2>1, <2>3, <2>8, <3>1, <3>2
    <3>4. ASSUME NEW w \in Cleaner, cleaner'[w].pc = "ack", object' = "stored" PROVE Listed' # {}
      <4>1. object = "stored"
        <5>1. object = "absent" => Cleaning = {} BY <1>1 DEF FirstUpload, Untouched
        <5>2. QED BY <3>4, <5>1 DEF Cleaning
      <4>2. PICK f \in Listed : TRUE BY <2>3, <3>2, <3>4, <4>1
      <4>3. d \notin Removing BY <2>3, <3>4
      <4>4. f \in Listed' BY <1>8, <4>2, <4>3 DEF Listed
      <4>5. QED BY <4>4
    <3>5. QED BY <3>3, <3>4
  <2>9. QED BY <2>5, <2>6, <2>7, <2>8 DEF OneAtATime
<1>13. QED BY <1>5, <1>6, <1>7, <1>10, <1>11, <1>12 DEF ImageInv

\* The deal without a request, and what is there before the upload.
LEMMA NoRequestForm ==
  /\ NoRequest \in RequestRecord /\ NoRequest.kind = "none" /\ NoRequest.pc = "idle"
  /\ \A d \in Deal : request'[d] = NoRequest => RequestShape(d)'
BY DEF NoRequest, RequestRecord, RequestShape

\* The deal d and its surroundings, as the lemmas of its steps need them.
LEMMA DealNow ==
  ASSUME ImageInv, NEW d \in Deal
  PROVE  /\ request[d] \in RequestRecord /\ image[d] \in RowState /\ RequestShape(d)
         /\ [image EXCEPT ![d] = image[d]] = image
         /\ object # "gone" \/ TornOnly({})
         /\ request[d] # NoRequest \/ Listed # {} => object # "absent"
         /\ request[d].kind = "upload" =>
              Untouched /\ object = "stored" /\ Removing = {} /\ Copying = {} /\ \A e \in Deal \ {d} : request[e] = NoRequest
         /\ slips = 0 /\ ~crossed /\ d \in Removing /\ request[d].shared => Listed \ {d} # {}
         /\ slips \in Nat /\ crossed \in BOOLEAN /\ torn \subseteq Deal /\ object \in {"absent", "stored", "gone"}
         /\ d \in Removing <=> request[d].kind \in {"remove", "drop"}
         /\ d \in Copying <=> request[d].kind = "copy"
         /\ d \in Listed <=> image[d] = "listed"
         /\ cleanup \in {cleanup, Booked} /\ Booked \in {cleanup, Booked}
         /\ slips \in {slips, slips + 1} /\ slips <= MaxSlips
<1>1. /\ image \in [Deal -> RowState] /\ request \in [Deal -> RequestRecord] /\ slips \in Nat /\ MaxSlips \in Nat
      /\ slips \in 0..MaxSlips /\ crossed \in BOOLEAN /\ torn \subseteq Deal /\ object \in {"absent", "stored", "gone"}
      /\ RequestShapes /\ FirstUpload /\ JudgementsHold /\ OneAtATime
  BY ImageNow
<1>2. request[d] \in RequestRecord /\ image[d] \in RowState /\ [image EXCEPT ![d] = image[d]] = image BY <1>1
<1>3. RequestShape(d) BY <1>1 DEF RequestShapes
<1>4. object # "gone" \/ TornOnly({}) BY <1>1 DEF JudgementsHold
<1>5. request[d] # NoRequest \/ Listed # {} => object # "absent" BY <1>1 DEF FirstUpload, Untouched
<1>6. request[d].kind = "upload" =>
        Untouched /\ object = "stored" /\ Removing = {} /\ Copying = {} /\ \A e \in Deal \ {d} : request[e] = NoRequest
  <2>1. SUFFICES ASSUME request[d].kind = "upload"
                 PROVE  /\ Untouched /\ object = "stored" /\ Removing = {} /\ Copying = {}
                        /\ \A e \in Deal \ {d} : request[e] = NoRequest
    OBVIOUS
  <2>2. Untouched /\ object = "stored" /\ \A e \in Deal \ {d} : request[e] = NoRequest
    BY <1>1, <2>1 DEF FirstUpload
  <2>3. \A e \in Deal : request[e].kind \in {"none", "upload"} BY <2>1, <2>2, NoRequestForm
  <2>4. QED BY <2>2, <2>3 DEF Removing, Copying
<1>7. slips = 0 /\ ~crossed /\ d \in Removing /\ request[d].shared => Listed \ {d} # {}
  BY <1>1 DEF OneAtATime
<1>8. slips <= MaxSlips BY <1>1
<1>9. QED BY <1>1, <1>2, <1>3, <1>4, <1>5, <1>6, <1>7, <1>8 DEF Removing, Copying, Listed

\* The file is stored, before any row.
LEMMA SaveInv ==
  ASSUME ImageInv, NEW d \in Deal, SaveImage(d)
  PROVE  ImageInv'
<1> DEFINE r == [kind |-> "upload", pc |-> "insert", shared |-> FALSE]
<1>1. /\ object = "absent" /\ image[d] = "none" /\ request[d] = NoRequest /\ object' = "stored"
      /\ request' = [request EXCEPT ![d] = r] /\ UNCHANGED <<image, cleanup, cleaner, slips, crossed, torn>>
  BY DEF SaveImage
<1>2. r \in RequestRecord /\ r.kind = "upload" /\ r.pc = "insert" BY DEF RequestRecord
<1> HIDE DEF r
<1>3. /\ image[d] \in RowState /\ [image EXCEPT ![d] = image[d]] = image /\ slips \in {slips, slips + 1}
      /\ slips <= MaxSlips /\ crossed \in BOOLEAN /\ torn \subseteq Deal /\ ImageTypeOK
  BY DealNow, ImageNow
<1>4. request'[d] = r /\ image'[d] = "none" BY <1>1, <1>2, <1>3, DealMoves
<1>5. RequestShape(d)' BY <1>2, <1>4 DEF RequestShape
<1>6. Untouched /\ (\A e \in Deal : request[e] = NoRequest) BY <1>1 DEF ImageInv, FirstUpload
<1>7. Untouched' BY <1>1, <1>6 DEF Untouched, Listed, Cleaning
<1>8. SomebodyCares' BY <1>2, <1>4 DEF SomebodyCares
<1>9. \A e \in Deal \ {d} : request[e].kind # "upload" BY <1>6, NoRequestForm
<1>10. image' = [image EXCEPT ![d] = "none"] BY <1>1, <1>3
<1>11. "none" \in RowState BY DEF RowState
<1>12. QED BY <1>1, <1>2, <1>3, <1>5, <1>6, <1>7, <1>8, <1>9, <1>10, <1>11, DealStepInv

\* The row of the image.
LEMMA InsertInv ==
  ASSUME ImageInv, NEW d \in Deal, InsertImage(d)
  PROVE  ImageInv'
<1>1. /\ request[d].kind = "upload" /\ image' = [image EXCEPT ![d] = "listed"]
      /\ request' = [request EXCEPT ![d] = NoRequest] /\ UNCHANGED <<object, cleanup, cleaner, slips, crossed, torn>>
  BY DEF InsertImage, During, Done
<1>2. /\ Untouched /\ object = "stored" /\ Removing = {} /\ Copying = {}
      /\ \A e \in Deal \ {d} : request[e] = NoRequest
      /\ slips \in {slips, slips + 1} /\ slips <= MaxSlips /\ crossed \in BOOLEAN /\ torn \subseteq Deal /\ ImageTypeOK
      /\ image[d] # "listed"
  BY <1>1, DealNow, ImageNow DEF RequestShape
<1>3. "listed" \in RowState BY DEF RowState
<1>4. request'[d] = NoRequest /\ image'[d] = "listed" BY <1>1, <1>2, <1>3, DealMoves, NoRequestForm
<1>5. RequestShape(d)' BY <1>4, NoRequestForm
<1>6. SomebodyCares' BY <1>4 DEF SomebodyCares, Listed
<1>7. \A e \in Deal \ {d} : request[e].kind # "upload" BY <1>2, NoRequestForm
<1>8. Cleaning = {} BY <1>2 DEF Untouched
<1>9. QED BY <1>1, <1>2, <1>3, <1>5, <1>6, <1>7, <1>8, NoRequestForm, DealStepInv

\* The copy of the row, and its commit.
LEMMA CopyInv ==
  ASSUME ImageInv, NEW d \in Deal, CopyImage(d) \/ CommitCopy(d)
  PROVE  ImageInv'
<1>1. UNCHANGED <<object, cleanup, cleaner, slips, crossed>> BY DEF CopyImage, CommitCopy
<1>2. /\ image[d] \in RowState /\ [image EXCEPT ![d] = image[d]] = image /\ slips \in {slips, slips + 1}
      /\ slips <= MaxSlips /\ crossed \in BOOLEAN /\ torn \subseteq Deal /\ ImageTypeOK
      /\ object \in {"absent", "stored", "gone"} /\ (request[d] # NoRequest \/ Listed # {} => object # "absent")
      /\ (object # "gone" \/ TornOnly({})) /\ RequestShape(d) /\ (d \in Copying <=> request[d].kind = "copy")
  BY DealNow, ImageNow
<1>3. CASE CopyImage(d)
  <2> DEFINE r == [kind |-> "copy", pc |-> "commit", shared |-> FALSE]
  <2>1. /\ Listed # {} /\ image[d] = "none" /\ request[d] = NoRequest /\ request' = [request EXCEPT ![d] = r]
        /\ image' = image
        /\ torn' = IF Listed \cap torn # {} \/ (\E e \in Removing : ~request[e].shared) THEN torn \cup {d} ELSE torn
    BY <1>3 DEF CopyImage
  <2>2. r \in RequestRecord /\ r.kind = "copy" /\ r.pc = "commit" BY DEF RequestRecord
  <2> HIDE DEF r
  <2>3. request'[d] = r /\ image'[d] = image[d] BY <1>2, <2>1, <2>2, DealMoves
  <2>4. RequestShape(d)' BY <2>1, <2>2, <2>3 DEF RequestShape
  <2>5. torn \subseteq torn' /\ torn' \subseteq Deal BY <1>2, <2>1
  <2>6. \/ d \in torn'
        \/ object # "gone" /\ (\A w \in Cleaner : cleaner[w].pc # "delete") /\ \A e \in Removing : request[e].shared
    <3>1. SUFFICES ASSUME d \notin torn'
                   PROVE  /\ object # "gone" /\ (\A w \in Cleaner : cleaner[w].pc # "delete")
                          /\ \A e \in Removing : request[e].shared
      OBVIOUS
    <3>2. Listed \cap torn = {} /\ \A e \in Removing : request[e].shared BY <2>1, <3>1
    <3>3. ~TornOnly({}) BY <2>1, <3>2 DEF TornOnly
    <3>4. QED BY <1>2, <3>2, <3>3 DEF ImageInv, JudgementsHold
  <2>7. SomebodyCares' BY <2>1 DEF SomebodyCares, Listed
  <2>8. \A e \in Deal \ {d} : request[e].kind # "upload" BY <2>1, UploadAlone
  <2>9. image' = [image EXCEPT ![d] = "none"] /\ "none" \in RowState BY <1>2, <2>1 DEF RowState
  <2>10. object' \in {"stored", "gone"} BY <1>1, <1>2, <2>1
  <2>11. QED BY <1>1, <1>2, <2>1, <2>2, <2>4, <2>5, <2>6, <2>7, <2>8, <2>9, <2>10, DealStepInv
<1>4. CASE CommitCopy(d)
  <2>1. /\ request[d].kind = "copy" /\ image' = [image EXCEPT ![d] = "listed"] /\ torn' = torn
        /\ request' = [request EXCEPT ![d] = NoRequest]
    BY <1>4 DEF CommitCopy, During, Done
  <2>2. request[d] # NoRequest BY <2>1, NoRequestForm
  <2>3. "listed" \in RowState BY DEF RowState
  <2>4. request'[d] = NoRequest /\ image'[d] = "listed" BY <1>2, <2>1, <2>3, DealMoves, NoRequestForm
  <2>5. RequestShape(d)' BY <2>4, NoRequestForm
  <2>6. SomebodyCares' BY <2>4 DEF SomebodyCares, Listed
  <2>7. \A e \in Deal \ {d} : request[e].kind # "upload" BY <2>2, UploadAlone
  <2>8. object' \in {"stored", "gone"} /\ d \in Copying BY <1>1, <1>2, <2>1, <2>2
  <2>9. QED BY <1>1, <1>2, <2>1, <2>3, <2>5, <2>6, <2>7, <2>8, NoRequestForm, DealStepInv
<1>5. QED BY <1>3, <1>4

\* The file without a row, or without its last row, is deleted, scheduled or left.
LEMMA FileInv ==
  ASSUME ImageInv, NEW d \in Deal, InsertFails(d) \/ DeleteFile(d)
  PROVE  ImageInv'
<1>1. /\ request' = [request EXCEPT ![d] = NoRequest] /\ UNCHANGED <<image, cleaner, crossed, torn>>
      /\ \/ request[d].kind = "upload" /\ request[d].pc = "insert"
         \/ request[d].kind = "remove" /\ request[d].pc = "delete"
      /\ \/ object' = "gone" /\ cleanup' = cleanup /\ slips' = slips
         \/ cleanup' = Booked /\ object' \in {object, "gone"} /\ slips' = slips
         \/ slips < MaxSlips /\ slips' = slips + 1 /\ object' = object /\ cleanup' = cleanup
  BY DEF InsertFails, DeleteFile, During, Done, Slip
<1>2. /\ image[d] \in RowState /\ [image EXCEPT ![d] = image[d]] = image /\ slips \in Nat /\ MaxSlips \in Nat
      /\ slips <= MaxSlips /\ crossed \in BOOLEAN /\ torn \subseteq Deal /\ ImageTypeOK
      /\ object \in {"absent", "stored", "gone"} /\ (request[d] # NoRequest \/ Listed # {} => object # "absent")
      /\ RequestShape(d) /\ (d \in Removing <=> request[d].kind \in {"remove", "drop"})
      /\ (request[d].kind = "upload" => Untouched /\ Removing = {} /\ Copying = {})
  BY DealNow, ImageNow
<1>3. request[d] # NoRequest BY <1>1, NoRequestForm
<1>4. request'[d] = NoRequest /\ image' = image /\ \A e \in Deal \ {d} : request'[e] = request[e]
  BY <1>1, <1>2, DealMoves, NoRequestForm
<1>5. RequestShape(d)' BY <1>4, NoRequestForm
<1>6. object' \in {"stored", "gone"} BY <1>1, <1>2, <1>3
<1>7. TornOnly({})'
  <2>1. TornOnly({})
    <3>1. CASE request[d].kind = "upload" BY <1>2, <3>1 DEF TornOnly, Untouched
    <3>2. CASE request[d].kind = "remove" /\ request[d].pc = "delete"
      <4>1. d \in Removing /\ ~request[d].shared /\ image[d] = "removed" BY <1>2, <3>2 DEF RequestShape
      <4>2. TornOnly({d}) BY <4>1 DEF ImageInv, JudgementsHold
      <4>3. d \notin Listed BY <4>1 DEF Listed
      <4>4. QED BY <4>2, <4>3 DEF TornOnly
    <3>3. QED BY <1>1, <3>1, <3>2
  <2>2. Listed' = Listed BY <1>4 DEF Listed
  <2>3. Copying' \subseteq Copying BY <1>4, NoRequestForm DEF Copying
  <2>4. QED BY <1>1, <2>1, <2>2, <2>3 DEF TornOnly
<1>8. SomebodyCares'
  <2>1. object' = "stored" /\ slips' = 0 => cleanup' = Booked BY <1>1, <1>2
  <2>2. cleanup' = Booked => Live' BY <1>2, BookedForm DEF Live
  <2>3. QED BY <2>1, <2>2 DEF SomebodyCares
<1>9. \A e \in Deal \ {d} : request[e].kind # "upload" BY <1>3, UploadAlone
<1>10. slips' \in {slips, slips + 1} /\ slips' <= MaxSlips BY <1>1, <1>2
<1>11. cleanup' \in {cleanup, Booked} BY <1>1
<1>12. image' = [image EXCEPT ![d] = image[d]] BY <1>1, <1>2
<1>13. object' = "stored" => object = "stored" BY <1>1
<1>14. QED BY <1>1, <1>2, <1>5, <1>6, <1>7, <1>8, <1>9, <1>10, <1>11, <1>12, <1>13, NoRequestForm, DealStepInv

\* The judgement of a removal: whoever finds no other reference marks the copies
\* that nobody sees yet, and whoever is beside another is marked himself.
LEMMA JudgedForm ==
  ASSUME ImageInv, NEW d \in Deal, d \in Listed, Judged({d}), d \notin Removing
  PROVE  /\ torn \subseteq torn' /\ torn' \subseteq Deal /\ crossed' \in BOOLEAN /\ (crossed => crossed')
         /\ ~crossed' => Removing = {} /\ Cleaning = {}
         /\ Listed = {d} => Listed \subseteq torn' \cup {d} /\ Copying \subseteq torn'
         /\ Listed # {d} => Listed \ {d} # {}
<1>1. torn \subseteq Deal /\ crossed \in BOOLEAN /\ Copying \subseteq Deal BY ImageNow DEF Copying
<1>2. crossed' = (crossed \/ Removing \ {d} # {} \/ ({d} # {} /\ Cleaning # {}))
      /\ torn' = IF Listed \subseteq {d} THEN torn \cup Copying ELSE torn
  BY DEF Judged
<1>3. QED BY <1>1, <1>2

\* The removal of an image begins, or that of a deal.
LEMMA RemoveInv ==
  ASSUME ImageInv, NEW d \in Deal, RemoveImage(d) \/ DropDeal(d)
  PROVE  ImageInv'
<1>1. /\ image[d] = "listed" /\ request[d] = NoRequest /\ Judged({d})
      /\ UNCHANGED <<object, image, cleanup, cleaner, slips>>
  BY DEF RemoveImage, DropDeal
<1>2. PICK r \in RequestRecord :
        /\ request' = [request EXCEPT ![d] = r] /\ (r.shared <=> Listed # {d})
        /\ \/ r.kind = "remove" /\ r.pc = "commit"
           \/ r.kind = "drop" /\ r.pc = "enqueue" /\ Listed = {d}
           \/ r.kind = "drop" /\ r.pc = "commit" /\ Listed # {d}
  <2>1. CASE RemoveImage(d)
    <3> DEFINE b == Listed # {d}
               r == [kind |-> "remove", pc |-> "commit", shared |-> b]
    <3>1. request' = [request EXCEPT ![d] = r] BY <2>1 DEF RemoveImage
    <3>2. b \in BOOLEAN OBVIOUS
    <3> HIDE DEF b
    <3>3. r \in RequestRecord /\ r.kind = "remove" /\ r.pc = "commit" /\ r.shared = b BY <3>2 DEF RequestRecord
    <3> HIDE DEF r
    <3>4. r.shared <=> Listed # {d} BY <3>3 DEF b
    <3>5. QED BY <3>1, <3>3, <3>4
  <2>2. CASE DropDeal(d)
    <3> DEFINE b == Listed # {d}
               pc == IF Listed = {d} THEN "enqueue" ELSE "commit"
               r == [kind |-> "drop", pc |-> pc, shared |-> b]
    <3>1. request' = [request EXCEPT ![d] = r] BY <2>2 DEF DropDeal
    <3>2. b \in BOOLEAN /\ pc \in {"enqueue", "commit"} OBVIOUS
    <3> HIDE DEF b, pc
    <3>3. r \in RequestRecord /\ r.kind = "drop" /\ r.pc = pc /\ r.shared = b BY <3>2 DEF RequestRecord
    <3> HIDE DEF r
    <3>4. r.shared <=> Listed # {d} BY <3>3 DEF b
    <3>5. (Listed = {d} => pc = "enqueue") /\ (Listed # {d} => pc = "commit") BY DEF pc
    <3>6. QED BY <3>1, <3>3, <3>4, <3>5
  <2>3. QED BY <2>1, <2>2
<1>3. /\ image[d] \in RowState /\ [image EXCEPT ![d] = image[d]] = image /\ slips \in {slips, slips + 1}
      /\ slips <= MaxSlips /\ ImageTypeOK /\ object \in {"absent", "stored", "gone"}
      /\ (request[d] # NoRequest \/ Listed # {} => object # "absent")
      /\ (d \in Removing <=> request[d].kind \in {"remove", "drop"})
  BY DealNow, ImageNow
<1>4. d \in Listed /\ d \notin Removing BY <1>1, <1>3, NoRequestForm DEF Listed
<1>5. /\ torn \subseteq torn' /\ torn' \subseteq Deal /\ crossed' \in BOOLEAN /\ (crossed => crossed')
      /\ ~crossed' => Removing = {} /\ Cleaning = {}
      /\ Listed = {d} => Listed \subseteq torn' \cup {d} /\ Copying \subseteq torn'
      /\ Listed # {d} => Listed \ {d} # {}
  BY <1>1, <1>4, JudgedForm
<1>6. /\ request'[d] = r /\ image'[d] = "listed" /\ \A e \in Deal \ {d} : request'[e] = request[e]
  BY <1>1, <1>2, <1>3, DealMoves
<1>7. RequestShape(d)' BY <1>2, <1>6 DEF RequestShape
<1>8. ~r.shared => TornOnly({d})'
  <2>1. Listed' = Listed BY <1>1 DEF Listed
  <2>2. Copying' \subseteq Copying BY <1>2, <1>6 DEF Copying
  <2>3. QED BY <1>2, <1>5, <2>1, <2>2 DEF TornOnly
<1>9. SomebodyCares' BY <1>6 DEF SomebodyCares, Listed
<1>10. \A e \in Deal \ {d} : request[e].kind # "upload" BY <1>4, UploadAlone
<1>11. object' \in {"stored", "gone"} /\ image' = [image EXCEPT ![d] = image[d]] BY <1>1, <1>3, <1>4
<1>12. QED BY <1>1, <1>2, <1>3, <1>5, <1>7, <1>8, <1>9, <1>10, <1>11, DealStepInv


\* The removal is committed: the row is gone, and if it was the last, the file is next.
LEMMA CommitInv ==
  ASSUME ImageInv, NEW d \in Deal, CommitRemoval(d)
  PROVE  ImageInv'
<1>1. /\ request[d].kind = "remove" /\ request[d].pc = "commit" /\ image' = [image EXCEPT ![d] = "removed"]
      /\ UNCHANGED <<object, cleanup, cleaner, slips, crossed, torn>>
      /\ \/ request[d].shared /\ request' = [request EXCEPT ![d] = NoRequest]
         \/ ~request[d].shared /\ request' = [request EXCEPT ![d].pc = "delete"]
  BY DEF CommitRemoval, During, Done, MoveTo
<1>2. /\ request[d] \in RequestRecord /\ slips \in {slips, slips + 1} /\ request \in [Deal -> RequestRecord]
      /\ slips <= MaxSlips /\ ImageTypeOK /\ object \in {"absent", "stored", "gone"}
      /\ (request[d] # NoRequest \/ Listed # {} => object # "absent") /\ RequestShape(d)
      /\ (d \in Removing <=> request[d].kind \in {"remove", "drop"}) /\ crossed \in BOOLEAN /\ torn \subseteq Deal
      /\ (slips = 0 /\ ~crossed /\ d \in Removing /\ request[d].shared => Listed \ {d} # {})
  BY DealNow, ImageNow
<1>3. PICK r \in RequestRecord :
        /\ request' = [request EXCEPT ![d] = r]
        /\ \/ r = NoRequest /\ request[d].shared
           \/ r.kind = "remove" /\ r.pc = "delete" /\ ~r.shared /\ ~request[d].shared
  <2>1. CASE request[d].shared /\ request' = [request EXCEPT ![d] = NoRequest] BY <2>1, NoRequestForm
  <2>2. CASE ~request[d].shared /\ request' = [request EXCEPT ![d].pc = "delete"]
    <3> DEFINE r == [request[d] EXCEPT !.pc = "delete"]
    <3>1. r \in RequestRecord /\ r.kind = request[d].kind /\ r.pc = "delete" /\ r.shared = request[d].shared
      BY <1>2 DEF RequestRecord
    <3>2. request' = [request EXCEPT ![d] = r] BY <1>2, <2>2
    <3> HIDE DEF r
    <3>3. QED BY <1>1, <2>2, <3>1, <3>2
  <2>3. QED BY <1>1, <2>1, <2>2
<1>4. "removed" \in RowState BY DEF RowState
<1>5. /\ request'[d] = r /\ image'[d] = "removed"
      /\ \A e \in Deal \ {d} : request'[e] = request[e] /\ image'[e] = image[e]
  BY <1>1, <1>2, <1>3, <1>4, DealMoves
<1>6. RequestShape(d)' BY <1>3, <1>5, NoRequestForm DEF RequestShape
<1>7. d \in Removing BY <1>1, <1>2
<1>8. SomebodyCares'
  <2>1. SUFFICES ASSUME slips = 0, ~crossed, request[d].shared PROVE Listed' # {}
    BY <1>1, <1>3, <1>5 DEF SomebodyCares
  <2>2. PICK f \in Listed \ {d} : TRUE BY <1>2, <1>7, <2>1
  <2>3. f \in Listed' BY <1>5, <2>2 DEF Listed
  <2>4. QED BY <2>3
<1>9. request[d] # NoRequest BY <1>1, NoRequestForm
<1>10. \A e \in Deal \ {d} : request[e].kind # "upload" BY <1>9, UploadAlone
<1>11. object' \in {"stored", "gone"} BY <1>1, <1>2, <1>9
<1>12. CASE r = NoRequest
  BY <1>1, <1>2, <1>3, <1>4, <1>6, <1>7, <1>8, <1>10, <1>11, <1>12, NoRequestForm, DealStepInv
<1>13. CASE r.kind = "remove" /\ r.pc = "delete" /\ ~r.shared /\ ~request[d].shared
  <2>1. r.kind # "copy" /\ r.kind # "upload" /\ r.kind # "drop" BY <1>13
  <2>2. request' = [request EXCEPT ![d] = r] /\ UNCHANGED <<cleaner, cleanup, slips, crossed, torn, object>>
    BY <1>1, <1>3
  <2>3. cleanup' \in {cleanup, Booked} /\ slips' \in {slips, slips + 1} /\ slips' <= MaxSlips
        /\ crossed' \in BOOLEAN /\ (crossed => crossed') /\ torn \subseteq torn' /\ torn' \subseteq Deal
    BY <1>2, <2>2
  <2>4. ~(object' = "gone" /\ object # "gone") /\ ~(object' = "stored" /\ object # "stored") BY <2>2
  <2>5. image' = [image EXCEPT ![d] = "removed"] BY <1>1
  <2>6. QED BY <1>4, <1>6, <1>7, <1>8, <1>10, <1>11, <1>13, <2>1, <2>2, <2>3, <2>4, <2>5, DealStepInv
<1>14. QED BY <1>3, <1>12, <1>13

\* The cleanup of a deal's image is scheduled before the deal is deleted.
LEMMA ScheduleInv ==
  ASSUME ImageInv, NEW d \in Deal, ScheduleCleanup(d)
  PROVE  ImageInv'
<1>1. /\ request[d].kind = "drop" /\ request[d].pc = "enqueue" /\ cleanup' = Booked
      /\ request' = [request EXCEPT ![d].pc = "commit"] /\ crossed' = (crossed \/ Cleaning # {})
      /\ UNCHANGED <<object, image, cleaner, slips, torn>>
  BY DEF ScheduleCleanup, During, MoveTo
<1>2. /\ request[d] \in RequestRecord /\ slips \in {slips, slips + 1} /\ request \in [Deal -> RequestRecord]
      /\ image[d] \in RowState /\ [image EXCEPT ![d] = image[d]] = image
      /\ slips <= MaxSlips /\ ImageTypeOK /\ object \in {"absent", "stored", "gone"}
      /\ (request[d] # NoRequest \/ Listed # {} => object # "absent") /\ RequestShape(d)
      /\ (d \in Removing <=> request[d].kind \in {"remove", "drop"}) /\ crossed \in BOOLEAN /\ torn \subseteq Deal
  BY DealNow, ImageNow
<1> DEFINE r == [request[d] EXCEPT !.pc = "commit"]
<1>3. r \in RequestRecord /\ r.kind = request[d].kind /\ r.pc = "commit" /\ r.shared = request[d].shared
  BY <1>2 DEF RequestRecord
<1>4. request' = [request EXCEPT ![d] = r] BY <1>1, <1>2
<1> HIDE DEF r
<1>5. /\ image[d] = "listed" /\ ~request[d].shared BY <1>1, <1>2 DEF RequestShape
<1>6. request'[d] = r /\ image'[d] = "listed" BY <1>1, <1>2, <1>3, <1>4, <1>5, DealMoves
<1>7. RequestShape(d)' BY <1>1, <1>3, <1>6 DEF RequestShape
<1>8. Live' BY <1>1, <1>2, BookedForm DEF Live
<1>9. SomebodyCares' BY <1>8 DEF SomebodyCares
<1>10. request[d] # NoRequest BY <1>1, NoRequestForm
<1>11. \A e \in Deal \ {d} : request[e].kind # "upload" BY <1>10, UploadAlone
<1>12. object' \in {"stored", "gone"} /\ d \in Removing BY <1>1, <1>2, <1>10
<1>13. crossed' \in BOOLEAN /\ (crossed => crossed') BY <1>1, <1>2
<1>14. image' = [image EXCEPT ![d] = image[d]] BY <1>1, <1>2
<1>15. cleanup' \in {cleanup, Booked} BY <1>1
<1>16. QED BY <1>1, <1>2, <1>3, <1>4, <1>5, <1>7, <1>8, <1>9, <1>11, <1>12, <1>13, <1>14, <1>15, DealStepInv

\* The deal is deleted, or its deletion is refused; or the server dies.
LEMMA CommitDropInv ==
  ASSUME ImageInv, NEW d \in Deal, CommitDrop(d) \/ RequestDies(d)
  PROVE  ImageInv'
<1>1. /\ request' = [request EXCEPT ![d] = NoRequest] /\ UNCHANGED <<object, cleanup, cleaner, crossed, torn>>
      /\ request[d] # NoRequest
      /\ \/ /\ request[d].kind = "drop" /\ request[d].pc = "commit" /\ slips' = slips
            /\ image' \in {image, [image EXCEPT ![d] = "removed"]}
         \/ slips < MaxSlips /\ slips' = slips + 1 /\ image' = image
  BY NoRequestForm DEF CommitDrop, RequestDies, During, Done, Slip
<1>2. /\ request[d] \in RequestRecord /\ slips \in Nat /\ MaxSlips \in Nat
      /\ image[d] \in RowState /\ [image EXCEPT ![d] = image[d]] = image
      /\ slips <= MaxSlips /\ ImageTypeOK /\ object \in {"absent", "stored", "gone"}
      /\ (request[d] # NoRequest \/ Listed # {} => object # "absent") /\ RequestShape(d)
      /\ (d \in Removing <=> request[d].kind \in {"remove", "drop"}) /\ crossed \in BOOLEAN /\ torn \subseteq Deal
      /\ (slips = 0 /\ ~crossed /\ d \in Removing /\ request[d].shared => Listed \ {d} # {})
      /\ OneAtATime /\ SomebodyCares
  BY DealNow, ImageNow
<1>3. PICK v \in RowState :
        /\ image' = [image EXCEPT ![d] = v]
        /\ v = image[d] \/ (v = "removed" /\ request[d].kind = "drop" /\ request[d].pc = "commit")
  <2>1. CASE image' = image BY <1>2, <2>1
  <2>2. CASE image' = [image EXCEPT ![d] = "removed"] /\ request[d].kind = "drop" /\ request[d].pc = "commit"
    BY <2>2 DEF RowState
  <2>3. QED BY <1>1, <2>1, <2>2
<1>4. /\ request'[d] = NoRequest /\ image'[d] = v
      /\ \A e \in Deal \ {d} : request'[e] = request[e] /\ image'[e] = image[e]
  BY <1>1, <1>2, <1>3, DealMoves, NoRequestForm
<1>5. RequestShape(d)' BY <1>4, NoRequestForm
<1>6. slips' \in {slips, slips + 1} /\ slips' <= MaxSlips /\ slips' \in Nat BY <1>1, <1>2
<1>7. SomebodyCares'
  <2>1. SUFFICES ASSUME slips' = 0, ~crossed PROVE SomebodyCares' BY <1>1 DEF SomebodyCares
  <2>2. /\ request[d].kind = "drop" /\ request[d].pc = "commit" /\ slips = 0 BY <1>1, <1>2, <2>1
  <2>3. d \in Removing /\ image[d] = "listed" BY <1>2, <2>2 DEF RequestShape
  <2>4. CASE request[d].shared
    <3>1. PICK f \in Listed \ {d} : TRUE BY <1>2, <2>1, <2>2, <2>3, <2>4
    <3>2. f \in Listed' BY <1>4, <3>1 DEF Listed
    <3>3. QED BY <3>2 DEF SomebodyCares
  <2>5. CASE ~request[d].shared
    <3>1. Live BY <1>2, <2>1, <2>2, <2>5 DEF OneAtATime
    <3>2. QED BY <1>1, <3>1 DEF SomebodyCares, Live
  <2>6. QED BY <2>4, <2>5
<1>8. \A e \in Deal \ {d} : request[e].kind # "upload" BY <1>1, UploadAlone
<1>9. object' \in {"stored", "gone"} BY <1>1, <1>2
<1>10. image[d] = "listed" /\ v # "listed" => d \in Removing BY <1>2, <1>3
<1>11. v = "listed" => image[d] = "listed" BY <1>3
<1>12. QED BY <1>1, <1>2, <1>3, <1>5, <1>6, <1>7, <1>8, <1>9, <1>10, <1>11, NoRequestForm, DealStepInv


\* A cleaner takes a step: no row and no request is touched.
LEMMA CleanerStepInv ==
  ASSUME ImageInv, NEW w \in Cleaner, UNCHANGED <<image, request>>,
         cleaner' \in [Cleaner -> ClaimRecord], \A v \in Cleaner \ {w} : cleaner'[v].pc = cleaner[v].pc,
         cleanup.status # "none" \/ cleaner[w].pc # "idle",
         cleanup' \in CleanupRecord, ~Live => cleanup' = cleanup,
         object' \in {object, "gone"}, object' = object \/ cleaner[w].pc = "delete",
         slips' \in {slips, slips + 1}, slips' <= MaxSlips,
         crossed' \in BOOLEAN, crossed => crossed', torn \subseteq torn', torn' \subseteq Deal,
         cleaner'[w].pc = "delete" => cleaner[w].pc = "delete" \/ TornOnly({})',
         ClaimsFenced',
         ~crossed' /\ Removing # {} => cleaner'[w].pc \in {"idle", "judge"} /\ (Live => slips' > 0 \/ Live'),
         slips' = 0 /\ ~crossed' /\ cleaner'[w].pc = "ack" /\ object' = "stored" => Listed # {},
         slips' = 0 /\ ~crossed' /\ object' = "stored" /\ Live =>
           Listed # {} \/ Live' \/ cleanup'.status = "failed"
  PROVE  ImageInv'
<1>1. /\ ImageTypeOK
      /\ object \in {"absent", "stored", "gone"} /\ image \in [Deal -> RowState]
      /\ request \in [Deal -> RequestRecord] /\ slips \in 0..MaxSlips /\ slips \in Nat
      /\ MaxSlips \in Nat
      /\ RequestShapes /\ FirstUpload /\ JudgementsHold /\ OneAtATime /\ SomebodyCares
  BY ImageNow
<1>2. slips' \in 0..MaxSlips /\ (slips' = 0 => slips = 0) BY <1>1
<1>3. ImageTypeOK' BY <1>1, <1>2, ImageTypesNext
<1>4. RequestShapes' BY <1>1 DEF RequestShapes, RequestShape
<1>5. Listed' = Listed /\ Removing' = Removing /\ Copying' = Copying BY DEF Listed, Removing, Copying
<1>6. FirstUpload'
  <2>1. ~Untouched BY DEF Untouched, Cleaning
  <2>2. object # "absent" /\ \A d \in Deal : request[d].kind # "upload" BY <1>1, <2>1 DEF FirstUpload
  <2>3. QED BY <2>2 DEF FirstUpload
<1>7. JudgementsHold'
  <2>1. \A by : TornOnly(by) => TornOnly(by)' BY <1>5 DEF TornOnly
  <2>2. \A v \in Cleaner : cleaner'[v].pc = "delete" => cleaner[v].pc = "delete" \/ TornOnly({})' OBVIOUS
  <2>3. object' = "gone" => TornOnly({})' BY <1>1, <2>1 DEF JudgementsHold
  <2>4. \A v \in Cleaner : cleaner'[v].pc = "delete" => TornOnly({})' BY <1>1, <2>1, <2>2 DEF JudgementsHold
  <2>5. \A d \in Removing' : ~request'[d].shared => TornOnly({d})' BY <1>1, <1>5, <2>1 DEF JudgementsHold
  <2>6. QED BY <2>3, <2>4, <2>5 DEF JudgementsHold
<1>8. OneAtATime'
  <2>1. SUFFICES ASSUME ~crossed' PROVE OneAtATime' BY DEF OneAtATime
  <2>2. /\ \A d, e \in Removing : d = e
        /\ \A d \in Removing : request[d].shared => Listed \ {d} # {}
        /\ \A d \in Removing, v \in Cleaner : cleaner[v].pc \in {"idle", "judge"}
        /\ slips = 0 =>
             /\ \A d \in Deal : request[d].kind = "drop" /\ request[d].pc = "commit" /\ ~request[d].shared => Live
             /\ \A v \in Cleaner : cleaner[v].pc = "ack" /\ object = "stored" => Listed # {}
    BY <1>1, <2>1 DEF OneAtATime
  <2>3. \A d \in Removing', v \in Cleaner : cleaner'[v].pc \in {"idle", "judge"} BY <1>5, <2>1, <2>2
  <2>4. ASSUME slips' = 0, NEW d \in Deal, request'[d].kind = "drop", request'[d].pc = "commit", ~request'[d].shared
        PROVE  Live'
    <3>1. d \in Removing BY <2>4 DEF Removing
    <3>2. Live BY <1>2, <2>2, <2>4
    <3>3. QED BY <2>1, <2>4, <3>1, <3>2
  <2>5. ASSUME slips' = 0, NEW v \in Cleaner, cleaner'[v].pc = "ack", object' = "stored" PROVE Listed' # {}
    <3>1. object = "stored" BY <2>5
    <3>2. CASE v = w BY <1>5, <2>1, <2>5, <3>2
    <3>3. CASE v # w BY <1>2, <1>5, <2>2, <2>5, <3>1, <3>3
    <3>4. QED BY <3>2, <3>3
  <2>6. QED BY <1>5, <2>2, <2>3, <2>4, <2>5 DEF OneAtATime
<1>9. SomebodyCares'
  <2>1. SUFFICES ASSUME slips' = 0, ~crossed', object' = "stored" PROVE SomebodyCares' BY DEF SomebodyCares
  <2>2. slips = 0 /\ ~crossed /\ object = "stored" BY <1>2, <2>1
  <2>3. CASE Live BY <1>5, <2>1, <2>3 DEF SomebodyCares
  <2>4. CASE ~Live
    <3>1. cleanup' = cleanup BY <2>4
    <3>2. QED BY <1>1, <1>5, <2>2, <2>4, <3>1 DEF SomebodyCares
  <2>5. QED BY <2>3, <2>4
<1>10. QED BY <1>3, <1>4, <1>6, <1>7, <1>8, <1>9 DEF ImageInv

\* What a cleaner is, and that the fences stand while nobody claims or lets go.
LEMMA CleanerNow ==
  ASSUME ImageInv, NEW w \in Cleaner
  PROVE  /\ cleaner[w] \in ClaimRecord /\ cleaner[w].try \in Nat /\ cleanup.tries \in Nat
         /\ slips \in {slips, slips + 1} /\ slips <= MaxSlips /\ crossed \in BOOLEAN /\ torn \subseteq Deal
         /\ NoClaim \in ClaimRecord /\ NoClaim.pc = "idle" /\ NoClaim.try = 0
         /\ cleaner[w].pc # "idle" => object # "absent"
<1>1. /\ cleaner \in [Cleaner -> ClaimRecord] /\ cleanup \in CleanupRecord /\ slips \in 0..MaxSlips
      /\ MaxSlips \in Nat /\ MaxTries \in Nat /\ crossed \in BOOLEAN /\ torn \subseteq Deal /\ FirstUpload
  BY ImageNow
<1>2. 0 \in 0..MaxTries + MaxSlips BY <1>1
<1>3. NoClaim \in ClaimRecord /\ NoClaim.pc = "idle" /\ NoClaim.try = 0 BY <1>2 DEF NoClaim, ClaimRecord
<1>4. cleaner[w] \in ClaimRecord BY <1>1
<1>5. cleaner[w].try \in Nat /\ cleanup.tries \in Nat BY <1>1, <1>4 DEF ClaimRecord, CleanupRecord
<1>6. cleaner[w].pc # "idle" => object # "absent" BY <1>1 DEF FirstUpload, Untouched, Cleaning
<1>7. QED BY <1>1, <1>3, <1>4, <1>5, <1>6

\* The fences stand while nobody claims or lets go.
LEMMA FencesStand ==
  ASSUME ImageInv, UNCHANGED <<cleanup, slips>>,
         \A v \in Cleaner : cleaner'[v].try = cleaner[v].try /\ (cleaner'[v].pc = "idle" <=> cleaner[v].pc = "idle")
  PROVE  ClaimsFenced'
<1>1. ClaimsFenced BY DEF ImageInv
<1>2. \A v \in Cleaner : Holding(v)' <=> Holding(v) BY DEF Holding
<1>3. Live' <=> Live BY DEF Live
<1>4. QED BY <1>1, <1>2, <1>3 DEF ClaimsFenced

\* The cleaner asks who refers to the key.
LEMMA JudgeInv ==
  ASSUME ImageInv, NEW w \in Cleaner, JudgeReferences(w)
  PROVE  ImageInv'
<1> DEFINE pc == IF Listed = {} THEN "delete" ELSE "ack"
<1>1. /\ cleaner[w].pc = "judge" /\ cleaner' = [cleaner EXCEPT ![w].pc = pc] /\ Judged({})
      /\ UNCHANGED <<object, image, request, cleanup, slips>>
  BY DEF JudgeReferences
<1>2. pc \in {"delete", "ack"} /\ (pc = "delete" => Listed = {}) /\ (pc = "ack" => Listed # {}) OBVIOUS
<1> HIDE DEF pc
<1>3. cleaner \in [Cleaner -> ClaimRecord] /\ cleanup \in CleanupRecord BY ImageNow
<1>4. /\ slips \in {slips, slips + 1} /\ slips <= MaxSlips /\ crossed \in BOOLEAN /\ torn \subseteq Deal
      /\ cleaner[w] \in ClaimRecord
  BY CleanerNow
<1>5. [cleaner[w] EXCEPT !.pc = pc] \in ClaimRecord BY <1>2, <1>4 DEF ClaimRecord
<1>6. /\ cleaner' \in [Cleaner -> ClaimRecord] /\ cleaner'[w].pc = pc /\ cleaner'[w].try = cleaner[w].try
      /\ \A v \in Cleaner \ {w} : cleaner'[v] = cleaner[v]
  BY <1>1, <1>3, <1>4, <1>5 DEF ClaimRecord
<1>7. /\ crossed' = (crossed \/ Removing \ {} # {} \/ ({} # {} /\ Cleaning # {}))
      /\ torn' = IF Listed \subseteq {} THEN torn \cup Copying ELSE torn
  BY <1>1 DEF Judged
<1>8. /\ crossed' \in BOOLEAN /\ (crossed => crossed') /\ (~crossed' => Removing = {})
      /\ torn \subseteq torn' /\ torn' \subseteq Deal
  BY <1>4, <1>7 DEF Copying
<1>9. pc = "delete" => TornOnly({})'
  <2>1. Listed' = Listed /\ Copying' = Copying BY <1>1 DEF Listed, Copying
  <2>2. QED BY <1>2, <1>7, <2>1 DEF TornOnly
<1>10. ClaimsFenced' BY <1>1, <1>2, <1>6, FencesStand
<1>11. Live' <=> Live BY <1>1 DEF Live
<1>12. QED BY <1>1, <1>2, <1>3, <1>4, <1>6, <1>8, <1>9, <1>10, <1>11, CleanerStepInv


\* The object is deleted, or the deletion is not answered.
LEMMA DeleteInv ==
  ASSUME ImageInv, NEW w \in Cleaner, DeleteObject(w)
  PROVE  ImageInv'
<1>1. /\ cleaner[w].pc = "delete" /\ UNCHANGED <<image, request, cleanup, slips, crossed, torn>>
      /\ object' \in {object, "gone"}
  BY DEF DeleteObject
<1>2. PICK pc \in {"ack", "fail"} :
        cleaner' = [cleaner EXCEPT ![w].pc = pc] /\ (pc = "ack" => object' = "gone")
  BY DEF DeleteObject
<1>3. cleaner \in [Cleaner -> ClaimRecord] /\ cleanup \in CleanupRecord /\ OneAtATime BY ImageNow
<1>4. /\ slips \in {slips, slips + 1} /\ slips <= MaxSlips /\ crossed \in BOOLEAN /\ torn \subseteq Deal
      /\ cleaner[w] \in ClaimRecord
  BY CleanerNow
<1>5. [cleaner[w] EXCEPT !.pc = pc] \in ClaimRecord BY <1>4 DEF ClaimRecord
<1>6. /\ cleaner' \in [Cleaner -> ClaimRecord] /\ cleaner'[w].pc = pc /\ cleaner'[w].try = cleaner[w].try
      /\ \A v \in Cleaner \ {w} : cleaner'[v] = cleaner[v]
  BY <1>2, <1>3, <1>4, <1>5 DEF ClaimRecord
<1>7. ClaimsFenced' BY <1>1, <1>2, <1>6, FencesStand
<1>8. ~crossed => Removing = {} BY <1>1, <1>3 DEF OneAtATime
<1>9. Live' <=> Live BY <1>1 DEF Live
<1>10. QED BY <1>1, <1>2, <1>3, <1>4, <1>6, <1>7, <1>8, <1>9, CleanerStepInv

\* A cleaner dies, and its claim with it: that is one of the slips.
LEMMA CleanerDiesInv ==
  ASSUME ImageInv, NEW w \in Cleaner, CleanerDies(w)
  PROVE  ImageInv'
<1>1. /\ cleaner[w].pc # "idle" /\ slips < MaxSlips /\ slips' = slips + 1
      /\ cleaner' = [cleaner EXCEPT ![w] = NoClaim] /\ UNCHANGED <<object, image, request, cleanup, crossed, torn>>
  BY DEF CleanerDies, Slip
<1>2. /\ cleaner \in [Cleaner -> ClaimRecord] /\ cleanup \in CleanupRecord /\ ClaimsFenced
      /\ slips \in Nat /\ MaxSlips \in Nat /\ MaxTries \in Nat
  BY ImageNow
<1>3. /\ crossed \in BOOLEAN /\ torn \subseteq Deal /\ NoClaim \in ClaimRecord /\ NoClaim.pc = "idle" /\ NoClaim.try = 0
      /\ cleanup.tries \in Nat
  BY CleanerNow
<1>4. /\ cleaner' \in [Cleaner -> ClaimRecord] /\ cleaner'[w] = NoClaim
      /\ \A v \in Cleaner \ {w} : cleaner'[v] = cleaner[v]
  BY <1>1, <1>2, <1>3
<1>5. ClaimsFenced'
  <2>1. \A v \in Cleaner : Holding(v)' => Holding(v) BY <1>1, <1>3, <1>4 DEF Holding
  <2>2. Live' <=> Live BY <1>1 DEF Live
  <2>3. cleanup'.status = "processing" =>
          cleanup'.tries + (IF \E v \in Cleaner : Holding(v)' THEN 0 ELSE 1) <= MaxTries + slips'
    <3>1. SUFFICES ASSUME cleanup.status = "processing"
                   PROVE  cleanup.tries + (IF \E v \in Cleaner : Holding(v)' THEN 0 ELSE 1) <= MaxTries + slips'
      BY <1>1
    <3>2. cleanup.tries + (IF \E v \in Cleaner : Holding(v) THEN 0 ELSE 1) <= MaxTries + slips
      BY <1>2, <3>1 DEF ClaimsFenced
    <3>3. cleanup.tries <= MaxTries + slips BY <1>2, <1>3, <3>2
    <3>4. cleanup.tries + 1 <= MaxTries + slips' BY <1>1, <1>2, <1>3, <3>3
    <3>5. QED BY <1>2, <1>3, <1>1, <3>3, <3>4
  <2>4. cleanup'.status = "processing" => cleanup'.tries > 0 /\ \A u, v \in Cleaner : Holding(u)' /\ Holding(v)' => u = v
    BY <1>1, <1>2, <2>1 DEF ClaimsFenced
  <2>5. Live' /\ cleanup'.tries > 0 => \A v \in Cleaner : cleaner'[v].try <= cleanup'.tries
    BY <1>1, <1>2, <1>3, <1>4, <2>2 DEF ClaimsFenced
  <2>6. cleanup'.status = "pending" => cleanup'.tries < MaxTries BY <1>1, <1>2 DEF ClaimsFenced
  <2>7. QED BY <2>3, <2>4, <2>5, <2>6 DEF ClaimsFenced
<1>6. slips' \in {slips, slips + 1} /\ slips' <= MaxSlips /\ slips' > 0 BY <1>1, <1>2
<1>7. QED BY <1>1, <1>2, <1>3, <1>4, <1>5, <1>6, CleanerStepInv

\* The end of a claim is written under its fence: a claim that is no longer the
\* newest changes nothing.
LEMMA EndInv ==
  ASSUME ImageInv, NEW w \in Cleaner, EndTask(w)
  PROVE  ImageInv'
<1> DEFINE verdict == IF cleaner[w].pc = "ack" THEN "completed"
                      ELSE IF cleaner[w].try >= MaxTries THEN "failed" ELSE "pending"
<1>1. /\ cleaner[w].pc \in {"ack", "fail"} /\ cleaner' = [cleaner EXCEPT ![w] = NoClaim]
      /\ UNCHANGED <<object, image, request, slips, crossed, torn>>
      /\ cleanup' = IF Fenced(w) THEN [cleanup EXCEPT !.status = verdict] ELSE cleanup
  BY DEF EndTask
<1>2. /\ cleaner \in [Cleaner -> ClaimRecord] /\ cleanup \in CleanupRecord /\ ClaimsFenced /\ OneAtATime
      /\ slips \in Nat /\ MaxSlips \in Nat /\ MaxTries \in Nat
  BY ImageNow
<1>3. /\ crossed \in BOOLEAN /\ torn \subseteq Deal /\ NoClaim \in ClaimRecord /\ NoClaim.pc = "idle" /\ NoClaim.try = 0
      /\ cleanup.tries \in Nat /\ slips \in {slips, slips + 1} /\ slips <= MaxSlips /\ cleaner[w].try \in Nat
  BY CleanerNow
<1>4. /\ cleaner' \in [Cleaner -> ClaimRecord] /\ cleaner'[w] = NoClaim
      /\ \A v \in Cleaner \ {w} : cleaner'[v] = cleaner[v]
  BY <1>1, <1>2, <1>3
<1>5. /\ verdict \in {"completed", "failed", "pending"} /\ (verdict = "pending" => cleaner[w].try < MaxTries)
      /\ (verdict = "completed" => cleaner[w].pc = "ack")
  BY <1>2, <1>3
<1> HIDE DEF verdict
<1>6. ~crossed => Removing = {} BY <1>1, <1>2 DEF OneAtATime
<1>7. slips = 0 /\ ~crossed /\ cleaner[w].pc = "ack" /\ object = "stored" => Listed # {} BY <1>2 DEF OneAtATime
<1>8. CASE Fenced(w)
  <2>1. cleanup.status = "processing" /\ cleanup.tries = cleaner[w].try BY <1>8 DEF Fenced
  <2>2. cleanup' \in CleanupRecord /\ cleanup'.status = verdict /\ cleanup'.tries = cleanup.tries
    BY <1>1, <1>2, <1>5, <1>8 DEF CleanupRecord
  <2>3. ClaimsFenced'
    <3>1. Live BY <2>1 DEF Live
    <3>2. cleanup.tries > 0 /\ \A v \in Cleaner : cleaner[v].try <= cleanup.tries
      BY <1>2, <2>1, <3>1 DEF ClaimsFenced
    <3>3. \A v \in Cleaner : cleaner'[v].try <= cleanup'.tries BY <1>3, <1>4, <2>2, <3>2
    <3>4. QED BY <1>5, <2>1, <2>2, <3>3 DEF ClaimsFenced
  <2>4. Live BY <2>1 DEF Live
  <2>5. Live' \/ cleanup'.status \in {"completed", "failed"} BY <1>5, <2>2 DEF Live
  <2>6. slips' = 0 /\ ~crossed' /\ object' = "stored" => Listed # {} \/ Live' \/ cleanup'.status = "failed"
    BY <1>1, <1>5, <1>7, <2>2, <2>5
  <2>7. QED BY <1>1, <1>2, <1>3, <1>4, <1>6, <2>1, <2>2, <2>3, <2>4, <2>6, CleanerStepInv
<1>9. CASE ~Fenced(w)
  <2>1. cleanup' = cleanup BY <1>1, <1>9
  <2>2. Live' <=> Live BY <2>1 DEF Live
  <2>3. ClaimsFenced'
    <3>1. cleanup.status = "processing" => \A v \in Cleaner : Holding(v)' <=> Holding(v)
      BY <1>3, <1>4, <1>9, <2>1 DEF Holding, Fenced
    <3>2. Live' /\ cleanup'.tries > 0 => \A v \in Cleaner : cleaner'[v].try <= cleanup'.tries
      BY <1>2, <1>3, <1>4, <2>1, <2>2 DEF ClaimsFenced
    <3>3. cleanup'.status = "pending" => cleanup'.tries < MaxTries BY <1>2, <2>1 DEF ClaimsFenced
    <3>4. cleanup'.status = "processing" =>
            /\ cleanup'.tries > 0
            /\ \A u, v \in Cleaner : Holding(u)' /\ Holding(v)' => u = v
            /\ cleanup'.tries + (IF \E v \in Cleaner : Holding(v)' THEN 0 ELSE 1) <= MaxTries + slips'
      BY <1>1, <1>2, <2>1, <3>1 DEF ClaimsFenced
    <3>5. QED BY <3>2, <3>3, <3>4 DEF ClaimsFenced
  <2>4. QED BY <1>1, <1>2, <1>3, <1>4, <1>6, <2>1, <2>2, <2>3, CleanerStepInv
<1>10. QED BY <1>8, <1>9


\* A task is claimed: the new claim is the newest, and if it takes the task from
\* a claim that is still under way, the stall is one of the slips.
LEMMA ClaimTaskInv ==
  ASSUME ImageInv, NEW w \in Cleaner, ClaimTask(w)
  PROVE  ImageInv'
<1> DEFINE n == cleanup.tries + 1
           c == [pc |-> "judge", try |-> n]
<1>1. /\ cleaner[w].pc = "idle" /\ Live /\ UNCHANGED <<object, image, request, crossed, torn>>
      /\ cleanup' = [status |-> "processing", tries |-> n]
      /\ cleaner' = [v \in Cleaner |-> IF v = w THEN c
                                       ELSE IF cleanup.tries = 0 THEN [cleaner[v] EXCEPT !.try = 0] ELSE cleaner[v]]
      /\ IF cleanup.status = "processing" /\ \E v \in Cleaner : Holding(v)
         THEN slips < MaxSlips /\ slips' = slips + 1 ELSE slips' = slips
  BY DEF ClaimTask, Slip, Holding
<1>2. /\ cleaner \in [Cleaner -> ClaimRecord] /\ cleanup \in CleanupRecord /\ ClaimsFenced
      /\ slips \in Nat /\ MaxSlips \in Nat /\ MaxTries \in Nat
  BY ImageNow
<1>3. /\ crossed \in BOOLEAN /\ torn \subseteq Deal /\ cleanup.tries \in Nat /\ slips <= MaxSlips
      /\ 0 \in 0..MaxTries + MaxSlips /\ \A v \in Cleaner : cleaner[v].try \in Nat
  BY <1>2, CleanerNow
<1>4. slips' \in {slips, slips + 1} /\ slips' <= MaxSlips /\ slips' \in Nat BY <1>1, <1>2, <1>3
<1>5. n <= MaxTries + slips'
  <2>1. CASE cleanup.status = "pending"
    <3>1. cleanup.tries < MaxTries BY <1>2, <2>1 DEF ClaimsFenced
    <3>2. QED BY <1>2, <1>3, <1>4, <3>1
  <2>2. CASE cleanup.status = "processing" /\ \E v \in Cleaner : Holding(v)
    <3>1. cleanup.tries + 0 <= MaxTries + slips BY <1>2, <2>2 DEF ClaimsFenced
    <3>2. slips' = slips + 1 BY <1>1, <2>2
    <3>3. QED BY <1>2, <1>3, <3>1, <3>2
  <2>3. CASE cleanup.status = "processing" /\ ~\E v \in Cleaner : Holding(v)
    <3>1. cleanup.tries + 1 <= MaxTries + slips BY <1>2, <2>3 DEF ClaimsFenced
    <3>2. slips' = slips BY <1>1, <2>3
    <3>3. QED BY <3>1, <3>2
  <2>4. QED BY <1>1, <2>1, <2>2, <2>3 DEF Live
<1>6. n \in 0..MaxTries + MaxSlips /\ n \in Nat /\ n > 0 /\ n > cleanup.tries BY <1>2, <1>3, <1>4, <1>5
<1>7. c \in ClaimRecord /\ c.pc = "judge" /\ c.try = n BY <1>6 DEF ClaimRecord
<1>8. cleanup' \in CleanupRecord /\ cleanup'.status = "processing" /\ cleanup'.tries = n
  BY <1>1, <1>6 DEF CleanupRecord
<1> HIDE DEF n, c
<1>9. ASSUME NEW v \in Cleaner \ {w}
      PROVE  cleaner'[v] \in ClaimRecord /\ cleaner'[v].pc = cleaner[v].pc /\ cleaner'[v].try \in Nat /\ cleaner'[v].try < n
  <2>1. cleaner[v] \in ClaimRecord /\ cleaner[v].try \in Nat BY <1>2, <1>3
  <2>2. CASE cleanup.tries = 0
    <3>1. cleaner'[v] = [cleaner[v] EXCEPT !.try = 0] BY <1>1, <2>2
    <3>2. QED BY <1>3, <1>6, <2>1, <3>1 DEF ClaimRecord
  <2>3. CASE cleanup.tries # 0
    <3>1. cleaner'[v] = cleaner[v] BY <1>1, <2>3
    <3>2. cleaner[v].try <= cleanup.tries BY <1>1, <1>2, <1>3, <2>3 DEF ClaimsFenced
    <3>3. QED BY <1>3, <1>6, <2>1, <3>1, <3>2
  <2>4. QED BY <2>2, <2>3
<1>10. cleaner'[w] = c /\ cleaner' \in [Cleaner -> ClaimRecord] BY <1>1, <1>7, <1>9
<1>11. ClaimsFenced'
  <2>1. Holding(w)' BY <1>7, <1>8, <1>10 DEF Holding
  <2>2. \A v \in Cleaner : Holding(v)' => v = w BY <1>6, <1>8, <1>9 DEF Holding
  <2>3. \A v \in Cleaner : cleaner'[v].try <= cleanup'.tries BY <1>6, <1>7, <1>8, <1>9, <1>10
  <2>4. cleanup'.tries + 0 <= MaxTries + slips' BY <1>5, <1>6, <1>8
  <2>5. QED BY <1>6, <1>8, <2>1, <2>2, <2>3, <2>4 DEF ClaimsFenced
<1>12. Live' BY <1>8 DEF Live
<1>13. cleanup.status # "none" BY <1>1 DEF Live
<1>14. QED BY <1>1, <1>2, <1>3, <1>4, <1>7, <1>8, <1>9, <1>10, <1>11, <1>12, <1>13, CleanerStepInv

\* The empty storage satisfies the invariant.
LEMMA ImageStart == ImageInit => ImageInv
<1>1. SUFFICES ASSUME ImageInit PROVE ImageInv OBVIOUS
<1>2. /\ object = "absent" /\ slips = 0 /\ crossed = FALSE /\ torn = {} /\ cleanup.status = "none" /\ cleanup.tries = 0
      /\ \A d \in Deal : request[d] = NoRequest /\ image[d] = "none"
      /\ \A w \in Cleaner : cleaner[w] = NoClaim
  BY <1>1 DEF ImageInit
<1>3. ImageTypeOK
  <2>1. NoRequest \in RequestRecord /\ "none" \in RowState BY NoRequestForm DEF RowState
  <2>2. 0 \in 0..MaxTries + MaxSlips /\ 0 \in 0..MaxSlips BY ImageAssumption
  <2>3. NoClaim \in ClaimRecord BY <2>2 DEF NoClaim, ClaimRecord
  <2>4. cleanup \in CleanupRecord BY <1>1, <2>2 DEF ImageInit, CleanupRecord
  <2>5. QED BY <1>1, <2>1, <2>2, <2>3, <2>4, ImageTypesNamed DEF ImageInit
<1>4. Listed = {} /\ Removing = {} /\ Copying = {} /\ Cleaning = {}
  BY <1>2, NoRequestForm DEF Listed, Removing, Copying, Cleaning, NoClaim
<1>5. RequestShapes BY <1>2 DEF RequestShapes, RequestShape, NoRequest
<1>6. FirstUpload BY <1>2, <1>4, NoRequestForm DEF FirstUpload, Untouched
<1>7. JudgementsHold /\ OneAtATime BY <1>2, <1>4, NoRequestForm DEF JudgementsHold, OneAtATime, NoClaim
<1>8. ClaimsFenced /\ SomebodyCares BY <1>2 DEF ClaimsFenced, SomebodyCares, Live
<1>9. QED BY <1>3, <1>5, <1>6, <1>7, <1>8 DEF ImageInv

\* Every step preserves the invariant.
LEMMA ImageStep == ImageInv /\ [ImageNext]_imageVars => ImageInv'
<1>1. SUFFICES ASSUME ImageInv, [ImageNext]_imageVars PROVE ImageInv' OBVIOUS
<1>2. ASSUME NEW d \in Deal,
             \/ SaveImage(d) \/ InsertImage(d) \/ InsertFails(d) \/ CopyImage(d) \/ CommitCopy(d)
             \/ RemoveImage(d) \/ CommitRemoval(d) \/ DeleteFile(d)
             \/ DropDeal(d) \/ ScheduleCleanup(d) \/ CommitDrop(d) \/ RequestDies(d)
      PROVE  ImageInv'
  BY <1>1, <1>2, SaveInv, InsertInv, FileInv, CopyInv, RemoveInv, CommitInv, ScheduleInv, CommitDropInv
<1>3. ASSUME NEW w \in Cleaner,
             ClaimTask(w) \/ JudgeReferences(w) \/ DeleteObject(w) \/ EndTask(w) \/ CleanerDies(w)
      PROVE  ImageInv'
  BY <1>1, <1>3, ClaimTaskInv, JudgeInv, DeleteInv, EndInv, CleanerDiesInv
<1>4. CASE UNCHANGED imageVars
  <2>1. UNCHANGED <<object, image, request, cleanup, cleaner, slips, crossed, torn>> BY <1>4 DEF imageVars
  <2>2. UNCHANGED <<ImageTypeOK, RequestShapes, ClaimsFenced>>
    BY <2>1 DEF ImageTypeOK, RequestShapes, RequestShape, ClaimsFenced, Live, Holding
  <2>3. UNCHANGED <<FirstUpload, JudgementsHold, OneAtATime, SomebodyCares>>
    BY <2>1 DEF FirstUpload, Untouched, JudgementsHold, TornOnly, OneAtATime, SomebodyCares,
                Listed, Removing, Copying, Cleaning, Live
  <2>4. QED BY <1>1, <2>2, <2>3 DEF ImageInv
<1>5. QED BY <1>1, <1>2, <1>3, <1>4 DEF ImageNext

\* In every reachable state of the storage, its requests and its tasks the
\* variables have their types: no task is attempted more often than its budget
\* and the deaths and stalls allow.
THEOREM ImageTypes == ImageSpec => []ImageTypeOK
<1>1. ImageInv => ImageTypeOK BY DEF ImageInv
<1>2. QED BY <1>1, ImageStart, ImageStep, PTL DEF ImageSpec

\* No deal shows an image whose object is gone, unless it was copied while the
\* last reference was being taken away; and nothing unreferred is left behind
\* when all is quiet, unless a process died, the cleanup gave up with a record,
\* or two judged at once.
THEOREM ImagesKept == ImageSpec => []ImagesHaveObjects
<1>1. ImageInv => ImagesHaveObjects
  <2>1. SUFFICES ASSUME ImageInv PROVE ImagesHaveObjects OBVIOUS
  <2>2. /\ object \in {"absent", "stored", "gone"} /\ slips \in Nat
        /\ FirstUpload /\ JudgementsHold /\ SomebodyCares
    BY <2>1, ImageNow
  <2>3. \A d \in Listed : object = "stored" \/ d \in torn
    BY <2>2 DEF FirstUpload, Untouched, JudgementsHold, TornOnly
  <2>4. AllQuiet /\ Listed = {} /\ object = "stored" => slips > 0 \/ cleanup.status = "failed" \/ crossed
    BY <2>2, NoRequestForm DEF AllQuiet, SomebodyCares, NoRequest
  <2>5. QED BY <2>3, <2>4 DEF ImagesHaveObjects
<1>2. QED BY <1>1, ImageStart, ImageStep, PTL DEF ImageSpec
=============================================================================
