---------------------------- MODULE InvoiceRail ----------------------------
(***************************************************************************)
(* A receipt on its way through the document rail: invoice_dispatch.ts,    *)
(* the two jobs that drive it, its maintenance and webhook, the retry of   *)
(* an administrator and the trigger that freezes issued documents.         *)
(*                                                                         *)
(* The rail uses no transactions: every statement is a step, and a run     *)
(* that lost its lease goes on beside the next one.                        *)
(***************************************************************************)
EXTENDS Integers, FiniteSets

CONSTANTS
  Scribe,       \* worker slots that run document jobs
  MaxBreaks     \* leases and processes the model lets be lost

DocumentJob == {"issue", "reconcile"}

ASSUME InvoiceAssumption == MaxBreaks \in Nat

VARIABLES
  receipt,      \* invoice_documents; ref: provider_document_id and issued_at are set
  disputed,     \* an open row in invoice_reconciliation_cases
  docjob,       \* outbox: the newest row of each type of job; "failed" is in the dead letters
  scribe,       \* the runs of the handlers
  breaks,       \* leases and processes lost so far
  paper         \* the provider: the document it made, and whether it ever refused it

invoiceVars == <<receipt, disputed, docjob, scribe, breaks, paper>>

Resting == [job |-> "none", pc |-> "free", live |-> FALSE, seen |-> "none"]

InvoiceTypeOK ==
  /\ receipt \in [status : {"absent", "pending", "processing", "issued", "failed", "reconciled"}, ref : BOOLEAN]
  /\ disputed \in BOOLEAN
  /\ docjob \in [DocumentJob -> {"none", "pending", "processing", "sent", "failed"}]
  /\ scribe \in [Scribe -> [job : DocumentJob \cup {"none"},
                            pc : {"free", "read", "mark", "create", "write", "follow",
                                  "compare", "close", "case", "ack", "throw"},
                            live : BOOLEAN, seen : {"none", "success", "refused", "unknown", "ref", "matched", "mismatched"}]]
  /\ breaks \in 0..MaxBreaks
  /\ paper \in [made : BOOLEAN, refused : BOOLEAN]

InvoiceInit ==
  /\ receipt = [status |-> "absent", ref |-> FALSE] /\ disputed = FALSE
  /\ docjob = [j \in DocumentJob |-> "none"]
  /\ scribe = [s \in Scribe |-> Resting] /\ breaks = 0
  /\ paper = [made |-> FALSE, refused |-> FALSE]

Present(j) == docjob[j] \in {"pending", "processing", "sent"}
IfMissing(j) == IF Present(j) THEN docjob ELSE [docjob EXCEPT ![j] = "pending"]
\* invoice_documents_issued_immutable
Frozen == receipt.ref
Turn(s, pc) == scribe' = [scribe EXCEPT ![s].pc = pc]
TurnSeeing(s, pc, seen) == scribe' = [scribe EXCEPT ![s].pc = pc, ![s].seen = seen]
AtStep(s, j, pc) == scribe[s].job = j /\ scribe[s].pc = pc

-----------------------------------------------------------------------------
(* The worker around the handlers.                                           *)

TakeDocumentJob(s, j) ==
  /\ scribe[s].pc = "free" /\ docjob[j] = "pending"
  /\ docjob' = [docjob EXCEPT ![j] = "processing"]
  /\ scribe' = [scribe EXCEPT ![s] = [Resting EXCEPT !.job = j, !.pc = "read", !.live = TRUE]]
  /\ UNCHANGED <<receipt, disputed, breaks, paper>>

EndDocumentRun(s) ==
  /\ scribe[s].pc \in {"ack", "throw"}
  /\ \E verdict \in (IF scribe[s].pc = "ack" THEN {"sent"} ELSE {"pending", "failed"}) :
       docjob' = IF scribe[s].live THEN [docjob EXCEPT ![scribe[s].job] = verdict] ELSE docjob
  /\ scribe' = [scribe EXCEPT ![s] = Resting]
  /\ UNCHANGED <<receipt, disputed, breaks, paper>>

\* A lease runs out under a run that goes on, or its process dies.
LoseScribe(s) ==
  /\ scribe[s].live /\ breaks < MaxBreaks /\ breaks' = breaks + 1
  /\ docjob' = [docjob EXCEPT ![scribe[s].job] = "pending"]
  /\ scribe' \in {[scribe EXCEPT ![s].live = FALSE], [scribe EXCEPT ![s] = Resting]}
  /\ UNCHANGED <<receipt, disputed, paper>>

-----------------------------------------------------------------------------
(* enqueueInvoiceDocument and invoice_document_issue                         *)

\* The document, and its job unless the process dies in between.
EnqueueReceipt ==
  /\ receipt.status = "absent" /\ receipt' = [receipt EXCEPT !.status = "pending"]
  /\ docjob' \in {docjob, IfMissing("issue")}
  /\ UNCHANGED <<disputed, scribe, breaks, paper>>

ReadDocument(s) ==
  /\ AtStep(s, "issue", "read")
  /\ Turn(s, IF receipt.status \in {"issued", "reconciled"} THEN "ack" ELSE "mark")
  /\ UNCHANGED <<receipt, disputed, docjob, breaks, paper>>

MarkProcessing(s) ==
  /\ AtStep(s, "issue", "mark")
  /\ IF Frozen THEN Turn(s, "throw") /\ UNCHANGED receipt
     ELSE Turn(s, "create") /\ receipt' = [receipt EXCEPT !.status = "processing"]
  /\ UNCHANGED <<disputed, docjob, breaks, paper>>

\* One idempotency key for all requests: the provider makes one document, says
\* the truth about it or nothing, and does not refuse what it has made.
CreateDocument(s) ==
  /\ AtStep(s, "issue", "create")
  /\ \/ /\ paper' = [paper EXCEPT !.made = TRUE]
        /\ \E seen \in {"success", "unknown"} : TurnSeeing(s, "write", seen)
     \/ ~paper.made /\ TurnSeeing(s, "write", "refused") /\ paper' = [paper EXCEPT !.refused = TRUE]
     \/ TurnSeeing(s, "write", "unknown") /\ UNCHANGED paper
  /\ UNCHANGED <<receipt, disputed, docjob, breaks>>

\* Mutant of WriteOutcome: an unknown outcome does not fail the job.
WriteQuietly(s) ==
  /\ AtStep(s, "issue", "write")
  /\ \/ /\ scribe[s].seen = "success" /\ ~Frozen
        /\ receipt' = [status |-> "issued", ref |-> TRUE] /\ Turn(s, "follow")
     \/ scribe[s].seen = "success" /\ Frozen /\ Turn(s, "throw") /\ UNCHANGED receipt
     \/ scribe[s].seen = "refused" /\ receipt' = [receipt EXCEPT !.status = "failed"] /\ Turn(s, "ack")
     \/ /\ scribe[s].seen = "unknown" /\ Turn(s, "ack")
        /\ receipt' = IF Frozen THEN receipt ELSE [receipt EXCEPT !.status = "pending"]
  /\ UNCHANGED <<disputed, docjob, breaks, paper>>
\* The trigger refuses a second issue and a way back to pending, but not a failure.
WriteOutcome(s) ==
  /\ AtStep(s, "issue", "write")
  /\ \/ /\ scribe[s].seen = "success" /\ ~Frozen
        /\ receipt' = [status |-> "issued", ref |-> TRUE] /\ Turn(s, "follow")
     \/ scribe[s].seen = "success" /\ Frozen /\ Turn(s, "throw") /\ UNCHANGED receipt
     \/ scribe[s].seen = "refused" /\ receipt' = [receipt EXCEPT !.status = "failed"] /\ Turn(s, "ack")
     \/ /\ scribe[s].seen = "unknown" /\ Turn(s, "throw")
        /\ receipt' = IF Frozen THEN receipt ELSE [receipt EXCEPT !.status = "pending"]
  /\ UNCHANGED <<disputed, docjob, breaks, paper>>

FollowUp(s) ==
  /\ AtStep(s, "issue", "follow") /\ docjob' = IfMissing("reconcile") /\ Turn(s, "ack")
  /\ UNCHANGED <<receipt, disputed, breaks, paper>>

-----------------------------------------------------------------------------
(* invoice_document_reconcile                                                *)

ReadReference(s) ==
  /\ AtStep(s, "reconcile", "read") /\ TurnSeeing(s, "compare", IF receipt.ref THEN "ref" ELSE "none")
  /\ UNCHANGED <<receipt, disputed, docjob, breaks, paper>>

\* Without a reference, or without an answer, nothing matches.
Compare(s) ==
  /\ AtStep(s, "reconcile", "compare")
  /\ \E seen \in {"mismatched"} \cup (IF scribe[s].seen = "ref" /\ paper.made THEN {"matched"} ELSE {}) :
       TurnSeeing(s, "close", seen)
  /\ UNCHANGED <<receipt, disputed, docjob, breaks, paper>>

WriteVerdict(s) ==
  /\ AtStep(s, "reconcile", "close") /\ Turn(s, "case")
  /\ receipt' = [receipt EXCEPT !.status = IF scribe[s].seen = "matched" THEN "reconciled" ELSE "failed"]
  /\ UNCHANGED <<disputed, docjob, breaks, paper>>

WriteCase(s) ==
  /\ AtStep(s, "reconcile", "case") /\ Turn(s, "ack")
  /\ disputed' = (scribe[s].seen = "mismatched")
  /\ UNCHANGED <<receipt, docjob, breaks, paper>>

-----------------------------------------------------------------------------
(* Around the rail.                                                          *)

\* enqueuePendingInvoiceDocumentOutboxEvents
EnqueuePending ==
  /\ receipt.status = "pending" /\ ~Present("issue") /\ docjob' = IfMissing("issue")
  /\ UNCHANGED <<receipt, disputed, scribe, breaks, paper>>

\* reclaimStuckInvoiceDocuments, by age alone
ReclaimDocument ==
  /\ receipt.status = "processing" /\ receipt' = [receipt EXCEPT !.status = "pending"]
  /\ UNCHANGED <<disputed, docjob, scribe, breaks, paper>>

\* POST /webhooks/invoices, about a document the provider has made
InvoiceWebhook ==
  /\ paper.made /\ receipt.status # "reconciled" /\ ~Present("reconcile")
  /\ docjob' = IfMissing("reconcile")
  /\ UNCHANGED <<receipt, disputed, scribe, breaks, paper>>

\* retry_invoice_failed: the document alone
RetryInvoiceFailed ==
  /\ receipt.status = "failed" /\ ~receipt.ref /\ receipt' = [receipt EXCEPT !.status = "pending"]
  /\ UNCHANGED <<disputed, docjob, scribe, breaks, paper>>

InvoiceNext ==
  \/ EnqueueReceipt \/ EnqueuePending \/ ReclaimDocument \/ InvoiceWebhook \/ RetryInvoiceFailed
  \/ \E s \in Scribe :
       \/ EndDocumentRun(s) \/ LoseScribe(s) \/ (\E j \in DocumentJob : TakeDocumentJob(s, j))
       \/ ReadDocument(s) \/ MarkProcessing(s) \/ CreateDocument(s) \/ WriteOutcome(s) \/ FollowUp(s)
       \/ ReadReference(s) \/ Compare(s) \/ WriteVerdict(s) \/ WriteCase(s)

InvoiceSpec == InvoiceInit /\ [][InvoiceNext]_invoiceVars

-----------------------------------------------------------------------------
(* Properties.                                                               *)

\* Once no job of a receipt is left that the provider never refused, it is
\* issued or failed, never waiting for nobody. A document the provider made is
\* on record with its reference, or an open case or a dead letter is about it;
\* and so it is with a failed receipt, unless two reconciliations overlapped.
Finished ==
  /\ \A j \in DocumentJob : docjob[j] \notin {"pending", "processing"}
  /\ \A s \in Scribe : scribe[s].pc = "free"
  /\ receipt.status # "processing" /\ (receipt.status = "pending" => Present("issue"))
BeforeSomeone == disputed \/ \E j \in DocumentJob : docjob[j] = "failed"
NoReceiptForgotten ==
  Finished /\ ~paper.refused =>
    /\ receipt.status # "pending"
    /\ paper.made => receipt.ref \/ BeforeSomeone
    /\ receipt.status = "failed" => BeforeSomeone \/ breaks > 0
=============================================================================
