----------------------------- MODULE ImageStore -----------------------------
(***************************************************************************)
(* One object of the image storage and the deals whose images refer to it: *)
(* the upload and removal routes (seller_deal_image_routes.ts), the        *)
(* duplication and deletion of deals and the cleanup of the workers        *)
(* (app.ts 5274, 6715, 6818).                                              *)
(*                                                                         *)
(* A transaction locks its own deal only, sees what the others committed,  *)
(* and the object lies outside all transactions.                           *)
(***************************************************************************)
EXTENDS Integers, FiniteSets

CONSTANTS
  Deal,           \* deals that may come to show the image, each once
  Cleaner,        \* worker processes that run the cleanup
  MaxTries,       \* max_attempts of a cleanup task
  MaxSlips        \* deaths, stalls and double failures the model allows

ASSUME ImageAssumption == MaxTries \in Nat \ {0} /\ MaxSlips \in Nat

VARIABLES
  object,         \* the storage
  image,          \* the deal_images row of each deal
  request,        \* the request about a deal: what it does, where it is, whether it saw others refer
  cleanup,        \* the newest storage_cleanup_tasks row of the key
  cleaner,        \* the claims under way, with the attempt_count each was given
  slips,
  crossed,        \* history: somebody judged who refers while another was under way
  torn            \* history: deals whose copy was made while somebody judged

imageVars == <<object, image, request, cleanup, cleaner, slips, crossed, torn>>

NoRequest == [kind |-> "none", pc |-> "idle", shared |-> FALSE]
NoClaim == [pc |-> "idle", try |-> 0]

ImageTypeOK ==
  /\ object \in {"absent", "stored", "gone"}
  /\ image \in [Deal -> {"none", "listed", "removed"}]
  /\ request \in [Deal -> [kind : {"none", "upload", "copy", "remove", "drop"},
                           pc : {"idle", "insert", "commit", "enqueue", "delete"}, shared : BOOLEAN]]
  /\ cleanup \in [status : {"none", "pending", "processing", "completed", "failed"}, tries : 0..MaxTries + MaxSlips]
  /\ cleaner \in [Cleaner -> [pc : {"idle", "judge", "delete", "ack", "fail"}, try : 0..MaxTries + MaxSlips]]
  /\ slips \in 0..MaxSlips /\ crossed \in BOOLEAN /\ torn \subseteq Deal

ImageInit ==
  /\ object = "absent" /\ image = [d \in Deal |-> "none"] /\ request = [d \in Deal |-> NoRequest]
  /\ cleanup = [status |-> "none", tries |-> 0] /\ cleaner = [w \in Cleaner |-> NoClaim]
  /\ slips = 0 /\ crossed = FALSE /\ torn = {}

Listed == {d \in Deal : image[d] = "listed"}
Live == cleanup.status \in {"pending", "processing"}
\* uq_storage_cleanup_tasks_active_key: a live task takes in another request.
Booked == IF Live THEN cleanup ELSE [status |-> "pending", tries |-> 0]
Slip == slips < MaxSlips /\ slips' = slips + 1
During(d, kind, pc) == request[d].kind = kind /\ request[d].pc = pc
MoveTo(d, pc) == request' = [request EXCEPT ![d].pc = pc]
Done(d) == request' = [request EXCEPT ![d] = NoRequest]

\* Who takes away references, or acts on a judgement that there are none.
Removing == {d \in Deal : request[d].kind \in {"remove", "drop"}}
Cleaning == {w \in Cleaner : cleaner[w].pc # "idle"}
Copying == {d \in Deal : request[d].kind = "copy"}
\* A judgement by deal d (or, for d = {}, by a cleaner) made beside others.
Judged(by) ==
  /\ crossed' = (crossed \/ Removing \ by # {} \/ (by # {} /\ Cleaning # {}))
  /\ torn' = IF Listed \subseteq by THEN torn \cup Copying ELSE torn

-----------------------------------------------------------------------------
(* Upload.                                                                   *)

\* saveDealImage, under the advisory lock of the deal, before any row is written.
SaveImage(d) ==
  /\ object = "absent" /\ image[d] = "none" /\ request[d] = NoRequest
  /\ object' = "stored" /\ request' = [request EXCEPT ![d] = [kind |-> "upload", pc |-> "insert", shared |-> FALSE]]
  /\ UNCHANGED <<image, cleanup, cleaner, slips, crossed, torn>>

InsertImage(d) ==
  /\ During(d, "upload", "insert")
  /\ image' = [image EXCEPT ![d] = "listed"] /\ Done(d)
  /\ UNCHANGED <<object, cleanup, cleaner, slips, crossed, torn>>

\* The rows are refused: the file is deleted, or scheduled, or, if both fail, left.
\* A deletion that is not answered may have been executed.
InsertFails(d) ==
  /\ During(d, "upload", "insert") /\ Done(d)
  /\ \/ object' = "gone" /\ UNCHANGED <<cleanup, slips>>
     \/ cleanup' = Booked /\ object' \in {object, "gone"} /\ UNCHANGED slips
     \/ Slip /\ UNCHANGED <<object, cleanup>>
  /\ UNCHANGED <<image, cleaner, crossed, torn>>

-----------------------------------------------------------------------------
(* Duplicate of a deal: the copy of the rows and the commit, without a lock.  *)

CopyImage(d) ==
  /\ Listed # {} /\ image[d] = "none" /\ request[d] = NoRequest
  /\ request' = [request EXCEPT ![d] = [kind |-> "copy", pc |-> "commit", shared |-> FALSE]]
  /\ torn' = IF Listed \cap torn # {} \/ (\E e \in Removing : ~request[e].shared) THEN torn \cup {d} ELSE torn
  /\ UNCHANGED <<object, image, cleanup, cleaner, slips, crossed>>

CommitCopy(d) ==
  /\ During(d, "copy", "commit") /\ image' = [image EXCEPT ![d] = "listed"] /\ Done(d)
  /\ UNCHANGED <<object, cleanup, cleaner, slips, crossed, torn>>

-----------------------------------------------------------------------------
(* Removal of an image, and of a deal with its image.                        *)

\* Mutant of RemoveImage: the object is taken to be the deal's own.
RemoveUnshared(d) ==
  /\ image[d] = "listed" /\ request[d] = NoRequest
  /\ request' = [request EXCEPT ![d] = [kind |-> "remove", pc |-> "commit", shared |-> FALSE]]
  /\ Judged({d})
  /\ UNCHANGED <<object, image, cleanup, cleaner, slips>>
\* The row is deleted and the other references counted in one transaction.
RemoveImage(d) ==
  /\ image[d] = "listed" /\ request[d] = NoRequest
  /\ request' = [request EXCEPT ![d] = [kind |-> "remove", pc |-> "commit", shared |-> Listed # {d}]]
  /\ Judged({d})
  /\ UNCHANGED <<object, image, cleanup, cleaner, slips>>

CommitRemoval(d) ==
  /\ During(d, "remove", "commit")
  /\ image' = [image EXCEPT ![d] = "removed"]
  /\ IF request[d].shared THEN Done(d) ELSE MoveTo(d, "delete")
  /\ UNCHANGED <<object, cleanup, cleaner, slips, crossed, torn>>

\* After the commit: the file is deleted, or scheduled, or neither.
DeleteFile(d) ==
  /\ During(d, "remove", "delete") /\ Done(d)
  /\ \/ object' = "gone" /\ UNCHANGED <<cleanup, slips>>
     \/ cleanup' = Booked /\ object' \in {object, "gone"} /\ UNCHANGED slips
     \/ Slip /\ UNCHANGED <<object, cleanup>>
  /\ UNCHANGED <<image, cleaner, crossed, torn>>

DropDeal(d) ==
  /\ image[d] = "listed" /\ request[d] = NoRequest
  /\ request' = [request EXCEPT ![d] = [kind |-> "drop", pc |-> IF Listed = {d} THEN "enqueue" ELSE "commit",
                                        shared |-> Listed # {d}]]
  /\ Judged({d})
  /\ UNCHANGED <<object, image, cleanup, cleaner, slips>>

\* enqueueStorageCleanupTask takes a connection of its own: the task is there
\* before the deal is deleted, and whether or not it is.
ScheduleCleanup(d) ==
  /\ During(d, "drop", "enqueue") /\ cleanup' = Booked /\ MoveTo(d, "commit")
  /\ crossed' = (crossed \/ Cleaning # {})
  /\ UNCHANGED <<object, image, cleaner, slips, torn>>

CommitDrop(d) ==
  /\ During(d, "drop", "commit") /\ Done(d)
  /\ image' \in {image, [image EXCEPT ![d] = "removed"]}
  /\ UNCHANGED <<object, cleanup, cleaner, slips, crossed, torn>>

\* The server dies: an open transaction is rolled back, nothing else is undone.
RequestDies(d) ==
  /\ request[d] # NoRequest /\ Slip /\ Done(d)
  /\ UNCHANGED <<object, image, cleanup, cleaner, crossed, torn>>

-----------------------------------------------------------------------------
(* processStorageCleanupBatch                                                *)

\* A task that is pending, or whose claim is older than the lease.  The claims
\* of an earlier row compare with that row: for this one they are at 0.
ClaimTask(w) ==
  /\ cleaner[w].pc = "idle" /\ Live
  /\ IF cleanup.status = "processing" /\ \E v \in Cleaner : cleaner[v].pc # "idle" /\ cleaner[v].try = cleanup.tries
     THEN Slip ELSE UNCHANGED slips
  /\ cleanup' = [status |-> "processing", tries |-> cleanup.tries + 1]
  /\ cleaner' = [v \in Cleaner |-> IF v = w THEN [pc |-> "judge", try |-> cleanup.tries + 1]
                                 ELSE IF cleanup.tries = 0 THEN [cleaner[v] EXCEPT !.try = 0] ELSE cleaner[v]]
  /\ UNCHANGED <<object, image, request, crossed, torn>>

JudgeReferences(w) ==
  /\ cleaner[w].pc = "judge"
  /\ cleaner' = [cleaner EXCEPT ![w].pc = IF Listed = {} THEN "delete" ELSE "ack"]
  /\ Judged({})
  /\ UNCHANGED <<object, image, request, cleanup, slips>>

DeleteObject(w) ==
  /\ cleaner[w].pc = "delete"
  /\ \/ object' = "gone" /\ cleaner' = [cleaner EXCEPT ![w].pc = "ack"]
     \/ object' \in {object, "gone"} /\ cleaner' = [cleaner EXCEPT ![w].pc = "fail"]
  /\ UNCHANGED <<image, request, cleanup, slips, crossed, torn>>

\* status = 'processing' AND attempt_count = mine
Fenced(w) == cleanup.status = "processing" /\ cleanup.tries = cleaner[w].try

EndTask(w) ==
  /\ cleaner[w].pc \in {"ack", "fail"}
  /\ LET verdict == IF cleaner[w].pc = "ack" THEN "completed"
                    ELSE IF cleaner[w].try >= MaxTries THEN "failed" ELSE "pending"
     IN cleanup' = IF Fenced(w) THEN [cleanup EXCEPT !.status = verdict] ELSE cleanup
  /\ cleaner' = [cleaner EXCEPT ![w] = NoClaim]
  /\ UNCHANGED <<object, image, request, slips, crossed, torn>>

CleanerDies(w) ==
  /\ cleaner[w].pc # "idle" /\ Slip /\ cleaner' = [cleaner EXCEPT ![w] = NoClaim]
  /\ UNCHANGED <<object, image, request, cleanup, crossed, torn>>

ImageNext ==
  \/ \E d \in Deal :
       \/ SaveImage(d) \/ InsertImage(d) \/ InsertFails(d) \/ CopyImage(d) \/ CommitCopy(d)
       \/ RemoveImage(d) \/ CommitRemoval(d) \/ DeleteFile(d)
       \/ DropDeal(d) \/ ScheduleCleanup(d) \/ CommitDrop(d) \/ RequestDies(d)
  \/ \E w \in Cleaner : ClaimTask(w) \/ JudgeReferences(w) \/ DeleteObject(w) \/ EndTask(w) \/ CleanerDies(w)

ImageSpec == ImageInit /\ [][ImageNext]_imageVars

-----------------------------------------------------------------------------
(* Properties.                                                               *)

\* No deal shows an image whose object is gone, whatever fails or dies, except
\* one that was copied while the last reference was being taken away; and once
\* nothing is under way an object without a reference is gone, unless a process
\* died, the cleanup gave up with a record, or two judged at the same time (the
\* comment at 5320: only when no row references it any more; and at 6817:
\* removed via the canonical cleanup rail).
AllQuiet == ~Live /\ Cleaning = {} /\ \A d \in Deal : request[d] = NoRequest
ImagesHaveObjects ==
  /\ \A d \in Listed : object = "stored" \/ d \in torn
  /\ AllQuiet /\ Listed = {} /\ object = "stored" => slips > 0 \/ cleanup.status = "failed" \/ crossed
=============================================================================
