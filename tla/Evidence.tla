------------------------------ MODULE Evidence ------------------------------
(***************************************************************************)
(* The photos and the sketch of one report, from upload to seal: POST and  *)
(* DELETE photos and POST sketch (routes/uploads.js), the patch with which *)
(* the phone announces the sketch it has uploaded (steps/sketch_step.dart, *)
(* sockets/session.socket.js), the GridFS files behind them                *)
(* (services/storage.service.js), what the PDF shows of them               *)
(* (services/pdf.service.js), and what the finalize pipeline collects and  *)
(* anchors (services/finalize.service.js, whose other failures are module  *)
(* Finalize's).                                                            *)
(*                                                                         *)
(* None of the upload routes is serialized: a request works on the copy of *)
(* the report its guard loaded, across the reception of its body and every *)
(* call to GridFS.  A file is named after the request that uploads it, and *)
(* its content, hence its hash, is the file itself until it is overwritten.*)
(***************************************************************************)
EXTENDS Naturals, FiniteSets, ReportStatus

CONSTANTS Photos,       \* POST photos requests
          Sketches,     \* POST sketch requests
          Deletes,      \* DELETE photos/:fileId requests
          Pdf,          \* the generated PDF
          None,         \* no file, no bundle
          MaxFailures   \* bound: awaited calls that reject, and server restarts

ASSUME EvidenceAssumption ==
         /\ MaxFailures \in Nat
         /\ IsFiniteSet(Photos \cup Sketches)
         /\ Photos \cap Sketches = {} /\ (Photos \cup Sketches) \cap Deletes = {}
         /\ Pdf \notin Photos \cup Sketches \cup Deletes
         /\ None \notin Photos \cup Sketches \cup {Pdf}
         /\ \A bundle \in SUBSET (Photos \cup Sketches) : None # bundle

VARIABLES report,      \* the Report document, as stored
          blobs,       \* GridFS: the content of each file, None if absent
          record,      \* what the registry contract holds for the report
          pc,          \* the next awaited call of each request
          copy,        \* the report as each request loaded it
          target,      \* the photo each DELETE names
          attempt,     \* the next awaited call of the finalize pipeline
          draft,       \* the report as the pipeline loaded it
          unread,      \* attachments the pipeline has not read yet
          drawn,       \* attachments shown in the PDF it generated
          collected,   \* attachments it has hashed
          accepted,    \* ghost: photos answered 201 and not deleted since
          revived,     \* ghost: sketches set by a patch that found another one
          late,        \* ghost: was a request past the guard when the report locked?
          skipped,     \* ghost: did the pipeline fail to read a stored attachment?
          failures

requests == <<pc, copy, target>>
pipeline == <<attempt, draft, unread, drawn, collected>>
ghosts == <<accepted, revived, late, skipped>>
vars == <<report, blobs, record, requests, pipeline, ghosts, failures>>

-----------------------------------------------------------------------------
Requests == Photos \cup Sketches \cup Deletes
Attachments == Photos \cup Sketches
Files == Attachments \cup {Pdf}

Report == [status : {"waiting", "signing", "finalizing", "sealed"},
           photos : SUBSET Photos,
           sketch : Sketches \cup {None},
           hashes : SUBSET Attachments,               \* attachmentHashes
           bundle : (SUBSET Attachments) \cup {None},   \* pdf and bundleHash
           v : Nat]                                   \* Mongoose's __v

(* Everything collectAttachmentHashes looks at.                             *)
Listed(r) == r.photos \cup ({r.sketch} \ {None})

Locked(r) == r.status \in LOCKED_STATUSES

Init ==
  /\ report = [status |-> "waiting", photos |-> {}, sketch |-> None,
               hashes |-> {}, bundle |-> None, v |-> 0]
  /\ blobs = [f \in Files |-> None]
  /\ record = None
  /\ pc = [r \in Requests |-> "new"]
  /\ copy = [r \in Requests |-> None]
  /\ target = [r \in Deletes |-> None]
  /\ attempt = "idle"
  /\ draft = None
  /\ unread = {}
  /\ drawn = {}
  /\ collected = {}
  /\ accepted = {}
  /\ revived = {}
  /\ late = FALSE
  /\ skipped = FALSE
  /\ failures = 0

Goto(r, step) == /\ pc' = [pc EXCEPT ![r] = step]
                 /\ UNCHANGED <<copy, target>>

Done(r) == /\ pc' = [pc EXCEPT ![r] = "done"]
           /\ copy' = [copy EXCEPT ![r] = None]
           /\ target' = [d \in Deletes |-> IF d = r THEN None ELSE target[d]]

(* A sketch's upload is answered 201, and the phone may announce it.        *)
Answered(r) == /\ pc' = [pc EXCEPT ![r] = "announce"]
               /\ copy' = [copy EXCEPT ![r] = None]
               /\ UNCHANGED target

-----------------------------------------------------------------------------
(* requireUnsealedReport; a DELETE then looks its photo up in the copy.     *)
Guard(r) ==
  /\ pc[r] = "new"
  /\ \/ Locked(report) /\ Done(r)
     \/ /\ ~Locked(report)
        /\ r \in Attachments
        /\ pc' = [pc EXCEPT ![r] = "store"]
        /\ copy' = [copy EXCEPT ![r] = report]
        /\ UNCHANGED target
     \/ /\ ~Locked(report)
        /\ r \in Deletes
        /\ \E f \in report.photos :
             /\ target' = [target EXCEPT ![r] = f]
             /\ pc' = [pc EXCEPT ![r] = "drop"]
             /\ copy' = [copy EXCEPT ![r] = report]
  /\ UNCHANGED <<report, blobs, record, pipeline, ghosts, failures>>

(* The file a request makes redundant. *)
Replaced(r) == IF r \in Deletes THEN target[r] ELSE copy[r].sketch

(* The body has arrived and the new file is in GridFS. *)
Store(r) ==
  /\ pc[r] = "store"
  /\ blobs' = [blobs EXCEPT ![r] = r]
  /\ Goto(r, IF r \in Sketches /\ Replaced(r) # None THEN "drop" ELSE "save")
  /\ UNCHANGED <<report, record, pipeline, ghosts, failures>>

(* replaceAttachment deletes the file before anything is saved.             *)
Drop(r) ==
  /\ pc[r] = "drop"
  /\ blobs' = [blobs EXCEPT ![Replaced(r)] = None]
  /\ Goto(r, "save")
  /\ UNCHANGED <<report, record, pipeline, ghosts, failures>>

(* A DELETE that fails is only logged. *)
DropFails(r) ==
  /\ pc[r] = "drop"
  /\ failures < MaxFailures
  /\ failures' = failures + 1
  /\ Goto(r, "save")
  /\ UNCHANGED <<report, blobs, record, pipeline, ghosts>>

(* Mutant: the list is written back as a whole, with no version check. *)
SavePhotoWhole(r) ==
  /\ r \in Photos
  /\ pc[r] = "save"
  /\ report' = [report EXCEPT !.photos = copy[r].photos \cup {r},
                              !.hashes = copy[r].hashes \cup {r}, !.v = @ + 1]
  /\ accepted' = accepted \cup {r}
  /\ Done(r)
  /\ UNCHANGED <<blobs, record, pipeline, revived, late, skipped, failures>>

(* POST photos: both lists are pushed to, whatever else has changed.        *)
SavePhoto(r) ==
  /\ r \in Photos
  /\ pc[r] = "save"
  /\ report' = [report EXCEPT !.photos = @ \cup {r}, !.hashes = @ \cup {r}, !.v = @ + 1]
  /\ accepted' = accepted \cup {r}
  /\ Done(r)
  /\ UNCHANGED <<blobs, record, pipeline, revived, late, skipped, failures>>

(* DELETE: both lists are assigned, so the save carries the version loaded. *)
SaveDelete(r) ==
  /\ r \in Deletes
  /\ pc[r] = "save"
  /\ IF copy[r].v # report.v
       THEN UNCHANGED <<report, accepted>>          \* VersionError
       ELSE /\ report' = [report EXCEPT !.photos = copy[r].photos \ {target[r]},
                                        !.hashes = copy[r].hashes \ {target[r]},
                                        !.v = @ + 1]
            /\ accepted' = accepted \ {target[r]}
  /\ Done(r)
  /\ UNCHANGED <<blobs, record, pipeline, revived, late, skipped, failures>>

(* Mutant: the old sketch's entry goes, and the new one's is forgotten. *)
SaveSketchUnhashed(r) ==
  /\ r \in Sketches
  /\ pc[r] = "save"
  /\ report' = [report EXCEPT !.sketch = r, !.hashes = @ \ {Replaced(r)}, !.v = @ + 1]
  /\ Answered(r)
  /\ UNCHANGED <<blobs, record, pipeline, ghosts, failures>>

(* POST sketch: a first one is pushed to attachmentHashes, one that replaces *)
(* another assigns that list, under the version loaded.                      *)
SaveSketch(r) ==
  /\ r \in Sketches
  /\ pc[r] = "save"
  /\ \/ /\ Replaced(r) = None
        /\ report' = [report EXCEPT !.sketch = r, !.hashes = @ \cup {r}, !.v = @ + 1]
        /\ Answered(r)
     \/ /\ Replaced(r) # None
        /\ IF copy[r].v # report.v
             THEN UNCHANGED report /\ Done(r)         \* VersionError
             ELSE /\ report' = [report EXCEPT
                                  !.sketch = r,
                                  !.hashes = (copy[r].hashes \ {Replaced(r)}) \cup {r},
                                  !.v = @ + 1]
                  /\ Answered(r)
  /\ UNCHANGED <<blobs, record, pipeline, ghosts, failures>>

(* The user has left the sketch step, or the socket is not joined: no patch. *)
SkipAnnounce(r) ==
  /\ pc[r] = "announce"
  /\ Done(r)
  /\ UNCHANGED <<report, blobs, record, pipeline, ghosts, failures>>

(* report:patch of sketch.fileId, one at a time (withReportLock): the report *)
(* is loaded and a locked one refuses it,                                    *)
LoadAnnounced(r) ==
  /\ pc[r] = "announce"
  /\ \A q \in Sketches : pc[q] # "patch"
  /\ IF Locked(report)
       THEN Done(r)
       ELSE /\ pc' = [pc EXCEPT ![r] = "patch"]
            /\ copy' = [copy EXCEPT ![r] = report]
            /\ UNCHANGED target
  /\ UNCHANGED <<report, blobs, record, pipeline, ghosts, failures>>

(* then the id is set, unless the copy has it already, and saved.            *)
SaveAnnounced(r) ==
  /\ pc[r] = "patch"
  /\ IF copy[r].sketch = r
       THEN UNCHANGED <<report, revived>>
       ELSE report' = [report EXCEPT !.sketch = r] /\ revived' = revived \cup {r}
  /\ Done(r)
  /\ UNCHANGED <<blobs, record, pipeline, accepted, late, skipped, failures>>

(* storeBuffer or save rejects: the request is answered 500. *)
CallRejects(r) ==
  /\ pc[r] \in {"store", "save", "patch"}
  /\ failures < MaxFailures
  /\ failures' = failures + 1
  /\ Done(r)
  /\ UNCHANGED <<report, blobs, record, pipeline, ghosts>>

-----------------------------------------------------------------------------
(* maybeLockReport, once both parties have signed off (module SignOff).     *)
Lock ==
  /\ report.status = "waiting"
  /\ report' = [report EXCEPT !.status = "signing"]
  /\ late' = (\E r \in Requests : pc[r] \notin {"new", "announce", "done"})
  /\ UNCHANGED <<blobs, record, requests, pipeline, accepted, revived, skipped, failures>>

(* Mutant: every attempt starts over, whatever an earlier one has stored. *)
LoadToStartOver ==
  /\ attempt = "idle"
  /\ report.status \in {"signing", "finalizing"}
  /\ draft' = report
  /\ attempt' = "lock"
  /\ UNCHANGED <<report, blobs, record, requests, unread, drawn, collected, ghosts, failures>>

(* runFinalize loads the report: a first attempt goes on to lock it and to  *)
(* generate and store the PDF, a retry goes straight to the chain.          *)
LoadToFinalize ==
  /\ attempt = "idle"
  /\ report.status \in {"signing", "finalizing"}
  /\ draft' = report
  /\ attempt' = IF report.status = "finalizing" /\ report.bundle # None THEN "anchor" ELSE "lock"
  /\ UNCHANGED <<report, blobs, record, requests, unread, drawn, collected, ghosts, failures>>

(* Step 2. *)
SaveFinalizing ==
  /\ attempt = "lock"
  /\ report' = [report EXCEPT !.status = "finalizing"]
  /\ attempt' = "pdf"
  /\ UNCHANGED <<blobs, record, requests, draft, unread, drawn, collected, ghosts, failures>>

(* Mutant: an attachment that is missing counts as read. *)
ReadableMissing(fs, got) == got = fs /\ UNCHANGED <<skipped, failures>>

(* getFileBuffer on each of these files: what is stored is got, unless its   *)
(* read fails.  Both readers of the pipeline take whatever getFileBuffer     *)
(* throws for a file that is missing.                                        *)
Readable(fs, got) ==
  LET stored == {f \in fs : blobs[f] # None}
  IN  \E failing \in SUBSET stored :
        /\ failures + Cardinality(failing) <= MaxFailures
        /\ failures' = failures + Cardinality(failing)
        /\ skipped' = (skipped \/ failing # {})
        /\ got = stored \ failing

(* Step 3, generateReportPdf, which fetches everything at once (here: at one *)
(* instant): what was not read becomes a placeholder.                        *)
GeneratePdf ==
  /\ attempt = "pdf"
  /\ drawn' \in SUBSET Listed(draft)
  /\ Readable(Listed(draft), drawn')
  /\ attempt' = "store"
  /\ UNCHANGED <<report, blobs, record, requests, draft, unread, collected,
                 accepted, revived, late>>

(* Mutant: a report without a sketch has its missing file id collected. *)
StorePdfNoSketch ==
  /\ attempt = "store"
  /\ blobs' = [blobs EXCEPT ![Pdf] = Pdf]
  /\ unread' = draft.photos \cup {draft.sketch}
  /\ collected' = {}
  /\ attempt' = "collect"
  /\ UNCHANGED <<report, record, requests, draft, drawn, ghosts, failures>>

(* Steps 4 and 5: the PDF is hashed and stored. *)
StorePdf ==
  /\ attempt = "store"
  /\ blobs' = [blobs EXCEPT ![Pdf] = Pdf]
  /\ unread' = Listed(draft)
  /\ collected' = {}
  /\ attempt' = "collect"
  /\ UNCHANGED <<report, record, requests, draft, drawn, ghosts, failures>>

(* Mutant: the entries accumulated in attachmentHashes are trusted. *)
CollectTrusting(f) ==
  /\ attempt = "collect"
  /\ f \in unread
  /\ unread' = unread \ {f}
  /\ collected' = collected \cup ({f} \cap draft.hashes)
  /\ UNCHANGED <<report, blobs, record, requests, attempt, draft, drawn, ghosts, failures>>

(* Step 6: collectAttachmentHashes reads one file after the other and skips  *)
(* what it cannot read.                                                      *)
Collect(f) ==
  /\ attempt = "collect"
  /\ f \in unread
  /\ unread' = unread \ {f}
  /\ \E got \in {{}, {f}} : Readable({f}, got) /\ collected' = collected \cup got
  /\ UNCHANGED <<report, blobs, record, requests, attempt, draft, drawn,
                 accepted, revived, late>>

(* attachmentHashes, pdf and bundleHash are saved; if the new list differs  *)
(* from the one loaded, in content or in order, under the version loaded.   *)
SaveBundle ==
  /\ attempt = "collect"
  /\ unread = {}
  /\ \E reordered \in BOOLEAN :
       LET assigned == reordered \/ collected # draft.hashes
       IN  IF assigned /\ draft.v # report.v
             THEN attempt' = "idle" /\ UNCHANGED report      \* VersionError
             ELSE /\ report' = [report EXCEPT
                                  !.bundle = collected,
                                  !.hashes = IF assigned THEN collected ELSE @,
                                  !.v = IF assigned THEN @ + 1 ELSE @]
                  /\ attempt' = "anchor"
  /\ draft' = None
  /\ collected' = {}
  /\ UNCHANGED <<blobs, record, requests, unread, drawn, ghosts, failures>>

(* anchorReport, to the receipt. *)
Anchor ==
  /\ attempt = "anchor"
  /\ IF record # None
       THEN attempt' = "idle" /\ UNCHANGED record            \* already anchored
       ELSE attempt' = "seal" /\ record' = report.bundle
  /\ draft' = None
  /\ UNCHANGED <<report, blobs, requests, unread, drawn, collected, ghosts, failures>>

(* Step 10: the chain record and the sealed status, in one save.            *)
SaveSealed ==
  /\ attempt = "seal"
  /\ report' = [report EXCEPT !.status = "sealed"]
  /\ attempt' = "idle"
  /\ UNCHANGED <<blobs, record, requests, draft, unread, drawn, collected, ghosts, failures>>

(* The process restarts: every request and the pipeline are lost; what a     *)
(* phone has not sent yet it may still send.                                 *)
Crash ==
  /\ failures < MaxFailures
  /\ failures' = failures + 1
  /\ pc' = [r \in Requests |-> IF pc[r] \in {"new", "announce"} THEN pc[r] ELSE "done"]
  /\ copy' = [r \in Requests |-> None]
  /\ target' = [r \in Deletes |-> None]
  /\ attempt' = "idle"
  /\ draft' = None
  /\ unread' = {}
  /\ collected' = {}
  /\ UNCHANGED <<report, blobs, record, drawn, ghosts>>

Next == \/ \E r \in Requests : \/ Guard(r) \/ Store(r) \/ Drop(r) \/ DropFails(r)
                               \/ SavePhoto(r) \/ SaveDelete(r) \/ SaveSketch(r)
                               \/ SkipAnnounce(r) \/ LoadAnnounced(r) \/ SaveAnnounced(r)
                               \/ CallRejects(r)
        \/ Lock
        \/ LoadToFinalize \/ SaveFinalizing \/ GeneratePdf \/ StorePdf \/ SaveBundle \/ Anchor \/ SaveSealed
        \/ \E f \in Attachments : Collect(f)
        \/ Crash

Spec == Init /\ [][Next]_vars

-----------------------------------------------------------------------------
TypeOK ==
  /\ report \in Report
  /\ blobs \in [Files -> Files \cup {None}]
  /\ record \in (SUBSET Attachments) \cup {None}
  /\ pc \in [Requests -> {"new", "store", "drop", "save", "announce", "patch", "done"}]
  /\ copy \in [Requests -> Report \cup {None}]
  /\ target \in [Deletes -> Photos \cup {None}]
  /\ attempt \in {"idle", "lock", "pdf", "store", "collect", "anchor", "seal"}
  /\ draft \in Report \cup {None}
  /\ unread \subseteq Attachments
  /\ drawn \subseteq Attachments
  /\ collected \subseteq Attachments
  /\ accepted \subseteq Photos
  /\ revived \subseteq Sketches
  /\ {late, skipped} \subseteq BOOLEAN
  /\ failures \in Nat

(* A photo whose upload was answered 201 stays on the report until somebody *)
(* deletes it: no concurrent upload, DELETE or finalize loses it.           *)
AcceptedPhotoStays == accepted \subseteq report.photos

(* Until the report is finalized, every photo and the sketch it lists have   *)
(* their entry in attachmentHashes, whichever requests raced; only a sketch  *)
(* announced after another one replaced it may have none.                    *)
EvidenceIsHashed ==
  report.bundle = None => Listed(report) \ revived \subseteq report.hashes

(* A report that no upload or DELETE outlived the lock of is sealed intact:  *)
(* the hashes it stores are those on the chain, and every file they name is  *)
(* the one uploaded, even if earlier requests failed or raced and left the   *)
(* report with files that are missing.                                       *)
SealedIsIntact ==
  report.status = "sealed" /\ ~late =>
    /\ report.hashes = record
    /\ \A f \in record \cup {Pdf} : blobs[f] = f

(* If the pipeline moreover could read what is stored, the seal covers every *)
(* listed attachment that has a file, and the PDF shows exactly these.       *)
SealCoversWhatIsShown ==
  report.status = "sealed" /\ ~late /\ ~skipped =>
    /\ record = {f \in Listed(report) : blobs[f] # None}
    /\ drawn = record

(* Whatever the uploads do meanwhile, the report lives as SealedReport says:  *)
(* one bundle is stored, once, by the attempt whose save the version accepts; *)
(* it alone is anchored, once; and the seal follows the anchor.               *)
Life == INSTANCE SealedReport WITH Payload <- SUBSET Attachments,
                                   stored <- report.bundle,
                                   anchored <- record,
                                   sealed <- report.status = "sealed"

ImplementsLife == Life!Spec

=============================================================================
