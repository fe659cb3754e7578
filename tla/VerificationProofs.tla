------------------------- MODULE VerificationProofs -------------------------
(***************************************************************************)
(* For any uploads, files that are replaced and calls that fail: VERIFIED  *)
(* is said only of anchored files that hold the bytes that were anchored,  *)
(* and always of an untouched report that no request outlived the lock of, *)
(* if the verification's own calls succeed.                                *)
(*                                                                         *)
(* The script may be at work while the report is filled in and finalized,  *)
(* so nothing is said of what the files hold but that a photo which was    *)
(* replaced never holds its own bytes again, and that a file without a     *)
(* hash in the bundle is missing for good.                                 *)
(***************************************************************************)
EXTENDS Verification, EvidenceProofs

Steps == {"new", "store", "drop", "save", "announce", "patch", "done"}

Busy == {"store", "drop", "save", "patch"}

Typed ==
  /\ report \in Report
  /\ pc \in [Requests -> Steps]
  /\ copy \in [Requests -> Report \cup {None}]
  /\ \A r \in Requests : /\ pc[r] \in Busy => copy[r] \in Report
                         /\ pc[r] \in {"announce", "patch"} => r \in Sketches
  /\ collected \in SUBSET Attachments
  /\ unread \in SUBSET Attachments
  /\ blobs \in [Files -> Bytes \cup {None}]
  /\ hashed \in [Files -> Bytes]
  /\ overwritten \in SUBSET Files
  /\ away \in BOOLEAN

(* The request that uploads a file has done so, and will not again. *)
Up(f) == f \in Attachments => pc[f] \notin {"new", "store"}

(* The script holds a photo, or a PDF the report names. *)
ScriptOK ==
  /\ script \in Script
  /\ script.step # "idle" => /\ script.file \in Photos \cup {Pdf}
                             /\ script.file = Pdf => report.bundle # None
                             /\ script.file # Pdf => script.bytes = Overwritten
  /\ script.step = "upload" => script.file \in overwritten /\ Up(script.file)

(* A file holds its own bytes, the script's or none, and what was hashed of *)
(* it was one of these; whatever is stored or hashed was uploaded before.   *)
FilesOK ==
  /\ \A f \in Files : /\ blobs[f] \in {f, Overwritten, None}
                      /\ hashed[f] \in {f, Overwritten}
                      /\ blobs[f] # None => Up(f)
  /\ hashed[Pdf] = Pdf
  /\ \A f \in collected : Up(f)
  /\ report.bundle # None => \A f \in report.bundle : Up(f)

(* The files whose hashes the pipeline has, or has stored. *)
InHand == (IF attempt = "collect" THEN collected \cup {Pdf} ELSE {})
            \cup (IF report.bundle = None THEN {} ELSE report.bundle \cup {Pdf})

(* A file that is not there, and that the script will not bring back. *)
Gone(f) == blobs[f] = None /\ ~(script.step = "upload" /\ script.file = f)

(* What the pipeline has hashed holds still until the script replaces it;   *)
Kept == \A f \in InHand \ overwritten : blobs[f] = hashed[f]

(* what it has not is missing.                                              *)
Missing ==
  ~skipped /\ ~away =>
    /\ attempt = "collect" => \A f \in Listed(report) \ (unread \cup collected) : Gone(f)
    /\ report.bundle # None => \A f \in Listed(report) \ report.bundle : Gone(f)

(* Behind a lock that nothing outlived. *)
QuietOK ==
  Quiet => /\ \A r \in Requests : pc[r] \in {"new", "announce", "done"}
           /\ DraftIsReport
           /\ report.bundle # None => report.hashes = report.bundle
           /\ Kept
           /\ Missing

(* What the report, the files and the script have come to. *)
Stage == Typed /\ PipelineOK /\ ScriptOK /\ FilesOK /\ QuietOK

(* A verification reads each file once; what it reads of an anchored file   *)
(* as it was hashed proves that file undamaged.                             *)
ReadOK ==
  \A e \in check.bundle :
    /\ e[2] \in {e[1], Overwritten}
    /\ e[1] \notin check.unread
    /\ \A d \in check.bundle : d[1] = e[1] => d = e
    /\ e[1] \in Covered /\ e[2] = hashed[e[1]] => e[1] \notin check.damaged

DamageOK ==
  /\ \A f \in check.damaged \cap Covered : blobs[f] # hashed[f]
  /\ check.pdf = Pdf => Pdf \notin check.damaged

(* If nothing outlived the lock, it reads what is anchored and nothing else. *)
ScopeOK ==
  ~late => /\ \A e \in check.bundle : e[1] \in Covered
           /\ check.unread \subseteq Covered
           /\ ~skipped /\ ~away => check.damaged \cap report.photos \subseteq Covered

Anchored == {<<f, hashed[f]>> : f \in record}

VerdictOK ==
  check.verdict = "VERIFIED" => /\ check.step = "done"
                                /\ check.pdf = Pdf
                                /\ record # None
                                /\ SameHashes(check.bundle, Anchored)

(* Only a sealed report is recomputed. *)
NothingRead == /\ check.step \in {"idle", "done"}
               /\ check.unread = {} /\ check.bundle = {} /\ check.pdf = None
               /\ check.damaged = {}

SealedOnly == check.step = "idle" \/ report.status # "sealed" => NothingRead

(* A verification of an untouched report recomputes what is on the chain.    *)
Recomputed ==
  overwritten = {} /\ ~late /\ check.reliable =>
    /\ check.step = "pdf" => check.bundle = {} /\ check.unread = record
    /\ check.step = "attachments" =>
         /\ check.pdf = Pdf
         /\ check.unread \subseteq record
         /\ check.bundle = {<<f, hashed[f]>> : f \in record \ check.unread}
    /\ check.step = "done" /\ check.pdf # None => check.verdict = "VERIFIED"

CheckOK == /\ check \in Check
           /\ ReadOK /\ DamageOK /\ ScopeOK /\ VerdictOK /\ SealedOnly /\ Recomputed

VerifyInv == Stage /\ CheckOK

-----------------------------------------------------------------------------
LEMMA KindsDiffer ==
  /\ \A r \in Photos : r \in Files /\ r \notin Sketches /\ r \notin Deletes /\ r # Pdf
  /\ \A r \in Sketches : r \in Files /\ r \notin Photos /\ r \notin Deletes /\ r # Pdf
  /\ \A r \in Deletes : r \notin Files
  /\ \A f \in Files : f # None /\ f # Overwritten /\ (f = Pdf \/ f \in Attachments)
  /\ Attachments \subseteq Requests /\ Attachments \subseteq Files /\ Pdf \notin Attachments
  /\ Pdf \notin Requests /\ Pdf \in Files /\ Overwritten # None
  BY EvidenceAssumption, OverwriteAssumption DEF Files, Attachments, Requests

(* Behind the seal, the bundle is on the chain. *)
LEMMA SealIsAnchored ==
  ASSUME Stage, report.status = "sealed"
  PROVE  /\ attempt = "idle" /\ report.bundle # None /\ record = report.bundle
         /\ record \in SUBSET Attachments /\ record # None
         /\ Covered = record \cup {Pdf} /\ Covered \subseteq Files
         /\ \A f \in Covered : Up(f)
         /\ ~late => /\ Quiet /\ report.hashes = record
                     /\ Kept /\ Missing
<1>1. attempt = "idle" /\ report.bundle # None /\ record = report.bundle
  BY DEF Stage, PipelineOK
<1>2. record \in SUBSET Attachments /\ record # None
  BY <1>1, ReportType DEF Stage, Typed
<1>3. Covered = record \cup {Pdf} /\ Covered \subseteq Files
  BY <1>2, KindsDiffer DEF Covered
<1>4. \A f \in Covered : Up(f)
  BY <1>1, <1>3, KindsDiffer DEF Stage, FilesOK, Up
<1>5. ~late => Quiet /\ report.hashes = record /\ Kept /\ Missing
  BY <1>1 DEF Stage, QuietOK, Quiet
<1> QED
  BY <1>1, <1>2, <1>3, <1>4, <1>5

-----------------------------------------------------------------------------
(* What a step of one request may do: it never takes a file back, and from   *)
(* behind the lock it does nothing to the report or the files.               *)
RequestMove(r) ==
  /\ pc[r] # "done"
  /\ pc' \in [Requests -> Steps]
  /\ copy' \in [Requests -> Report \cup {None}]
  /\ \A q \in Requests \ {r} : pc'[q] = pc[q] /\ copy'[q] = copy[q]
  /\ pc'[r] \in Busy => /\ ~Locked(report) \/ pc[r] \in Busy
                        /\ copy'[r] \in Report
  /\ pc'[r] \in {"announce", "patch"} => r \in Sketches
  /\ pc[r] \notin {"new", "store"} => pc'[r] \notin {"new", "store"}

ReportMove(r) ==
  /\ report' \in Report
  /\ report'.status = report.status /\ report'.bundle = report.bundle
  /\ pc[r] \notin Busy => UNCHANGED report

BlobMove(r) ==
  /\ blobs' \in [Files -> Bytes \cup {None}]
  /\ \A f \in Files : \/ blobs'[f] \in {blobs[f], None}
                      \/ /\ f = r /\ pc[r] = "store"
                         /\ blobs'[f] = f /\ pc'[f] \notin {"new", "store"}
  /\ pc[r] \notin Busy => UNCHANGED blobs

LEMMA GotoIs ==
  ASSUME Typed, NEW r \in Requests, pc[r] \in Busy,
         NEW s \in {"drop", "save"}, Goto(r, s)
  PROVE  RequestMove(r)
  BY DEF Typed, Steps, Busy, Goto, RequestMove

LEMMA DoneIs ==
  ASSUME Typed, NEW r \in Requests, pc[r] # "done", Done(r)
  PROVE  RequestMove(r) /\ pc'[r] = "done"
  BY DEF Typed, Steps, Busy, Done, RequestMove

LEMMA AnsweredIs ==
  ASSUME Typed, NEW r \in Requests, r \in Sketches, pc[r] # "done", Answered(r)
  PROVE  RequestMove(r)
  BY DEF Typed, Steps, Busy, Answered, RequestMove

LEMMA LoadsIs ==
  ASSUME Typed, NEW r \in Requests, pc[r] # "done", NEW s \in Busy, ~Locked(report),
         s = "patch" => r \in Sketches, s = "store" => pc[r] = "new",
         pc' = [pc EXCEPT ![r] = s], copy' = [copy EXCEPT ![r] = report]
  PROVE  RequestMove(r)
  BY DEF Typed, Steps, Busy, RequestMove

LEMMA ReportStays ==
  ASSUME Typed, NEW r \in Requests, UNCHANGED report
  PROVE  ReportMove(r)
  BY DEF Typed, ReportMove

LEMMA BlobsStay ==
  ASSUME Typed, NEW r \in Requests, UNCHANGED blobs
  PROVE  BlobMove(r)
  BY DEF Typed, BlobMove

LEMMA RequestSteps ==
  ASSUME Typed, NEW r \in Requests, RequestStep(r)
  PROVE  /\ RequestMove(r) /\ ReportMove(r) /\ BlobMove(r)
         /\ UNCHANGED <<record, attempt, draft, unread, collected, late, skipped>>
<1>1. CASE Guard(r)
  <2>1. RequestMove(r)
    <3>1. pc[r] # "done"
      BY <1>1 DEF Guard
    <3> QED
      BY <1>1, <3>1, DoneIs, LoadsIs DEF Guard, Busy
  <2> QED
    BY <1>1, <2>1, ReportStays, BlobsStay DEF Guard, pipeline, ghosts
<1>2. CASE Store(r)
  <2>0. pc'[r] \in {"drop", "save"}
    BY <1>2 DEF Store, Goto, Typed
  <2>1. RequestMove(r)
    BY <1>2, GotoIs DEF Store, Busy
  <2>2. BlobMove(r)
    <3>1. pc[r] = "store" /\ blobs' = [blobs EXCEPT ![r] = r]
      BY <1>2 DEF Store
    <3> QED
      BY <3>1, <2>0, KindsDiffer DEF Typed, BlobMove, Bytes, Busy
  <2> QED
    BY <1>2, <2>1, <2>2, ReportStays DEF Store, pipeline, ghosts
<1>3. CASE Drop(r)
  <2>1. RequestMove(r)
    BY <1>3, GotoIs DEF Drop, Busy
  <2>2. BlobMove(r)
    <3> DEFINE old == Replaced(r)
    <3>1. blobs' = [blobs EXCEPT ![old] = None]
      BY <1>3 DEF Drop
    <3> HIDE DEF old
    <3> QED
      BY <1>3, <3>1 DEF Drop, Typed, BlobMove, Busy
  <2> QED
    BY <1>3, <2>1, <2>2, ReportStays DEF Drop, pipeline, ghosts
<1>4. CASE DropFails(r)
  BY <1>4, GotoIs, ReportStays, BlobsStay DEF DropFails, Busy, pipeline, ghosts
<1>5. CASE SavePhoto(r)
  <2>1. /\ r \in Photos /\ pc[r] = "save" /\ Done(r)
        /\ report' = [report EXCEPT !.photos = @ \cup {r}, !.hashes = @ \cup {r}, !.v = @ + 1]
        /\ UNCHANGED <<blobs, record, attempt, draft, unread, collected, late, skipped>>
    BY <1>5 DEF SavePhoto, pipeline
  <2>2. /\ report.photos \cup {r} \in SUBSET Photos
        /\ report.hashes \cup {r} \in SUBSET Attachments
        /\ report.v + 1 \in Nat
    BY <2>1, ReportType DEF Typed, Attachments
  <2>3. RequestMove(r) /\ pc'[r] = "done"
    BY <2>1, DoneIs
  <2>4. report' \in Report
    BY <2>1, <2>2, PhotosWrite DEF Typed
  <2>5. report'.status = report.status /\ report'.bundle = report.bundle
    BY <2>1 DEF Typed, Report
  <2> QED
    BY <2>1, <2>3, <2>4, <2>5, BlobsStay DEF ReportMove, Busy
<1>6. CASE SaveDelete(r)
  <2>0. /\ pc[r] = "save" /\ Done(r)
        /\ UNCHANGED <<blobs, record, attempt, draft, unread, collected, late, skipped>>
    BY <1>6 DEF SaveDelete, pipeline
  <2>1. copy[r] \in Report
    BY <2>0 DEF Typed, Busy
  <2>2. RequestMove(r)
    BY <2>0, DoneIs
  <2>3. CASE copy[r].v # report.v
    BY <1>6, <2>0, <2>2, <2>3, BlobsStay, ReportStays DEF SaveDelete
  <2>4. CASE copy[r].v = report.v
    <3>0. report' = [report EXCEPT !.photos = copy[r].photos \ {target[r]},
                                   !.hashes = copy[r].hashes \ {target[r]},
                                   !.v = @ + 1]
      BY <1>6, <2>4 DEF SaveDelete
    <3>1. /\ copy[r].photos \ {target[r]} \in SUBSET Photos
          /\ copy[r].hashes \ {target[r]} \in SUBSET Attachments
          /\ report.v + 1 \in Nat
      BY <2>1, ReportType DEF Typed
    <3>2. report' \in Report
      BY <3>0, <3>1, PhotosWrite DEF Typed
    <3>3. report'.status = report.status /\ report'.bundle = report.bundle
      BY <3>0 DEF Typed, Report
    <3> QED
      BY <2>0, <2>2, <3>2, <3>3, BlobsStay DEF ReportMove, Busy
  <2> QED
    BY <2>3, <2>4
<1>7. CASE SaveSketch(r)
  <2>1. /\ r \in Sketches /\ pc[r] = "save"
        /\ UNCHANGED <<blobs, record, attempt, draft, unread, collected, late, skipped>>
        /\ Answered(r) \/ Done(r)
    BY <1>7 DEF SaveSketch, pipeline, ghosts
  <2>2. RequestMove(r) /\ copy[r] \in Report
    BY <2>1, DoneIs, AnsweredIs DEF Typed, Busy
  <2>3. ASSUME NEW h \in SUBSET Attachments,
               report' = [report EXCEPT !.sketch = r, !.hashes = h, !.v = @ + 1]
        PROVE  ReportMove(r)
    <3>1. report.v + 1 \in Nat
      BY ReportType DEF Typed
    <3>2. report' \in Report
      BY <2>1, <2>3, <3>1, SketchWrite DEF Typed
    <3>3. report'.status = report.status /\ report'.bundle = report.bundle
      BY <2>3 DEF Typed, Report
    <3> QED
      BY <2>1, <3>2, <3>3 DEF ReportMove, Busy
  <2>4. CASE Replaced(r) = None
    <3>1. report' = [report EXCEPT !.sketch = r, !.hashes = report.hashes \cup {r}, !.v = @ + 1]
      BY <1>7, <2>4 DEF SaveSketch
    <3>2. report.hashes \cup {r} \in SUBSET Attachments
      BY <2>1, ReportType DEF Typed, Attachments
    <3> QED
      BY <2>1, <2>2, <2>3, <3>1, <3>2, BlobsStay
  <2>5. CASE Replaced(r) # None /\ copy[r].v # report.v
    <3>1. UNCHANGED report
      BY <1>7, <2>5 DEF SaveSketch
    <3> QED
      BY <2>1, <2>2, <3>1, BlobsStay, ReportStays
  <2>6. CASE Replaced(r) # None /\ copy[r].v = report.v
    <3>1. report' = [report EXCEPT !.sketch = r,
                                   !.hashes = (copy[r].hashes \ {Replaced(r)}) \cup {r},
                                   !.v = @ + 1]
      BY <1>7, <2>6 DEF SaveSketch
    <3>2. (copy[r].hashes \ {Replaced(r)}) \cup {r} \in SUBSET Attachments
      BY <2>1, <2>2, ReportType DEF Attachments
    <3> QED
      BY <2>1, <2>2, <2>3, <3>1, <3>2, BlobsStay
  <2> QED
    BY <2>4, <2>5, <2>6
<1>8. CASE SkipAnnounce(r) \/ CallRejects(r)
  <2>1. /\ pc[r] # "done" /\ Done(r)
        /\ UNCHANGED <<report, blobs, record, attempt, draft, unread, collected, late, skipped>>
    BY <1>8 DEF SkipAnnounce, CallRejects, pipeline, ghosts
  <2> QED
    BY <2>1, DoneIs, ReportStays, BlobsStay
<1>9. CASE LoadAnnounced(r)
  <2>1. RequestMove(r)
    BY <1>9, DoneIs, LoadsIs DEF LoadAnnounced, Busy, Typed
  <2> QED
    BY <1>9, <2>1, ReportStays, BlobsStay DEF LoadAnnounced, pipeline, ghosts
<1>10. CASE SaveAnnounced(r)
  <2>1. /\ pc[r] = "patch" /\ Done(r)
        /\ UNCHANGED <<blobs, record, attempt, draft, unread, collected, late, skipped>>
    BY <1>10 DEF SaveAnnounced, pipeline
  <2>2. RequestMove(r) /\ r \in Sketches
    BY <2>1, DoneIs DEF Typed
  <2>3. CASE copy[r].sketch # r
    <3>1. report' = [report EXCEPT !.sketch = r]
      BY <1>10, <2>3 DEF SaveAnnounced
    <3>2. report' \in Report
      BY <2>2, <3>1, SketchWrite DEF Typed
    <3>3. report'.status = report.status /\ report'.bundle = report.bundle
      BY <3>1 DEF Typed, Report
    <3> QED
      BY <2>1, <2>2, <3>2, <3>3, BlobsStay DEF ReportMove, Busy
  <2>4. CASE copy[r].sketch = r
    <3>1. UNCHANGED report
      BY <1>10, <2>4 DEF SaveAnnounced
    <3> QED
      BY <2>1, <2>2, <3>1, BlobsStay, ReportStays
  <2> QED
    BY <2>3, <2>4
<1> QED
  BY <1>1, <1>2, <1>3, <1>4, <1>5, <1>6, <1>7, <1>8, <1>9, <1>10 DEF RequestStep

-----------------------------------------------------------------------------
(* Steps that collect nothing leave what was hashed as it is, and the        *)
(* pipeline looks for no file.                                               *)
LEMMA NothingHashed ==
  ASSUME Typed, EvidenceStep, collected' \subseteq collected
  PROVE  hashed' = hashed
  BY DEF Typed, EvidenceStep

LEMMA AwayGrows ==
  ASSUME Typed, EvidenceStep
  PROVE  /\ away' \in BOOLEAN
         /\ ~away' => ~away
         /\ UNCHANGED <<check, script, overwritten>>
  BY DEF Typed, EvidenceStep, tampering

(* A verification that has recomputed nothing. *)
LEMMA NothingReadIsOK ==
  /\ check \in Check /\ NothingRead /\ check.verdict # "VERIFIED" => CheckOK
  /\ (check \in Check /\ NothingRead /\ check.verdict # "VERIFIED" => CheckOK)'
<1> USE KindsDiffer
<1>1. check \in Check /\ NothingRead /\ check.verdict # "VERIFIED" => CheckOK
  BY DEF CheckOK, ReadOK, DamageOK, ScopeOK, VerdictOK, SealedOnly, Recomputed, NothingRead
<1>2. (check \in Check /\ NothingRead /\ check.verdict # "VERIFIED" => CheckOK)'
  BY DEF CheckOK, ReadOK, DamageOK, ScopeOK, VerdictOK, SealedOnly, Recomputed, NothingRead
<1> QED
  BY <1>1, <1>2

LEMMA UnsealedIsUnread ==
  ASSUME CheckOK, report.status # "sealed", UNCHANGED check
  PROVE  CheckOK'
<1>1. check \in Check /\ NothingRead /\ check.verdict # "VERIFIED"
  BY KindsDiffer DEF CheckOK, SealedOnly, VerdictOK, NothingRead
<1>2. check' \in Check /\ NothingRead' /\ check'.verdict # "VERIFIED"
  BY <1>1 DEF NothingRead
<1> QED
  BY <1>2, NothingReadIsOK

(* A verification and the seal rest while neither files nor report move.     *)
LEMMA CheckRests ==
  ASSUME CheckOK, UNCHANGED <<check, record, hashed, overwritten, late>>,
         report' = report \/ late, report'.status = report.status,
         ~skipped' => ~skipped, ~away' => ~away,
         \A f \in check.damaged \cap Covered : blobs'[f] # hashed[f]
  PROVE  CheckOK'
<1>1. Covered' = Covered
  BY DEF Covered
<1>2. ReadOK' /\ DamageOK' /\ VerdictOK' /\ SealedOnly' /\ Recomputed' /\ check' \in Check
  BY <1>1 DEF CheckOK, ReadOK, DamageOK, VerdictOK, SealedOnly, NothingRead, Recomputed, Anchored, SameHashes
<1>3. ScopeOK'
  BY <1>1 DEF CheckOK, ScopeOK
<1> QED
  BY <1>2, <1>3 DEF CheckOK

-----------------------------------------------------------------------------
LEMMA RequestKeeps ==
  ASSUME VerifyInv, NEW r \in Requests, RequestStep(r), EvidenceStep
  PROVE  VerifyInv'
<1>1. /\ Typed /\ PipelineOK /\ ScriptOK /\ FilesOK /\ QuietOK /\ CheckOK
      /\ RequestMove(r) /\ ReportMove(r) /\ BlobMove(r)
      /\ UNCHANGED <<record, attempt, draft, unread, collected, late, skipped>>
  BY RequestSteps DEF VerifyInv, Stage
<1>2. /\ UNCHANGED <<check, script, overwritten, hashed>>
      /\ away' \in BOOLEAN /\ (~away' => ~away)
  BY <1>1, NothingHashed, AwayGrows
<1>3. Typed'
  <2>1. \A q \in Requests : pc'[q] \in Busy => copy'[q] \in Report
    BY <1>1 DEF Typed, RequestMove
  <2>2. \A q \in Requests : pc'[q] \in {"announce", "patch"} => q \in Sketches
    BY <1>1 DEF Typed, RequestMove
  <2>3. /\ pc' \in [Requests -> Steps] /\ copy' \in [Requests -> Report \cup {None}]
        /\ report' \in Report /\ blobs' \in [Files -> Bytes \cup {None}]
    BY <1>1 DEF RequestMove, ReportMove, BlobMove
  <2> QED
    BY <1>1, <1>2, <2>1, <2>2, <2>3 DEF Typed
<1>4. PipelineOK'
  BY <1>1 DEF PipelineOK, Preparing, ReportMove
<1>5. \A f \in Files : Up(f) => Up(f)'
  BY <1>1, KindsDiffer DEF Up, RequestMove
<1>6. ScriptOK'
  <2>1. script.step # "idle" => script.file \in Files
    BY <1>1, KindsDiffer DEF ScriptOK
  <2> QED
    BY <1>1, <1>2, <1>5, <2>1 DEF ScriptOK, ReportMove
<1>7. FilesOK'
  <2>1. \A f \in Files : blobs'[f] \in {f, Overwritten, None} /\ (blobs'[f] # None => Up(f)')
    <3> SUFFICES ASSUME NEW f \in Files
                 PROVE  blobs'[f] \in {f, Overwritten, None} /\ (blobs'[f] # None => Up(f)')
      OBVIOUS
    <3>1. CASE blobs'[f] \in {blobs[f], None}
      BY <1>1, <1>5, <3>1 DEF FilesOK
    <3>2. CASE blobs'[f] = f /\ pc'[f] \notin {"new", "store"}
      BY <3>2 DEF Up
    <3> QED
      BY <1>1, <3>1, <3>2 DEF BlobMove
  <2>2. \A f \in collected' : Up(f)'
    BY <1>1, <1>5, KindsDiffer DEF FilesOK, Typed
  <2>3. report'.bundle # None => \A f \in report'.bundle : Up(f)'
    <3>1. report.bundle # None => report.bundle \subseteq Files
      BY <1>1, ReportType, KindsDiffer DEF Typed
    <3> QED
      BY <1>1, <1>5, <3>1 DEF FilesOK, ReportMove
  <2> QED
    BY <1>1, <1>2, <2>1, <2>2, <2>3 DEF FilesOK
<1>8. Quiet => pc'[r] \in {"new", "announce", "done"} /\ UNCHANGED <<report, blobs>>
  <2>1. Quiet => Locked(report) /\ pc[r] \notin Busy
    BY <1>1, ReportType DEF Typed, QuietOK, Quiet, Locked, LOCKED_STATUSES, Busy
  <2>2. Quiet => pc'[r] \notin Busy /\ pc'[r] \in Steps
    BY <1>1, <2>1 DEF RequestMove
  <2> QED
    BY <1>1, <2>1, <2>2 DEF ReportMove, BlobMove, Busy, Steps
<1>9. QuietOK'
  <2> SUFFICES ASSUME Quiet PROVE /\ \A q \in Requests : pc'[q] \in {"new", "announce", "done"}
                                  /\ DraftIsReport'
                                  /\ report'.bundle # None => report'.hashes = report'.bundle
                                  /\ Kept' /\ Missing'
    BY <1>1 DEF QuietOK, Quiet, ReportMove
  <2>1. \A q \in Requests : pc'[q] \in {"new", "announce", "done"}
    BY <1>1, <1>8 DEF QuietOK, RequestMove
  <2>2. DraftIsReport' /\ (report'.bundle # None => report'.hashes = report'.bundle)
    BY <1>1, <1>8 DEF QuietOK, DraftIsReport, Preparing
  <2>3. Kept' /\ Missing'
    BY <1>1, <1>2, <1>8 DEF QuietOK, Kept, Missing, InHand, Gone, Listed
  <2> QED
    BY <2>1, <2>2, <2>3
<1>10. CheckOK'
  <2>1. CASE report.status # "sealed"
    BY <1>1, <1>2, <2>1, UnsealedIsUnread
  <2>2. CASE report.status = "sealed"
    <3>1. /\ \A f \in Covered : Up(f) /\ f \in Files
          /\ ~late => Quiet
      BY <2>2, SealIsAnchored DEF VerifyInv
    <3>2. ASSUME NEW f \in check.damaged \cap Covered PROVE blobs'[f] # hashed[f]
      <4>1. f \in Files /\ Up(f) /\ blobs[f] # hashed[f] /\ hashed[f] # None
        BY <1>1, <3>1, KindsDiffer DEF CheckOK, DamageOK, FilesOK
      <4>2. ~ (f = r /\ pc[r] = "store")
        BY <4>1, KindsDiffer DEF Up
      <4> QED
        BY <1>1, <4>1, <4>2 DEF BlobMove
    <3>3. report' = report \/ late
      BY <1>8, <3>1
    <3> QED
      BY <1>1, <1>2, <3>2, <3>3, CheckRests DEF ReportMove
  <2> QED
    BY <2>1, <2>2
<1> QED
  BY <1>3, <1>4, <1>6, <1>7, <1>9, <1>10 DEF VerifyInv, Stage

LEMMA CrashKeeps ==
  ASSUME VerifyInv, Crash, EvidenceStep
  PROVE  VerifyInv'
<1>1. /\ Typed /\ PipelineOK /\ ScriptOK /\ FilesOK /\ QuietOK /\ CheckOK
      /\ UNCHANGED <<report, blobs, record, late, skipped>>
      /\ attempt' = "idle" /\ draft' = None /\ unread' = {} /\ collected' = {}
      /\ copy' = [r \in Requests |-> None]
      /\ pc' = [r \in Requests |-> IF pc[r] \in {"new", "announce"} THEN pc[r] ELSE "done"]
  BY DEF VerifyInv, Stage, Crash, ghosts
<1>2. /\ UNCHANGED <<check, script, overwritten, hashed>>
      /\ away' \in BOOLEAN /\ (~away' => ~away)
  BY <1>1, NothingHashed, AwayGrows
<1>3. \A r \in Requests : pc'[r] \in {"done"} \/ (pc'[r] = pc[r] /\ pc[r] \in {"new", "announce"})
  BY <1>1
<1>4. Typed'
  <2>1. pc' \in [Requests -> Steps] /\ copy' \in [Requests -> Report \cup {None}]
    BY <1>1 DEF Steps
  <2>2. \A r \in Requests : pc'[r] \notin Busy /\ (pc'[r] \in {"announce", "patch"} => r \in Sketches)
    BY <1>1, <1>3 DEF Typed, Busy
  <2> QED
    BY <1>1, <1>2, <2>1, <2>2 DEF Typed
<1>5. PipelineOK'
  BY <1>1 DEF PipelineOK, Preparing
<1>6. \A f \in Files : Up(f) => Up(f)'
  BY <1>3, KindsDiffer DEF Up
<1>7. ScriptOK' /\ FilesOK'
  <2>1. script.step # "idle" => script.file \in Files
    BY <1>1, KindsDiffer DEF ScriptOK
  <2>2. report.bundle # None => report.bundle \subseteq Files
    BY <1>1, ReportType, KindsDiffer DEF Typed
  <2>3. ScriptOK'
    BY <1>1, <1>2, <1>6, <2>1 DEF ScriptOK
  <2>4. FilesOK'
    BY <1>1, <1>2, <1>6, <2>2 DEF FilesOK
  <2> QED
    BY <2>3, <2>4
<1>8. QuietOK'
  <2> SUFFICES ASSUME Quiet PROVE /\ \A q \in Requests : pc'[q] \in {"new", "announce", "done"}
                                  /\ DraftIsReport'
                                  /\ report'.bundle # None => report'.hashes = report'.bundle
                                  /\ Kept' /\ Missing'
    BY <1>1 DEF QuietOK, Quiet
  <2>1. \A q \in Requests : pc'[q] \in {"new", "announce", "done"}
    BY <1>3
  <2>2. DraftIsReport' /\ (report'.bundle # None => report'.hashes = report'.bundle)
    BY <1>1 DEF QuietOK, DraftIsReport, Preparing
  <2>3. Kept' /\ Missing'
    BY <1>1, <1>2 DEF QuietOK, Kept, Missing, InHand, Gone, Listed
  <2> QED
    BY <2>1, <2>2, <2>3
<1>9. CheckOK'
  BY <1>1, <1>2, CheckRests DEF CheckOK, DamageOK
<1> QED
  BY <1>4, <1>5, <1>7, <1>8, <1>9 DEF VerifyInv, Stage

-----------------------------------------------------------------------------
(* The lock and the pipeline: what they do comes before the seal, when no    *)
(* verification has recomputed anything, and they leave the requests alone.  *)
PipelineMove ==
  /\ Typed /\ PipelineOK /\ ScriptOK /\ FilesOK /\ QuietOK
  /\ report.status # "sealed"
  /\ UNCHANGED <<pc, copy, check, script, overwritten>>

LEMMA BeforeTheSeal ==
  ASSUME VerifyInv, EvidenceStep, UNCHANGED requests,
         report.status = "waiting" \/ attempt # "idle"
                                   \/ report.status \in {"signing", "finalizing"}
  PROVE  PipelineMove /\ CheckOK'
<1>1. /\ Typed /\ PipelineOK /\ ScriptOK /\ FilesOK /\ QuietOK /\ CheckOK
  BY DEF VerifyInv, Stage
<1>2. report.status # "sealed"
  BY <1>1 DEF PipelineOK
<1>3. UNCHANGED <<pc, copy, check, script, overwritten>>
  BY <1>1, AwayGrows DEF requests
<1> QED
  BY <1>1, <1>2, <1>3, UnsealedIsUnread DEF PipelineMove

(* A step that writes no file, collects nothing and stores no bundle. *)
LEMMA PipelineStage ==
  ASSUME PipelineMove, EvidenceStep, PipelineOK', report' \in Report,
         report'.bundle = report.bundle, Listed(report') = Listed(report),
         report.bundle # None => report'.hashes = report.hashes,
         UNCHANGED <<blobs, unread, collected>>, attempt' # "collect",
         ~skipped' => ~skipped,
         Quiet' => /\ Quiet \/ report.bundle = None
                   /\ \A r \in Requests : pc[r] \in {"new", "announce", "done"}
                   /\ DraftIsReport'
  PROVE  Stage'
<1>1. /\ UNCHANGED <<hashed, pc, copy, script, overwritten>>
      /\ away' \in BOOLEAN /\ (~away' => ~away)
  BY NothingHashed, AwayGrows DEF PipelineMove
<1>2. Typed'
  BY <1>1 DEF PipelineMove, Typed
<1>3. ScriptOK' /\ FilesOK'
  BY <1>1 DEF PipelineMove, ScriptOK, FilesOK, Up
<1>4. QuietOK'
  <2> SUFFICES ASSUME Quiet' PROVE /\ report'.bundle # None => report'.hashes = report'.bundle
                                   /\ Kept' /\ Missing'
    BY <1>1 DEF QuietOK
  <2>1. CASE report.bundle = None
    BY <2>1 DEF Kept, Missing, InHand
  <2>2. CASE report.bundle # None /\ Quiet
    BY <1>1, <2>2 DEF PipelineMove, QuietOK, Kept, Missing, InHand, Gone
  <2> QED
    BY <2>1, <2>2
<1> QED
  BY <1>2, <1>3, <1>4 DEF Stage

LEMMA LockKeeps ==
  ASSUME VerifyInv, Lock, EvidenceStep
  PROVE  VerifyInv'
<1>1. /\ report.status = "waiting" /\ report' = [report EXCEPT !.status = "signing"]
      /\ late' = (\E r \in Requests : pc[r] \notin {"new", "announce", "done"})
      /\ UNCHANGED <<blobs, record, requests, attempt, draft, unread, collected, skipped>>
  BY DEF Lock, pipeline
<1>2. PipelineMove /\ CheckOK'
  BY <1>1, BeforeTheSeal
<1>3. /\ report' \in Report /\ report'.status = "signing"
      /\ report'.bundle = report.bundle /\ report'.hashes = report.hashes
      /\ Listed(report') = Listed(report)
  BY <1>1, <1>2, StatusWrite DEF PipelineMove, Typed, Report, Listed
<1>4. attempt = "idle" /\ report.bundle = None
  BY <1>1, <1>2 DEF PipelineMove, PipelineOK
<1>5. PipelineOK'
  BY <1>1, <1>2, <1>3, <1>4 DEF PipelineMove, PipelineOK, Preparing
<1>6. Quiet' => \A r \in Requests : pc[r] \in {"new", "announce", "done"}
  BY <1>1 DEF Quiet
<1>7. DraftIsReport' /\ attempt' # "collect"
  BY <1>1, <1>4 DEF DraftIsReport, Preparing
<1> QED
  BY <1>1, <1>2, <1>3, <1>4, <1>5, <1>6, <1>7, PipelineStage DEF VerifyInv

LEMMA LoadToFinalizeKeeps ==
  ASSUME VerifyInv, LoadToFinalize, EvidenceStep
  PROVE  VerifyInv'
<1>1. /\ attempt = "idle" /\ report.status \in {"signing", "finalizing"} /\ draft' = report
      /\ attempt' = IF report.status = "finalizing" /\ report.bundle # None THEN "anchor" ELSE "lock"
      /\ UNCHANGED <<report, blobs, record, requests, unread, collected, late, skipped>>
  BY DEF LoadToFinalize, ghosts
<1>2. PipelineMove /\ CheckOK'
  BY <1>1, BeforeTheSeal
<1>3. PipelineOK'
  BY <1>1, <1>2 DEF PipelineMove, Typed, PipelineOK, Preparing
<1>4. DraftIsReport' /\ Quiet' = Quiet
  BY <1>1 DEF DraftIsReport, Quiet
<1>5. Quiet => \A r \in Requests : pc[r] \in {"new", "announce", "done"}
  BY <1>2 DEF PipelineMove, QuietOK
<1>6. report' \in Report /\ Listed(report') = Listed(report) /\ attempt' # "collect"
  BY <1>1, <1>2 DEF PipelineMove, Typed
<1> QED
  BY <1>1, <1>2, <1>3, <1>4, <1>5, <1>6, PipelineStage DEF VerifyInv

LEMMA SaveFinalizingKeeps ==
  ASSUME VerifyInv, SaveFinalizing, EvidenceStep
  PROVE  VerifyInv'
<1>1. /\ attempt = "lock" /\ attempt' = "pdf"
      /\ report' = [report EXCEPT !.status = "finalizing"]
      /\ UNCHANGED <<blobs, record, requests, draft, unread, collected, late, skipped>>
  BY DEF SaveFinalizing, ghosts
<1>2. PipelineMove /\ CheckOK'
  BY <1>1, BeforeTheSeal
<1>3. /\ report' \in Report /\ report'.status = "finalizing"
      /\ report'.bundle = report.bundle /\ report'.hashes = report.hashes
      /\ report'.v = report.v /\ report'.photos = report.photos /\ report'.sketch = report.sketch
      /\ Listed(report') = Listed(report)
  BY <1>1, <1>2, StatusWrite DEF PipelineMove, Typed, Report, Listed
<1>4. /\ report.status \in {"signing", "finalizing"} /\ report.bundle = None /\ draft \in Report
  BY <1>1, <1>2 DEF PipelineMove, PipelineOK, Preparing
<1>5. PipelineOK'
  BY <1>1, <1>2, <1>3, <1>4 DEF PipelineMove, PipelineOK, Preparing
<1>6. Quiet' = Quiet
  BY <1>1, <1>3, <1>4 DEF Quiet
<1>7. Quiet => DraftIsReport' /\ \A r \in Requests : pc[r] \in {"new", "announce", "done"}
  BY <1>1, <1>2, <1>3 DEF PipelineMove, QuietOK, DraftIsReport, Preparing
<1> QED
  BY <1>1, <1>2, <1>3, <1>4, <1>5, <1>6, <1>7, PipelineStage DEF VerifyInv

LEMMA GeneratePdfKeeps ==
  ASSUME VerifyInv, GeneratePdf, EvidenceStep
  PROVE  VerifyInv'
<1>1. /\ attempt = "pdf" /\ attempt' = "store"
      /\ UNCHANGED <<report, blobs, record, requests, draft, unread, collected, late>>
  BY DEF GeneratePdf
<1>2. PipelineMove /\ CheckOK'
  BY <1>1, BeforeTheSeal
<1>3. PipelineOK' /\ report.bundle = None
  BY <1>1, <1>2 DEF PipelineMove, PipelineOK, Preparing
<1>4. ~skipped' => ~skipped
  BY DEF GeneratePdf, Readable
<1>5. Quiet' = Quiet
  BY <1>1 DEF Quiet
<1>6. Quiet => DraftIsReport' /\ \A r \in Requests : pc[r] \in {"new", "announce", "done"}
  BY <1>1, <1>2 DEF PipelineMove, QuietOK, DraftIsReport, Preparing
<1>7. report' \in Report
  BY <1>1, <1>2 DEF PipelineMove, Typed
<1> QED
  BY <1>1, <1>2, <1>3, <1>4, <1>5, <1>6, <1>7, PipelineStage DEF VerifyInv

LEMMA AnchorKeeps ==
  ASSUME VerifyInv, Anchor, EvidenceStep
  PROVE  VerifyInv'
<1>1. /\ attempt = "anchor" /\ attempt' \in {"idle", "seal"}
      /\ record' \in {record, report.bundle}
      /\ attempt' = "seal" => record' = report.bundle
      /\ UNCHANGED <<report, blobs, requests, unread, collected, late, skipped>>
  BY DEF Anchor, ghosts
<1>2. PipelineMove /\ CheckOK'
  BY <1>1, BeforeTheSeal
<1>3. PipelineOK'
  BY <1>1, <1>2 DEF PipelineMove, PipelineOK, Preparing
<1>4. DraftIsReport' /\ Quiet' = Quiet
  BY <1>1 DEF DraftIsReport, Preparing, Quiet
<1>5. Quiet => \A r \in Requests : pc[r] \in {"new", "announce", "done"}
  BY <1>2 DEF PipelineMove, QuietOK
<1>6. report' \in Report /\ Listed(report') = Listed(report) /\ attempt' # "collect"
  BY <1>1, <1>2 DEF PipelineMove, Typed
<1> QED
  BY <1>1, <1>2, <1>3, <1>4, <1>5, <1>6, PipelineStage DEF VerifyInv

LEMMA SaveSealedKeeps ==
  ASSUME VerifyInv, SaveSealed, EvidenceStep
  PROVE  VerifyInv'
<1>1. /\ attempt = "seal" /\ attempt' = "idle"
      /\ report' = [report EXCEPT !.status = "sealed"]
      /\ UNCHANGED <<blobs, record, requests, unread, collected, late, skipped>>
  BY DEF SaveSealed, ghosts
<1>2. PipelineMove /\ CheckOK'
  BY <1>1, BeforeTheSeal
<1>3. /\ report' \in Report /\ report'.status = "sealed"
      /\ report'.bundle = report.bundle /\ report'.hashes = report.hashes
      /\ Listed(report') = Listed(report)
  BY <1>1, <1>2, StatusWrite DEF PipelineMove, Typed, Report, Listed
<1>4. report.status = "finalizing"
  BY <1>1, <1>2 DEF PipelineMove, PipelineOK
<1>5. PipelineOK'
  BY <1>1, <1>2, <1>3, <1>4 DEF PipelineMove, PipelineOK, Preparing
<1>6. Quiet' = Quiet /\ DraftIsReport'
  BY <1>1, <1>3, <1>4 DEF Quiet, DraftIsReport, Preparing
<1>7. Quiet => \A r \in Requests : pc[r] \in {"new", "announce", "done"}
  BY <1>2 DEF PipelineMove, QuietOK
<1> QED
  BY <1>1, <1>2, <1>3, <1>5, <1>6, <1>7, PipelineStage DEF VerifyInv

LEMMA StorePdfKeeps ==
  ASSUME VerifyInv, StorePdf, EvidenceStep
  PROVE  VerifyInv'
<1>1. /\ attempt = "store" /\ attempt' = "collect"
      /\ blobs' = [blobs EXCEPT ![Pdf] = Pdf]
      /\ unread' = Listed(draft) /\ collected' = {}
      /\ UNCHANGED <<report, record, requests, draft, late, skipped>>
  BY DEF StorePdf, ghosts
<1>2. PipelineMove /\ CheckOK'
  BY <1>1, BeforeTheSeal
<1>3. /\ UNCHANGED <<hashed, pc, copy, script, overwritten>>
      /\ away' \in BOOLEAN /\ (~away' => ~away)
  BY <1>1, <1>2, NothingHashed, AwayGrows DEF PipelineMove
<1>4. report.bundle = None /\ draft \in Report /\ Listed(draft) \in SUBSET Attachments
  BY <1>1, <1>2, ReportType DEF PipelineMove, PipelineOK, Preparing
<1>5. PipelineOK'
  BY <1>1, <1>2 DEF PipelineMove, PipelineOK, Preparing
<1>6. blobs'[Pdf] = Pdf /\ \A f \in Files \ {Pdf} : blobs'[f] = blobs[f]
  BY <1>1, <1>2, KindsDiffer DEF PipelineMove, Typed
<1>7. Typed'
  <2>1. blobs' \in [Files -> Bytes \cup {None}]
    BY <1>1, <1>2, KindsDiffer DEF PipelineMove, Typed, Bytes
  <2> QED
    BY <1>1, <1>2, <1>3, <1>4, <2>1 DEF PipelineMove, Typed
<1>8. ScriptOK'
  BY <1>1, <1>2, <1>3 DEF PipelineMove, ScriptOK, Up
<1>9. FilesOK'
  <2>1. Up(Pdf)
    BY KindsDiffer DEF Up
  <2> QED
    BY <1>1, <1>2, <1>3, <1>4, <1>6, <2>1 DEF PipelineMove, FilesOK, Up
<1>10. QuietOK'
  <2> SUFFICES ASSUME Quiet PROVE /\ \A q \in Requests : pc[q] \in {"new", "announce", "done"}
                                  /\ DraftIsReport'
                                  /\ Kept' /\ Missing'
    BY <1>1, <1>3, <1>4 DEF QuietOK, Quiet
  <2>1. DraftIsReport /\ \A q \in Requests : pc[q] \in {"new", "announce", "done"}
    BY <1>2 DEF PipelineMove, QuietOK
  <2>2. DraftIsReport' /\ Listed(draft) = Listed(report)
    BY <1>1, <2>1 DEF DraftIsReport, Preparing, Listed
  <2>3. Kept'
    BY <1>1, <1>2, <1>3, <1>4, <1>6 DEF Kept, InHand, PipelineMove, FilesOK
  <2>4. Missing'
    BY <1>1, <1>4, <2>2 DEF Missing
  <2> QED
    BY <2>1, <2>2, <2>3, <2>4
<1> QED
  BY <1>2, <1>5, <1>7, <1>8, <1>9, <1>10 DEF VerifyInv, Stage

(* What is collected is what the file then holds; what is not, unless a read *)
(* fails or the script has the file in its hands, is missing.               *)
LEMMA CollectKeeps ==
  ASSUME VerifyInv, NEW f \in Attachments, Collect(f), EvidenceStep
  PROVE  VerifyInv'
<1>1. /\ attempt = "collect" /\ f \in unread /\ unread' = unread \ {f}
      /\ UNCHANGED <<report, blobs, record, requests, attempt, draft, late>>
  BY DEF Collect
<1>2. PipelineMove /\ CheckOK'
  BY <1>1, BeforeTheSeal
<1>3. PICK got \in {{}, {f}} : Readable({f}, got) /\ collected' = collected \cup got
  BY DEF Collect
<1>4. /\ got = {f} => blobs[f] # None
      /\ ~skipped' /\ got = {} => blobs[f] = None
      /\ ~skipped' => ~skipped
  BY <1>3 DEF Readable
<1>5. /\ hashed' = [g \in Files |-> IF g \in collected' \ collected THEN blobs[g] ELSE hashed[g]]
      /\ away' \in BOOLEAN /\ (~away' => ~away /\ ~(script.step = "upload" /\ script.file = f))
      /\ UNCHANGED <<pc, copy, script, overwritten>>
  BY <1>1, <1>2, AwayGrows DEF EvidenceStep, PipelineMove
<1>6. /\ f \in Files /\ f # Pdf
      /\ \A g \in Files \ {f} : hashed'[g] = hashed[g]
      /\ hashed'[f] = hashed[f] \/ (got = {f} /\ hashed'[f] = blobs[f] /\ blobs[f] # None)
      /\ f \in collected' \ collected => hashed'[f] = blobs[f]
      /\ f \notin collected' \ collected => hashed'[f] = hashed[f]
  BY <1>3, <1>4, <1>5, KindsDiffer
<1>7. PipelineOK' /\ report.bundle = None
  BY <1>1, <1>2 DEF PipelineMove, PipelineOK, Preparing
<1>8. Typed'
  <2>1. hashed' \in [Files -> Bytes]
    <3>1. \A g \in Files : hashed'[g] \in Bytes
      BY <1>2, <1>6 DEF PipelineMove, Typed
    <3> QED
      BY <1>5, <3>1
  <2> QED
    BY <1>1, <1>2, <1>3, <1>5, <2>1 DEF PipelineMove, Typed
<1>9. ScriptOK'
  BY <1>1, <1>2, <1>5 DEF PipelineMove, ScriptOK, Up
<1>10. FilesOK'
  <2>1. \A g \in Files : hashed'[g] \in {g, Overwritten}
    BY <1>2, <1>6 DEF PipelineMove, FilesOK
  <2>2. got = {f} => Up(f)
    BY <1>2, <1>4, <1>6 DEF PipelineMove, FilesOK
  <2>3. hashed'[Pdf] = Pdf
    BY <1>2, <1>6, KindsDiffer DEF PipelineMove, FilesOK
  <2> QED
    BY <1>1, <1>2, <1>3, <1>5, <1>7, <2>1, <2>2, <2>3 DEF PipelineMove, FilesOK, Up
<1>11. QuietOK'
  <2> SUFFICES ASSUME Quiet PROVE /\ \A q \in Requests : pc[q] \in {"new", "announce", "done"}
                                  /\ DraftIsReport'
                                  /\ Kept' /\ Missing'
    BY <1>1, <1>5, <1>7 DEF QuietOK, Quiet
  <2>1. DraftIsReport /\ Kept /\ Missing /\ \A q \in Requests : pc[q] \in {"new", "announce", "done"}
    BY <1>2 DEF PipelineMove, QuietOK
  <2>2. DraftIsReport'
    BY <1>1, <2>1 DEF DraftIsReport, Preparing
  <2>3. Kept'
    <3> SUFFICES ASSUME NEW g \in collected' \cup {Pdf}, g \notin overwritten
                 PROVE  blobs[g] = hashed'[g]
      BY <1>1, <1>5, <1>7 DEF Kept, InHand
    <3>1. CASE g = f
      BY <1>1, <1>6, <2>1, <3>1 DEF Kept, InHand
    <3>2. CASE g # f
      <4>1. g \in InHand /\ g \in Files
        BY <1>1, <1>2, <1>3, <3>2, KindsDiffer DEF InHand, PipelineMove, Typed
      <4> QED
        BY <1>6, <2>1, <3>2, <4>1 DEF Kept
    <3> QED
      BY <3>1, <3>2
  <2>4. Missing'
    <3> SUFFICES ASSUME ~skipped', ~away', NEW g \in Listed(report) \ (unread' \cup collected')
                 PROVE  Gone(g)
      BY <1>1, <1>5, <1>7 DEF Missing, Gone
    <3>1. CASE g = f
      BY <1>3, <1>4, <1>5, <3>1 DEF Gone
    <3>2. CASE g # f
      BY <1>1, <1>3, <1>4, <1>5, <2>1, <3>2 DEF Missing
    <3> QED
      BY <3>1, <3>2
  <2> QED
    BY <2>1, <2>2, <2>3, <2>4
<1> QED
  BY <1>2, <1>7, <1>8, <1>9, <1>10, <1>11 DEF VerifyInv, Stage

LEMMA SaveBundleKeeps ==
  ASSUME VerifyInv, SaveBundle, EvidenceStep
  PROVE  VerifyInv'
<1>1. /\ attempt = "collect" /\ unread = {} /\ draft' = None /\ collected' = {}
      /\ UNCHANGED <<blobs, record, requests, unread, late, skipped>>
  BY DEF SaveBundle, ghosts
<1>2. PipelineMove /\ CheckOK'
  BY <1>1, BeforeTheSeal
<1>3. /\ UNCHANGED <<hashed, pc, copy, script, overwritten>>
      /\ away' \in BOOLEAN /\ (~away' => ~away)
  BY <1>1, <1>2, NothingHashed, AwayGrows DEF PipelineMove
<1>4. /\ report.status = "finalizing" /\ report.bundle = None /\ record = None
      /\ draft \in Report /\ report \in Report
      /\ collected \in SUBSET Attachments /\ collected # None
  <2>1. record \in {None, report.bundle} /\ report.bundle = None
    BY <1>1, <1>2 DEF PipelineMove, PipelineOK, Preparing
  <2> QED
    BY <1>1, <1>2, <2>1, NoneIsNoBundle DEF PipelineMove, PipelineOK, Typed, Preparing
<1>5. CASE attempt' = "idle" /\ UNCHANGED report
  <2>1. PipelineOK'
    BY <1>1, <1>2, <1>5 DEF PipelineMove, PipelineOK, Preparing
  <2>2. Typed' /\ ScriptOK' /\ FilesOK'
    BY <1>1, <1>2, <1>3, <1>5 DEF PipelineMove, Typed, ScriptOK, FilesOK, Up
  <2>3. QuietOK'
    BY <1>1, <1>2, <1>3, <1>4, <1>5
    DEF PipelineMove, QuietOK, Quiet, DraftIsReport, Preparing, Kept, Missing, InHand
  <2> QED
    BY <1>2, <2>1, <2>2, <2>3 DEF VerifyInv, Stage
<1>6. CASE /\ attempt' = "anchor"
           /\ \E reordered \in BOOLEAN :
                LET assigned == reordered \/ collected # draft.hashes
                IN  report' = [report EXCEPT !.bundle = collected,
                                             !.hashes = IF assigned THEN collected ELSE @,
                                             !.v = IF assigned THEN @ + 1 ELSE @]
  <2>1. PICK h, v : /\ report' = [report EXCEPT !.bundle = collected, !.hashes = h, !.v = v]
                    /\ h = collected \/ (h = report.hashes /\ collected = draft.hashes)
                    /\ v \in {report.v, report.v + 1}
    BY <1>6
  <2>2. h \in SUBSET Attachments /\ v \in Nat
    BY <1>4, <2>1, ReportType
  <2>3. /\ report' \in Report /\ report'.status = "finalizing" /\ report'.bundle = collected
        /\ report'.hashes = h /\ Listed(report') = Listed(report)
    BY <1>4, <2>1, <2>2, BundleWrite DEF Report, Listed
  <2>4. PipelineOK'
    BY <1>1, <1>4, <1>6, <2>3 DEF PipelineOK, Preparing
  <2>5. Typed'
    BY <1>1, <1>2, <1>3, <2>3 DEF PipelineMove, Typed
  <2>6. ScriptOK' /\ FilesOK'
    BY <1>1, <1>2, <1>3, <1>4, <2>3 DEF PipelineMove, ScriptOK, FilesOK, Up
  <2>7. QuietOK'
    <3> SUFFICES ASSUME Quiet PROVE /\ \A q \in Requests : pc[q] \in {"new", "announce", "done"}
                                    /\ DraftIsReport'
                                    /\ report'.hashes = report'.bundle
                                    /\ Kept' /\ Missing'
      BY <1>1, <1>3, <1>4, <2>3 DEF QuietOK, Quiet
    <3>1. DraftIsReport /\ Kept /\ Missing /\ \A q \in Requests : pc[q] \in {"new", "announce", "done"}
      BY <1>2 DEF PipelineMove, QuietOK
    <3>2. DraftIsReport'
      BY <1>6 DEF DraftIsReport, Preparing
    <3>3. report'.hashes = report'.bundle
      BY <1>1, <2>1, <2>3, <3>1 DEF DraftIsReport, Preparing
    <3>4. Kept'
      BY <1>1, <1>3, <1>4, <1>6, <2>3, <3>1 DEF Kept, InHand
    <3>5. Missing'
      BY <1>1, <1>3, <1>6, <2>3, <3>1 DEF Missing, Gone
    <3> QED
      BY <3>1, <3>2, <3>3, <3>4, <3>5
  <2> QED
    BY <1>2, <2>4, <2>5, <2>6, <2>7 DEF VerifyInv, Stage
<1> QED
  BY <1>5, <1>6 DEF SaveBundle

LEMMA EvidenceKeeps ==
  ASSUME VerifyInv, EvidenceStep
  PROVE  VerifyInv'
<1>1. ASSUME NEW r \in Requests, RequestStep(r) PROVE VerifyInv'
  BY <1>1, RequestKeeps
<1>2. CASE Lock \/ LoadToFinalize \/ SaveFinalizing \/ GeneratePdf
  BY <1>2, LockKeeps, LoadToFinalizeKeeps, SaveFinalizingKeeps, GeneratePdfKeeps
<1>3. CASE StorePdf \/ SaveBundle \/ Anchor \/ SaveSealed
  BY <1>3, StorePdfKeeps, SaveBundleKeeps, AnchorKeeps, SaveSealedKeeps
<1>4. ASSUME NEW f \in Attachments, Collect(f) PROVE VerifyInv'
  BY <1>4, CollectKeeps
<1>5. CASE Crash
  BY <1>5, CrashKeeps
<1> QED
  BY <1>1, <1>2, <1>3, <1>4, <1>5 DEF EvidenceStep, Next, RequestStep

-----------------------------------------------------------------------------
(* A step of the verification changes nothing but the verification. *)
LEMMA OnlyChecks ==
  ASSUME Stage, UNCHANGED <<report, blobs, record, requests, pipeline, ghosts, tampering, hashing>>
  PROVE  Stage'
<1>1. Typed' /\ PipelineOK' /\ ScriptOK' /\ FilesOK'
  BY DEF Stage, Typed, PipelineOK, Preparing, ScriptOK, FilesOK, Up,
         requests, pipeline, tampering, hashing
<1>2. QuietOK'
  BY DEF Stage, QuietOK, Quiet, DraftIsReport, Preparing, Kept, Missing, InHand, Gone, Listed,
         requests, pipeline, ghosts, tampering, hashing
<1> QED
  BY <1>1, <1>2 DEF Stage

LEMMA LoadToVerifyKeeps ==
  ASSUME VerifyInv, LoadToVerify
  PROVE  VerifyInv'
<1>1. /\ check.step = "idle" /\ check \in Check /\ NothingRead /\ check.verdict # "VERIFIED"
      /\ UNCHANGED <<report, blobs, record, requests, pipeline, ghosts, tampering, hashing>>
  BY KindsDiffer DEF LoadToVerify, vars, VerifyInv, CheckOK, SealedOnly, VerdictOK, NothingRead
<1>2. Stage'
  BY <1>1, OnlyChecks DEF VerifyInv
<1>3. CASE report.status # "sealed"
  <2>1. check' = [check EXCEPT !.step = "done", !.verdict = "NOT_ANCHORED"]
    BY <1>3 DEF LoadToVerify
  <2>2. check' \in Check /\ NothingRead' /\ check'.verdict # "VERIFIED"
    BY <1>1, <2>1 DEF Check, Verdicts, NothingRead
  <2> QED
    BY <1>2, <2>2, NothingReadIsOK DEF VerifyInv
<1>4. CASE report.status = "sealed"
  <2>1. check' = [check EXCEPT !.step = "pdf", !.unread = report.hashes, !.damaged = Damaged]
    BY <1>4 DEF LoadToVerify
  <2>2. /\ Typed /\ record = report.bundle /\ record \in SUBSET Attachments
        /\ Covered = record \cup {Pdf} /\ Covered \subseteq Files
        /\ ~late => report.hashes = record /\ Missing
    BY <1>4, SealIsAnchored DEF VerifyInv, Stage
  <2>3. report.hashes \in SUBSET Attachments /\ Damaged \in SUBSET Files
    BY <2>2, ReportType DEF Typed, Damaged
  <2>4. /\ check' \in Check
        /\ check'.step = "pdf" /\ check'.unread = report.hashes /\ check'.damaged = Damaged
        /\ check'.bundle = {} /\ check'.pdf = None /\ check'.verdict = check.verdict
    BY <1>1, <2>1, <2>3 DEF Check, NothingRead
  <2>5. UNCHANGED <<report, blobs, record, overwritten, late, skipped, away, hashed>> /\ Covered' = Covered
    BY <1>1 DEF ghosts, tampering, hashing, Covered
  <2>6. ReadOK' /\ VerdictOK' /\ SealedOnly'
    BY <1>1, <1>4, <2>4, <2>5 DEF ReadOK, VerdictOK, SealedOnly
  <2>7. DamageOK'
    BY <2>4, <2>5, KindsDiffer DEF DamageOK, Damaged
  <2>8. ScopeOK'
    <3>1. ~late /\ ~skipped /\ ~away => Damaged \cap report.photos \subseteq Covered
      BY <1>1, <1>4, <2>2, NoneIsNoBundle DEF Missing, Gone, Damaged, Listed
    <3> QED
      BY <2>2, <2>4, <2>5, <3>1 DEF ScopeOK
  <2>9. Recomputed'
    BY <2>2, <2>4, <2>5 DEF Recomputed
  <2> QED
    BY <1>2, <2>4, <2>6, <2>7, <2>8, <2>9 DEF VerifyInv, CheckOK
<1> QED
  BY <1>3, <1>4

(* What recomputeFileHash returns. *)
LEMMA RecomputedIs ==
  ASSUME NEW f, NEW hash, NEW failed, Recompute(f, hash, failed)
  PROVE  /\ hash # None => hash = blobs[f]
         /\ ~failed => hash = blobs[f]
  BY DEF Recompute

(* Nobody has replaced a file: an anchored one holds what was hashed. *)
LEMMA UntouchedIsKept ==
  ASSUME Stage, report.status = "sealed", overwritten = {}, ~late
  PROVE  \A f \in Covered : blobs[f] = hashed[f] /\ hashed[f] # None
<1>1. /\ Covered = record \cup {Pdf} /\ Covered \subseteq Files /\ Kept
      /\ record = report.bundle /\ report.bundle # None
  BY SealIsAnchored
<1>2. \A f \in Files : hashed[f] # None
  BY KindsDiffer DEF Stage, FilesOK
<1> QED
  BY <1>1, <1>2 DEF Kept, InHand

LEMMA VerifyPdfKeeps ==
  ASSUME VerifyInv, VerifyPdf
  PROVE  VerifyInv'
<1>1. /\ check.step = "pdf" /\ check \in Check /\ CheckOK /\ Stage
      /\ UNCHANGED <<report, blobs, record, requests, pipeline, ghosts, tampering, hashing>>
  BY DEF VerifyPdf, unverified, VerifyInv, CheckOK
<1>2. Stage' /\ report.status = "sealed"
  BY <1>1, OnlyChecks DEF CheckOK, SealedOnly, NothingRead
<1>3. PICK failed \in BOOLEAN, hash \in {Pdf, Overwritten, None} :
        /\ Recompute(Pdf, hash, failed)
        /\ check' = [check EXCEPT !.step = "attachments", !.pdf = hash,
                                  !.reliable = @ /\ ~failed]
  BY DEF VerifyPdf
<1>4. /\ check' \in Check
      /\ check'.step = "attachments" /\ check'.pdf = hash
      /\ check'.reliable = (check.reliable /\ ~failed)
      /\ check'.unread = check.unread /\ check'.bundle = check.bundle
      /\ check'.verdict = check.verdict /\ check'.damaged = check.damaged
  BY <1>1, <1>3 DEF Check
<1>5. UNCHANGED <<report, blobs, record, overwritten, late, skipped, away, hashed>> /\ Covered' = Covered
  BY <1>1 DEF ghosts, tampering, hashing, Covered
<1>6. hashed[Pdf] = Pdf /\ Pdf \in Covered
  BY <1>1 DEF Stage, FilesOK, Covered
<1>7. ReadOK' /\ ScopeOK' /\ SealedOnly'
  BY <1>1, <1>2, <1>4, <1>5 DEF CheckOK, ReadOK, ScopeOK, SealedOnly
<1>8. VerdictOK'
  BY <1>1, <1>4, <1>5 DEF CheckOK, VerdictOK
<1>9. DamageOK'
  <2>1. hash = Pdf => blobs[Pdf] = hashed[Pdf]
    BY <1>3, <1>6, RecomputedIs, KindsDiffer
  <2> QED
    BY <1>1, <1>4, <1>5, <1>6, <2>1 DEF CheckOK, DamageOK
<1>10. Recomputed'
  <2> SUFFICES ASSUME overwritten = {}, ~late, check.reliable, ~failed
               PROVE  /\ hash = Pdf /\ check.unread \subseteq record
                      /\ check.bundle = {<<f, hashed[f]>> : f \in record \ check.unread}
    BY <1>4, <1>5 DEF Recomputed
  <2>1. hash = Pdf
    BY <1>1, <1>2, <1>3, <1>6, RecomputedIs, UntouchedIsKept
  <2>2. check.bundle = {} /\ check.unread = record
    BY <1>1 DEF CheckOK, Recomputed
  <2> QED
    BY <2>1, <2>2
<1> QED
  BY <1>2, <1>4, <1>7, <1>8, <1>9, <1>10 DEF VerifyInv, CheckOK

LEMMA VerifyAttachmentKeeps ==
  ASSUME VerifyInv, NEW f \in Attachments, VerifyAttachment(f)
  PROVE  VerifyInv'
<1>1. /\ check.step = "attachments" /\ f \in check.unread /\ check \in Check /\ CheckOK /\ Stage
      /\ UNCHANGED <<report, blobs, record, requests, pipeline, ghosts, tampering, hashing>>
  BY DEF VerifyAttachment, unverified, VerifyInv, CheckOK
<1>2. Stage' /\ report.status = "sealed"
  BY <1>1, OnlyChecks DEF CheckOK, SealedOnly, NothingRead
<1>3. PICK failed \in BOOLEAN, hash \in {f, Overwritten, None} :
        /\ Recompute(f, hash, failed)
        /\ check' = [check EXCEPT !.unread = @ \ {f},
                                  !.bundle = IF hash = None THEN @ ELSE @ \cup {<<f, hash>>},
                                  !.reliable = @ /\ ~failed]
  BY DEF VerifyAttachment
<1> DEFINE new == IF hash = None THEN {} ELSE {<<f, hash>>}
<1>4. /\ check' \in Check
      /\ check'.step = "attachments" /\ check'.pdf = check.pdf
      /\ check'.reliable = (check.reliable /\ ~failed)
      /\ check'.unread = check.unread \ {f} /\ check'.bundle = check.bundle \cup new
      /\ check'.verdict = check.verdict /\ check'.damaged = check.damaged
  <2>1. new \in SUBSET (Attachments \X Bytes)
    BY <1>3, KindsDiffer DEF Bytes
  <2>2. check' = [check EXCEPT !.unread = @ \ {f}, !.bundle = @ \cup new,
                               !.reliable = @ /\ ~failed]
    BY <1>3
  <2> HIDE DEF new
  <2>3. check.bundle \cup new \in SUBSET (Attachments \X Bytes)
    BY <1>1, <2>1 DEF Check
  <2> DEFINE bundle == check.bundle \cup new
             unreadNow == check.unread \ {f}
             reliableNow == check.reliable /\ ~failed
  <2>4. unreadNow \in SUBSET Attachments /\ reliableNow \in BOOLEAN
    BY <1>1, <1>3 DEF Check
  <2>5. check' = [check EXCEPT !.unread = unreadNow, !.bundle = bundle, !.reliable = reliableNow]
    BY <2>2
  <2> HIDE DEF bundle, unreadNow, reliableNow
  <2>6. /\ check' \in Check
        /\ check'.step = check.step /\ check'.pdf = check.pdf /\ check'.reliable = reliableNow
        /\ check'.unread = unreadNow /\ check'.bundle = bundle
        /\ check'.verdict = check.verdict /\ check'.damaged = check.damaged
    BY <1>1, <2>3, <2>4, <2>5 DEF Check, bundle
  <2> QED
    BY <1>1, <2>6 DEF bundle, unreadNow, reliableNow
<1>5. UNCHANGED <<report, blobs, record, overwritten, late, skipped, away, hashed>> /\ Covered' = Covered
  BY <1>1 DEF ghosts, tampering, hashing, Covered
<1>6. ASSUME NEW e \in new PROVE e = <<f, hash>> /\ e[1] = f /\ e[2] = hash /\ hash # None /\ hash = blobs[f]
  BY <1>3, <1>6, RecomputedIs
<1>7. ReadOK'
  <2> SUFFICES ASSUME NEW e \in check.bundle \cup new
               PROVE  /\ e[2] \in {e[1], Overwritten}
                      /\ e[1] \notin check.unread \ {f}
                      /\ \A d \in check.bundle \cup new : d[1] = e[1] => d = e
                      /\ e[1] \in Covered /\ e[2] = hashed[e[1]] => e[1] \notin check.damaged
    BY <1>4, <1>5 DEF ReadOK
  <2>1. CASE e \in check.bundle
    BY <1>1, <1>6, <2>1 DEF CheckOK, ReadOK
  <2>2. CASE e \in new
    <3>1. f \in Covered /\ hash = hashed[f] => f \notin check.damaged
      BY <1>1, <1>6, <2>2 DEF CheckOK, DamageOK
    <3>2. \A d \in check.bundle : d[1] # f
      BY <1>1 DEF CheckOK, ReadOK
    <3> QED
      BY <1>3, <1>6, <2>2, <3>1, <3>2
  <2> QED
    BY <2>1, <2>2
<1>8. ScopeOK'
  BY <1>1, <1>4, <1>5, <1>6 DEF CheckOK, ScopeOK
<1>9. DamageOK' /\ SealedOnly'
  BY <1>1, <1>2, <1>4, <1>5 DEF CheckOK, DamageOK, SealedOnly
<1>10. VerdictOK'
  BY <1>1, <1>4, <1>5 DEF CheckOK, VerdictOK
<1>11. Recomputed'
  <2> SUFFICES ASSUME overwritten = {}, ~late, check.reliable, ~failed
               PROVE  /\ check.pdf = Pdf
                      /\ check.unread \ {f} \subseteq record
                      /\ check.bundle \cup new
                           = {<<g, hashed[g]>> : g \in record \ (check.unread \ {f})}
    BY <1>4, <1>5 DEF Recomputed
  <2>1. /\ check.pdf = Pdf /\ check.unread \subseteq record
        /\ check.bundle = {<<g, hashed[g]>> : g \in record \ check.unread}
    BY <1>1 DEF CheckOK, Recomputed
  <2>2. f \in Covered
    BY <1>1, <1>2, <2>1, SealIsAnchored
  <2>3. new = {<<f, hashed[f]>>}
    BY <1>1, <1>2, <1>3, <2>2, RecomputedIs, UntouchedIsKept
  <2> HIDE DEF new
  <2> QED
    BY <1>1, <2>1, <2>3
<1> QED
  BY <1>2, <1>4, <1>7, <1>8, <1>9, <1>10, <1>11 DEF VerifyInv, CheckOK

LEMMA ReadChainKeeps ==
  ASSUME VerifyInv, ReadChain
  PROVE  VerifyInv'
<1>1. /\ check.step = "attachments" /\ check.unread = {} /\ check \in Check /\ CheckOK /\ Stage
      /\ UNCHANGED <<report, blobs, record, requests, pipeline, ghosts, tampering, hashing>>
  BY DEF ReadChain, unverified, VerifyInv, CheckOK
<1>2. Stage' /\ report.status = "sealed"
  BY <1>1, OnlyChecks DEF CheckOK, SealedOnly, NothingRead
<1>3. PICK failed \in BOOLEAN :
        check' = [check EXCEPT !.step = "done", !.reliable = @ /\ ~failed,
                               !.verdict = Compare(IF failed THEN None ELSE record)]
  BY DEF ReadChain
<1>4. record \in SUBSET Attachments /\ record # None
  BY <1>1, <1>2, SealIsAnchored
<1> DEFINE same == SameHashes(check.bundle, Anchored)
<1>5. Compare(IF failed THEN None ELSE record) =
        IF failed THEN "NOT_ANCHORED"
        ELSE IF check.pdf = Pdf /\ same THEN "VERIFIED" ELSE "TAMPERED"
  BY <1>4 DEF Compare, Anchored
<1>6. /\ check' \in Check
      /\ check'.step = "done" /\ check'.pdf = check.pdf
      /\ check'.reliable = (check.reliable /\ ~failed)
      /\ check'.unread = check.unread /\ check'.bundle = check.bundle
      /\ check'.damaged = check.damaged
      /\ check'.verdict = IF failed THEN "NOT_ANCHORED"
                          ELSE IF check.pdf = Pdf /\ same THEN "VERIFIED" ELSE "TAMPERED"
  <2> HIDE DEF same
  <2> QED
    BY <1>1, <1>3, <1>5 DEF Check, Verdicts
<1>7. UNCHANGED <<report, blobs, record, overwritten, late, skipped, away, hashed>> /\ Covered' = Covered
  BY <1>1 DEF ghosts, tampering, hashing, Covered
<1>8. ReadOK' /\ DamageOK' /\ ScopeOK' /\ SealedOnly'
  BY <1>1, <1>2, <1>6, <1>7 DEF CheckOK, ReadOK, DamageOK, ScopeOK, SealedOnly
<1>9. VerdictOK'
  <2>1. same' <=> same
    BY <1>6, <1>7 DEF SameHashes, Anchored
  <2> HIDE DEF same
  <2>2. check'.verdict = "VERIFIED" => check'.step = "done" /\ check'.pdf = Pdf /\ record' # None /\ same'
    BY <1>4, <1>6, <1>7, <2>1
  <2> USE DEF same
  <2> QED
    BY <2>2 DEF VerdictOK
<1>10. Recomputed'
  <2> SUFFICES ASSUME overwritten = {}, ~late, check.reliable, ~failed
               PROVE  check.pdf = Pdf /\ same
    BY <1>6, <1>7 DEF Recomputed
  <2>1. check.pdf = Pdf /\ check.bundle = Anchored
    BY <1>1 DEF CheckOK, Recomputed, Anchored
  <2> QED
    BY <2>1 DEF SameHashes
<1> QED
  BY <1>2, <1>6, <1>8, <1>9, <1>10 DEF VerifyInv, CheckOK

-----------------------------------------------------------------------------
(* The script: it moves at most one file, which is from then on replaced.   *)
LEMMA TamperLoadsKeeps ==
  ASSUME VerifyInv, NEW f \in Files, TamperLoads(f)
  PROVE  VerifyInv'
<1>1. /\ Typed /\ PipelineOK /\ ScriptOK /\ FilesOK /\ QuietOK /\ CheckOK
      /\ script.step = "idle"
      /\ UNCHANGED <<report, blobs, record, requests, pipeline, ghosts, hashing, overwritten, check>>
  BY DEF TamperLoads, vars, VerifyInv, Stage
<1>2. PICK bytes \in {Pdf, Overwritten} :
        /\ \/ f \in report.photos /\ bytes = Overwritten
           \/ f = Pdf /\ report.bundle # None
        /\ script' = [step |-> "delete", file |-> f, bytes |-> bytes]
  BY DEF TamperLoads
<1>3. script' \in Script
  BY <1>2 DEF Script
<1>4. ScriptOK'
  <2>1. script'.step = "delete" /\ script'.file = f /\ script'.bytes = bytes
    BY <1>2
  <2>2. report.photos \subseteq Photos
    BY <1>1, ReportType DEF Typed
  <2> QED
    BY <1>1, <1>2, <1>3, <2>1, <2>2, KindsDiffer DEF ScriptOK
<1>5. Typed' /\ PipelineOK' /\ FilesOK'
  BY <1>1 DEF Typed, PipelineOK, Preparing, FilesOK, Up, requests, pipeline, hashing
<1>6. QuietOK'
  BY <1>1, <1>2 DEF QuietOK, Quiet, DraftIsReport, Preparing, Kept, Missing, InHand, Gone, Listed,
     requests, pipeline, ghosts, hashing
<1>7. CheckOK'
  BY <1>1, CheckRests DEF CheckOK, DamageOK, ghosts, hashing
<1> QED
  BY <1>4, <1>5, <1>6, <1>7 DEF VerifyInv, Stage

LEMMA TamperDeletesKeeps ==
  ASSUME VerifyInv, TamperDeletes
  PROVE  VerifyInv'
<1> DEFINE f == script.file
<1>1. /\ Typed /\ PipelineOK /\ ScriptOK /\ FilesOK /\ QuietOK /\ CheckOK
      /\ script.step = "delete" /\ script \in Script /\ f \in Files
      /\ f \in Photos \cup {Pdf} /\ (f = Pdf => report.bundle # None)
      /\ (f # Pdf => script.bytes = Overwritten)
      /\ UNCHANGED <<report, record, requests, pipeline, ghosts, hashing, check>>
  BY KindsDiffer DEF TamperDeletes, unfiled, VerifyInv, Stage, ScriptOK
<1> HIDE DEF f
<1>2. CASE blobs[f] = None
  <2>1. script' = Idle /\ UNCHANGED <<blobs, overwritten>>
    BY <1>2 DEF TamperDeletes, f
  <2>2. Idle \in Script /\ Idle.step = "idle"
    BY DEF Idle, Script
  <2>3. Typed' /\ PipelineOK' /\ FilesOK' /\ ScriptOK'
    BY <1>1, <2>1, <2>2
    DEF Typed, PipelineOK, Preparing, FilesOK, ScriptOK, Up, requests, pipeline, hashing
  <2>4. QuietOK'
    BY <1>1, <2>1, <2>2
    DEF QuietOK, Quiet, DraftIsReport, Preparing, Kept, Missing, InHand, Gone, Listed,
        requests, pipeline, ghosts, hashing
  <2>5. CheckOK'
    BY <1>1, <2>1, CheckRests DEF CheckOK, DamageOK, ghosts, hashing
  <2> QED
    BY <2>3, <2>4, <2>5 DEF VerifyInv, Stage
<1>3. CASE blobs[f] # None
  <2>1. /\ script' = [script EXCEPT !.step = "upload"]
        /\ blobs' = [blobs EXCEPT ![f] = None]
        /\ overwritten' = overwritten \cup {f}
    BY <1>3 DEF TamperDeletes, f
  <2>2. /\ script' \in Script /\ script'.step = "upload" /\ script'.file = f
        /\ script'.bytes = script.bytes
    BY <1>1, <2>1 DEF Script, f
  <2>3. blobs'[f] = None /\ \A g \in Files \ {f} : blobs'[g] = blobs[g]
    BY <1>1, <2>1 DEF Typed
  <2>4. Typed' /\ PipelineOK'
    BY <1>1, <2>1 DEF Typed, PipelineOK, Preparing, requests, pipeline, hashing
  <2>5. ScriptOK'
    BY <1>1, <1>3, <2>1, <2>2 DEF ScriptOK, FilesOK, Up, requests
  <2>6. FilesOK'
    BY <1>1, <2>3 DEF FilesOK, Up, requests, pipeline, hashing
  <2>7. QuietOK'
    <3> SUFFICES ASSUME Quiet PROVE /\ \A q \in Requests : pc[q] \in {"new", "announce", "done"}
                                    /\ DraftIsReport'
                                    /\ report.bundle # None => report.hashes = report.bundle
                                    /\ Kept' /\ Missing'
      BY <1>1 DEF QuietOK, Quiet, requests, ghosts
    <3>1. /\ DraftIsReport /\ Kept /\ Missing /\ InHand \subseteq Files
          /\ \A q \in Requests : pc[q] \in {"new", "announce", "done"}
          /\ report.bundle # None => report.hashes = report.bundle
      BY <1>1, ReportType, KindsDiffer DEF QuietOK, InHand, Typed
    <3>2. DraftIsReport'
      BY <1>1, <3>1 DEF DraftIsReport, Preparing, pipeline
    <3>3. Kept'
      BY <1>1, <2>1, <2>3, <3>1 DEF Kept, InHand, pipeline, hashing
    <3>4. Missing'
      <4>1. \A g \in Files : Gone(g) => Gone(g)'
        BY <1>3, <2>2, <2>3 DEF Gone
      <4>2. Listed(report) \subseteq Files
        BY <1>1, ReportType, KindsDiffer DEF Typed
      <4> QED
        BY <1>1, <3>1, <4>1, <4>2 DEF Missing, pipeline, ghosts, hashing
    <3> QED
      BY <3>1, <3>2, <3>3, <3>4
  <2>8. CheckOK'
    <3>1. \A g \in check.damaged \cap Covered : blobs'[g] # hashed[g]
      BY <1>1, <2>3, KindsDiffer DEF CheckOK, DamageOK, FilesOK, Check
    <3>2. Recomputed'
      BY <2>1 DEF Recomputed
    <3>3. ReadOK' /\ ScopeOK' /\ VerdictOK' /\ SealedOnly' /\ check' \in Check
      BY <1>1 DEF CheckOK, ReadOK, ScopeOK, VerdictOK, SealedOnly, NothingRead, Covered, Anchored,
                  SameHashes, ghosts, hashing
    <3>4. DamageOK'
      BY <1>1, <3>1 DEF CheckOK, DamageOK, Covered, hashing
    <3> QED
      BY <3>2, <3>3, <3>4 DEF CheckOK
  <2> QED
    BY <2>4, <2>5, <2>6, <2>7, <2>8 DEF VerifyInv, Stage
<1> QED
  BY <1>2, <1>3

LEMMA TamperUploadsKeeps ==
  ASSUME VerifyInv, TamperUploads
  PROVE  VerifyInv'
<1> DEFINE f == script.file
<1>1. /\ Typed /\ PipelineOK /\ ScriptOK /\ FilesOK /\ QuietOK /\ CheckOK
      /\ script.step = "upload" /\ f \in Files /\ f \in overwritten /\ Up(f)
      /\ script.bytes \in {f, Overwritten}
      /\ script' = Idle /\ blobs' = [blobs EXCEPT ![f] = script.bytes]
      /\ UNCHANGED <<report, record, requests, pipeline, ghosts, hashing, overwritten>>
  BY KindsDiffer DEF TamperUploads, unfiled, VerifyInv, Stage, ScriptOK, Script
<1>2. check' = IF f \in Covered /\ script.bytes = hashed[f]
                 THEN [check EXCEPT !.damaged = @ \ {f}] ELSE check
  BY DEF TamperUploads
<1> HIDE DEF f
<1>3. Idle \in Script /\ Idle.step = "idle"
  BY DEF Idle, Script
<1>4. blobs'[f] = script.bytes /\ \A g \in Files \ {f} : blobs'[g] = blobs[g]
  BY <1>1 DEF Typed
<1>5. Typed' /\ PipelineOK'
  <2>1. blobs' \in [Files -> Bytes \cup {None}]
    BY <1>1 DEF Typed, Bytes
  <2> QED
    BY <1>1, <2>1 DEF Typed, PipelineOK, Preparing, requests, pipeline, hashing
<1>6. ScriptOK' /\ FilesOK'
  BY <1>1, <1>3, <1>4 DEF ScriptOK, FilesOK, Up, requests, pipeline, hashing
<1>7. QuietOK'
  <2> SUFFICES ASSUME Quiet PROVE /\ \A q \in Requests : pc[q] \in {"new", "announce", "done"}
                                  /\ DraftIsReport'
                                  /\ report.bundle # None => report.hashes = report.bundle
                                  /\ Kept' /\ Missing'
    BY <1>1 DEF QuietOK, Quiet, requests, ghosts
  <2>1. /\ DraftIsReport /\ Kept /\ Missing /\ InHand \subseteq Files
        /\ \A q \in Requests : pc[q] \in {"new", "announce", "done"}
        /\ report.bundle # None => report.hashes = report.bundle
    BY <1>1, ReportType, KindsDiffer DEF QuietOK, InHand, Typed
  <2>2. DraftIsReport'
    BY <1>1, <2>1 DEF DraftIsReport, Preparing, pipeline
  <2>3. Kept'
    BY <1>1, <1>4, <2>1 DEF Kept, InHand, pipeline, hashing
  <2>4. Missing'
    <3>1. \A g \in Files : Gone(g) => Gone(g)'
      BY <1>1, <1>3, <1>4 DEF Gone, f
    <3>2. Listed(report) \subseteq Files
      BY <1>1, ReportType, KindsDiffer DEF Typed
    <3> QED
      BY <1>1, <2>1, <3>1, <3>2 DEF Missing, pipeline, ghosts, hashing
  <2> QED
    BY <2>1, <2>2, <2>3, <2>4
<1>8. /\ check' \in Check
      /\ check'.step = check.step /\ check'.pdf = check.pdf /\ check'.bundle = check.bundle
      /\ check'.unread = check.unread /\ check'.verdict = check.verdict
      /\ check'.damaged \subseteq check.damaged
      /\ f \in check'.damaged \cap Covered => script.bytes # hashed[f]
  BY <1>1, <1>2 DEF CheckOK, Check
<1>9. CheckOK'
  <2>1. UNCHANGED <<report, record, overwritten, late, skipped, away, hashed>> /\ Covered' = Covered
    BY <1>1 DEF ghosts, hashing, Covered
  <2>2. ReadOK' /\ ScopeOK'
    BY <1>1, <1>8, <2>1 DEF CheckOK, ReadOK, ScopeOK
  <2>3. VerdictOK' /\ SealedOnly'
    BY <1>1, <1>8, <2>1 DEF CheckOK, VerdictOK, SealedOnly, NothingRead, Anchored, SameHashes
  <2>4. DamageOK'
    BY <1>1, <1>4, <1>8, <2>1 DEF CheckOK, DamageOK, Check
  <2>5. Recomputed'
    BY <1>1, <2>1 DEF Recomputed
  <2> QED
    BY <1>8, <2>2, <2>3, <2>4, <2>5 DEF CheckOK
<1> QED
  BY <1>5, <1>6, <1>7, <1>9 DEF VerifyInv, Stage

LEMMA TamperFailsKeeps ==
  ASSUME VerifyInv, TamperFails
  PROVE  VerifyInv'
<1>1. /\ Typed /\ PipelineOK /\ ScriptOK /\ FilesOK /\ QuietOK /\ CheckOK
      /\ script' = Idle
      /\ UNCHANGED <<report, blobs, record, requests, pipeline, ghosts, hashing, overwritten, check>>
  BY DEF TamperFails, unverified, VerifyInv, Stage
<1>2. Idle \in Script /\ Idle.step = "idle"
  BY DEF Idle, Script
<1>3. Typed' /\ PipelineOK' /\ FilesOK' /\ ScriptOK'
  BY <1>1, <1>2
  DEF Typed, PipelineOK, Preparing, FilesOK, ScriptOK, Up, requests, pipeline, hashing
<1>4. QuietOK'
  BY <1>1, <1>2
  DEF QuietOK, Quiet, DraftIsReport, Preparing, Kept, Missing, InHand, Gone, Listed,
      requests, pipeline, ghosts, hashing
<1>5. CheckOK'
  BY <1>1, CheckRests DEF CheckOK, DamageOK, ghosts, hashing
<1> QED
  BY <1>3, <1>4, <1>5 DEF VerifyInv, Stage

-----------------------------------------------------------------------------
LEMMA InitVerifies == VerifyInit => VerifyInv
<1> SUFFICES ASSUME VerifyInit PROVE VerifyInv
  OBVIOUS
<1>1. Init /\ EvidenceInv
  BY InitHolds DEF VerifyInit
<1>2. /\ overwritten = {} /\ script = Idle /\ away = FALSE /\ hashed = [f \in Files |-> f]
      /\ check = [step |-> "idle", unread |-> {}, pdf |-> None, bundle |-> {},
                  verdict |-> "none", damaged |-> {}, reliable |-> TRUE]
  BY DEF VerifyInit
<1>3. Typed
  BY <1>1, <1>2 DEF Typed, Init, EvidenceInv, TypeOK, Steps, Busy, Bytes
<1>4. ScriptOK
  BY <1>2 DEF ScriptOK, Script, Idle
<1>5. FilesOK
  BY <1>1, <1>2, KindsDiffer DEF FilesOK, Init
<1>6. PipelineOK /\ QuietOK
  BY <1>1 DEF EvidenceInv, QuietOK, Quiet, Init
<1>7. CheckOK
  <2>1. check \in Check
    <3>1. /\ {} \in SUBSET Attachments /\ {} \in SUBSET Files
          /\ {} \in SUBSET (Attachments \X Bytes) /\ None \in {Pdf, Overwritten, None}
      OBVIOUS
    <3> QED
      BY <1>2, <3>1 DEF Check, Verdicts
  <2>2. NothingRead /\ check.verdict # "VERIFIED"
    BY <1>2 DEF NothingRead
  <2> QED
    BY <2>1, <2>2, NothingReadIsOK
<1> QED
  BY <1>3, <1>4, <1>5, <1>6, <1>7 DEF VerifyInv, Stage

LEMMA VerifyNextHolds == VerifyInv /\ [VerifyNext]_verifyVars => VerifyInv'
<1> SUFFICES ASSUME VerifyInv, [VerifyNext]_verifyVars PROVE VerifyInv'
  OBVIOUS
<1>1. CASE EvidenceStep
  BY <1>1, EvidenceKeeps
<1>2. CASE LoadToVerify \/ VerifyPdf \/ ReadChain
  BY <1>2, LoadToVerifyKeeps, VerifyPdfKeeps, ReadChainKeeps
<1>3. ASSUME NEW f \in Attachments, VerifyAttachment(f) PROVE VerifyInv'
  BY <1>3, VerifyAttachmentKeeps
<1>4. ASSUME NEW f \in Files, TamperLoads(f) PROVE VerifyInv'
  BY <1>4, TamperLoadsKeeps
<1>5. CASE TamperDeletes \/ TamperUploads \/ TamperFails
  BY <1>5, TamperDeletesKeeps, TamperUploadsKeeps, TamperFailsKeeps
<1>6. CASE UNCHANGED verifyVars
  <2>1. UNCHANGED <<report, blobs, record, requests, pipeline, ghosts, tampering, hashing, check>>
    BY <1>6 DEF verifyVars, vars
  <2>2. Stage'
    BY <2>1, OnlyChecks DEF VerifyInv
  <2>3. CheckOK'
    BY <2>1, CheckRests DEF VerifyInv, CheckOK, DamageOK, ghosts, tampering, hashing
  <2> QED
    BY <2>2, <2>3 DEF VerifyInv
<1> QED
  BY <1>1, <1>2, <1>3, <1>4, <1>5, <1>6 DEF VerifyNext

LEMMA VerifyInvariant == VerifySpec => []VerifyInv
<1> QED
  BY InitVerifies, VerifyNextHolds, PTL DEF VerifySpec

(* A verification, the tamper script and the files keep their types.        *)
THEOREM VerificationTypes == VerifySpec => []VerifyTypeOK
<1>1. VerifyInv => VerifyTypeOK
  BY DEF VerifyInv, Stage, Typed, ScriptOK, CheckOK, VerifyTypeOK
<1> QED
  BY <1>1, VerifyInvariant, PTL

-----------------------------------------------------------------------------
LEMMA BytesAreFinite == IsFiniteSet(Attachments \X Bytes)
<1>1. IsFiniteSet(Attachments)
  BY EvidenceAssumption DEF Attachments
<1>2. IsFiniteSet(Files)
  BY <1>1, FS_AddElement DEF Files
<1>3. IsFiniteSet(Bytes)
  BY <1>2, FS_AddElement DEF Bytes
<1> QED
  BY <1>1, <1>3, FS_Product

(* Two bundles with the same hashes: whatever the one has, the other has. *)
LEMMA SameHashesShared ==
  ASSUME NEW es \in SUBSET (Attachments \X Bytes), NEW fs \in SUBSET (Attachments \X Bytes),
         SameHashes(es, fs), NEW d \in fs
  PROVE  \E e \in es : e[2] = d[2]
<1> DEFINE mine == {e \in es : e[2] = d[2]}
           theirs == {e \in fs : e[2] = d[2]}
<1>1. d[2] \in Bytes /\ d \in theirs
  OBVIOUS
<1>2. Cardinality(mine) = Cardinality(theirs)
  BY <1>1 DEF SameHashes
<1>3. IsFiniteSet(mine) /\ IsFiniteSet(theirs)
  BY BytesAreFinite, FS_Subset
<1>4. mine # {}
  <2> HIDE DEF mine, theirs
  <2> QED
    BY <1>1, <1>2, <1>3, FS_EmptySet
<1> QED
  BY <1>4

(* If moreover the one has nothing of its own, they are the same. *)
LEMMA SameHashesEqual ==
  ASSUME NEW es \in SUBSET (Attachments \X Bytes), NEW fs \in SUBSET (Attachments \X Bytes),
         SameHashes(es, fs), NEW h \in Bytes, \A e \in es : e[2] = h => e \in fs,
         NEW d \in fs, d[2] = h
  PROVE  d \in es
<1> DEFINE mine == {e \in es : e[2] = h}
           theirs == {e \in fs : e[2] = h}
<1>1. Cardinality(mine) = Cardinality(theirs)
  BY DEF SameHashes
<1>2. mine \subseteq theirs /\ IsFiniteSet(theirs) /\ d \in theirs
  BY BytesAreFinite, FS_Subset
<1>3. mine = theirs
  <2> HIDE DEF mine, theirs
  <2> QED
    BY <1>1, <1>2, FS_Subset
<1> QED
  BY <1>2, <1>3

(* What a verdict VERIFIED shows of an anchored file. *)
LEMMA VerifiedShows ==
  ASSUME VerifyInv, check.verdict = "VERIFIED"
  PROVE  /\ Pdf \notin check.damaged
         /\ \A f \in check.damaged \cap Covered : late /\ hashed[f] = Overwritten
<1>1. /\ Stage /\ report.status = "sealed" /\ check.pdf = Pdf
      /\ SameHashes(check.bundle, Anchored) /\ CheckOK
  BY KindsDiffer DEF VerifyInv, CheckOK, VerdictOK, SealedOnly, NothingRead
<1>2. Pdf \notin check.damaged
  BY <1>1 DEF CheckOK, DamageOK
<1>3. record \in SUBSET Attachments /\ Covered = record \cup {Pdf}
  BY <1>1, SealIsAnchored
<1>4. /\ check.bundle \in SUBSET (Attachments \X Bytes)
      /\ Anchored \in SUBSET (Attachments \X Bytes)
  BY <1>1, <1>3, KindsDiffer DEF CheckOK, Check, Anchored, Stage, Typed
<1>5. \A f \in record : /\ <<f, hashed[f]>> \in Anchored
                        /\ hashed[f] \in {f, Overwritten} /\ f \in Files /\ f # Overwritten
  BY <1>1, <1>3, KindsDiffer DEF Anchored, Stage, FilesOK
<1>6. ASSUME NEW f \in record, hashed[f] = f
      PROVE  <<f, f>> \in check.bundle
  <2> DEFINE d == <<f, f>>
  <2>0. d \in Anchored /\ d[2] = f
    BY <1>5, <1>6
  <2>1. PICK e \in check.bundle : e[2] = f
    <3> HIDE DEF d
    <3> QED
      BY <1>1, <1>4, <2>0, SameHashesShared
  <2>2. e[1] = f
    BY <1>1, <1>5, <2>1 DEF CheckOK, ReadOK
  <2> QED
    BY <1>4, <2>1, <2>2
<1>7. ASSUME NEW f \in check.damaged \cap Covered
      PROVE  late /\ hashed[f] = Overwritten
  <2>1. f \in record /\ <<f, hashed[f]>> \notin check.bundle
    BY <1>1, <1>2, <1>3, <1>7 DEF CheckOK, ReadOK
  <2>2. hashed[f] = Overwritten
    BY <1>5, <1>6, <2>1
  <2>3. ASSUME ~late PROVE FALSE
    <3>1. ASSUME NEW e \in check.bundle, e[2] = Overwritten PROVE e \in Anchored
      <4>1. e[1] \in record /\ e = <<e[1], Overwritten>>
        BY <1>1, <1>3, <1>4, <2>3, <3>1, KindsDiffer DEF CheckOK, ScopeOK
      <4>2. hashed[e[1]] # e[1]
        <5> SUFFICES ASSUME hashed[e[1]] = e[1] PROVE FALSE
          OBVIOUS
        <5>1. <<e[1], e[1]>> \in check.bundle
          BY <1>6, <4>1
        <5>2. <<e[1], e[1]>> = e
          BY <1>1, <5>1 DEF CheckOK, ReadOK
        <5> QED
          BY <1>5, <3>1, <4>1, <5>2
      <4> QED
        BY <1>5, <4>1, <4>2
    <3>2. <<f, Overwritten>> \in Anchored /\ Overwritten \in Bytes
      BY <1>5, <2>1, <2>2 DEF Bytes
    <3>3. <<f, Overwritten>> \in check.bundle
      BY <1>1, <1>4, <3>1, <3>2, SameHashesEqual
    <3> QED
      BY <2>1, <2>2, <3>3
  <2> QED
    BY <2>2, <2>3
<1> QED
  BY <1>2, <1>7

(* verifyReport says VERIFIED only of a report whose PDF held the anchored   *)
(* bytes, and whose anchored attachments did, when it began or since: a file *)
(* the script is just replacing, or one that cannot be read, never makes a   *)
(* damaged report pass.  The one way out needs a request that outlived the   *)
(* lock and a file that was replaced before its hash was taken.              *)
THEOREM VerifiedWasNotReplaced == VerifySpec => []VerifiedWasIntact
<1>1. VerifyInv => VerifiedWasIntact
  BY VerifiedShows DEF VerifiedWasIntact
<1> QED
  BY <1>1, VerifyInvariant, PTL

(* Whoever replaces a listed photo or the PDF after the pipeline has hashed   *)
(* it is found out, for any photos, failing reads of the verification and     *)
(* runs of the script, before and after the seal; if nothing outlived the     *)
(* lock, no read of the pipeline failed and the script had no photo in its    *)
(* hands when the pipeline looked for it.                                     *)
THEOREM ReplacementIsFound == VerifySpec => []ReplacedIsNotVerified
<1>1. VerifyInv => ReplacedIsNotVerified
  <2> SUFFICES ASSUME VerifyInv, check.verdict = "VERIFIED", ~late, ~skipped, ~away
               PROVE  check.damaged \cap (report.photos \cup {Pdf}) = {}
    BY DEF ReplacedIsNotVerified
  <2>1. check.damaged \cap report.photos \subseteq Covered
    BY DEF VerifyInv, CheckOK, ScopeOK
  <2> QED
    BY <2>1, VerifiedShows
<1> QED
  BY <1>1, VerifyInvariant, PTL

(* A sealed report that nothing outlived the lock of and nobody touched is   *)
(* VERIFIED by every verification whose calls succeed.                       *)
THEOREM UntouchedIsVerified == VerifySpec => []SealedVerifies
<1>1. VerifyInv => SealedVerifies
  BY DEF VerifyInv, CheckOK, Recomputed, SealedVerifies
<1> QED
  BY <1>1, VerifyInvariant, PTL

-----------------------------------------------------------------------------
(* Verifications and scripts/tamper.js leave the report's life alone.       *)
LEMMA VerifyNextLives == VerifyInv /\ [VerifyNext]_verifyVars => LifeStep
<1> SUFFICES ASSUME VerifyInv, [VerifyNext]_verifyVars PROVE LifeStep
  OBVIOUS
<1>1. LifeInv
  BY DEF VerifyInv, Stage, Typed, LifeInv
<1>2. CASE EvidenceStep
  BY <1>1, <1>2, NextLives DEF EvidenceStep
<1>3. ASSUME UNCHANGED <<report, record>> PROVE LifeStep
  BY <1>3 DEF LifeStep, Life!life
<1>4. CASE LoadToVerify \/ \E f \in Files : TamperLoads(f)
  BY <1>3, <1>4 DEF LoadToVerify, TamperLoads, vars
<1>5. CASE VerifyPdf \/ ReadChain \/ \E f \in Attachments : VerifyAttachment(f)
  BY <1>3, <1>5 DEF VerifyPdf, ReadChain, VerifyAttachment, unverified
<1>6. CASE TamperDeletes \/ TamperUploads \/ TamperFails
  BY <1>3, <1>6 DEF TamperDeletes, TamperUploads, TamperFails, unfiled, unverified
<1>7. CASE UNCHANGED verifyVars
  BY <1>3, <1>7 DEF verifyVars, vars
<1> QED
  BY <1>2, <1>4, <1>5, <1>6, <1>7 DEF VerifyNext

(* The composed system, with uploads, the pipeline, verifications and files *)
(* that are replaced under the report, still seals as SealedReport says.    *)
THEOREM VerificationImplementsLife == VerifySpec => ImplementsLife
<1>1. VerifyInit => Life!Init
  BY DEF VerifyInit, Init, Life!Init
<1>2. VerifyInv /\ [VerifyNext]_verifyVars => [Life!Next]_(Life!life)
  BY VerifyNextLives DEF LifeStep
<1> QED
  BY <1>1, <1>2, VerifyInvariant, PTL DEF VerifySpec, ImplementsLife, Life!Spec

=============================================================================
