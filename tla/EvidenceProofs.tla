--------------------------- MODULE EvidenceProofs ---------------------------
(***************************************************************************)
(* For any uploads and deletions, whatever calls fail and whenever the     *)
(* server restarts: accepted photos stay, hashes follow the lists, and a   *)
(* report that no request outlived the lock of is sealed intact.           *)
(***************************************************************************)
EXTENDS Evidence, FiniteSetTheorems, TLAPS

Stored(fs) == {f \in fs : blobs[f] # None}

(* The version names the two lists: a copy that is as old as the report     *)
(* holds the same ones, though not the same sketch.                         *)
Current(r) == /\ r.v <= report.v
              /\ r.v = report.v => r.photos = report.photos /\ r.hashes = report.hashes

RequestOK(r) ==
  /\ pc[r] \in {"store", "drop", "save", "patch"} => copy[r] \in Report /\ Current(copy[r])
  /\ pc[r] \in {"announce", "patch"} => r \in Sketches

(* No request is under way behind the lock. *)
Quiet == report.status # "waiting" /\ ~late

QuietRequests == Quiet => \A r \in Requests : pc[r] \in {"new", "announce", "done"}

(* What the pipeline knows of its own progress. *)
Preparing == attempt \in {"lock", "pdf", "store", "collect"}

PipelineOK ==
  /\ attempt # "idle" => report.status \in {"signing", "finalizing"}
  /\ attempt \notin {"idle", "lock"} => report.status = "finalizing"
  /\ report.status \in {"waiting", "signing"} => report.bundle = None
  /\ Preparing => draft \in Report /\ report.bundle = None
  /\ attempt \in {"anchor", "seal"} => report.bundle # None
  /\ attempt = "seal" \/ report.status = "sealed" => record # None
  /\ record \in {None, report.bundle}

(* What the seal is made from, once nothing moves under the pipeline.       *)
DraftIsReport ==
  Preparing => /\ draft.v = report.v
               /\ draft.photos = report.photos
               /\ draft.sketch = report.sketch
               /\ draft.hashes = report.hashes

DrawnOK ==
  (attempt \in {"store", "collect"} \/ report.bundle # None) /\ ~skipped
    => drawn = Stored(Listed(report))

CollectedOK ==
  attempt = "collect" => /\ blobs[Pdf] = Pdf
                         /\ unread \subseteq Listed(report)
                         /\ collected \subseteq Stored(Listed(report))
                         /\ ~skipped => Stored(Listed(report)) \subseteq collected \cup unread

BundleOK ==
  report.bundle # None => /\ report.hashes = report.bundle
                          /\ blobs[Pdf] = Pdf
                          /\ report.bundle \subseteq Stored(Listed(report))
                          /\ ~skipped => report.bundle = Stored(Listed(report))

SealOK == Quiet => DraftIsReport /\ DrawnOK /\ CollectedOK /\ BundleOK

FilesAreTheirs == \A f \in Files : blobs[f] \in {f, None}

EvidenceInv == /\ TypeOK
               /\ \A r \in Requests : RequestOK(r)
               /\ AcceptedPhotoStays
               /\ EvidenceIsHashed
               /\ FilesAreTheirs
               /\ QuietRequests
               /\ PipelineOK
               /\ SealOK

-----------------------------------------------------------------------------
(* The types, but for the count of failures.                                *)
LEMMA ReportType ==
  ASSUME NEW r \in Report
  PROVE  /\ r.status \in {"waiting", "signing", "finalizing", "sealed"}
         /\ r.photos \in SUBSET Photos
         /\ r.sketch \in Sketches \cup {None}
         /\ r.hashes \in SUBSET Attachments
         /\ r.bundle \in (SUBSET Attachments) \cup {None}
         /\ r.v \in Nat
         /\ Listed(r) \in SUBSET Attachments
  BY DEF Report, Listed, Attachments

LEMMA StatusWrite ==
  ASSUME NEW r \in Report, NEW s \in {"waiting", "signing", "finalizing", "sealed"}
  PROVE  [r EXCEPT !.status = s] \in Report
  BY DEF Report

LEMMA PhotosWrite ==
  ASSUME NEW r \in Report, NEW p \in SUBSET Photos, NEW h \in SUBSET Attachments, NEW v \in Nat
  PROVE  [r EXCEPT !.photos = p, !.hashes = h, !.v = v] \in Report
  BY DEF Report

LEMMA SketchWrite ==
  ASSUME NEW r \in Report, NEW s \in Sketches, NEW h \in SUBSET Attachments, NEW v \in Nat
  PROVE  /\ [r EXCEPT !.sketch = s, !.hashes = h, !.v = v] \in Report
         /\ [r EXCEPT !.sketch = s] \in Report
  BY DEF Report

LEMMA BundleWrite ==
  ASSUME NEW r \in Report, NEW b \in SUBSET Attachments, NEW h \in SUBSET Attachments, NEW v \in Nat
  PROVE  [r EXCEPT !.bundle = b, !.hashes = h, !.v = v] \in Report
  BY DEF Report

LEMMA NoneIsNoBundle == \A b \in SUBSET Attachments : b # None
  BY EvidenceAssumption DEF Attachments

LEMMA InitHolds == Init => EvidenceInv
<1> SUFFICES ASSUME Init PROVE EvidenceInv
  OBVIOUS
<1>1. TypeOK
  <2>1. report \in Report
    <3>1. report = [status |-> "waiting", photos |-> {}, sketch |-> None,
                    hashes |-> {}, bundle |-> None, v |-> 0]
      BY DEF Init
    <3>2. /\ {} \in SUBSET Photos /\ {} \in SUBSET Attachments
          /\ None \in Sketches \cup {None} /\ None \in (SUBSET Attachments) \cup {None}
          /\ 0 \in Nat
      OBVIOUS
    <3> QED
      BY <3>1, <3>2 DEF Report
  <2>2. /\ blobs \in [Files -> Files \cup {None}]
        /\ pc \in [Requests -> {"new", "store", "drop", "save", "announce", "patch", "done"}]
        /\ copy \in [Requests -> Report \cup {None}]
        /\ target \in [Deletes -> Photos \cup {None}]
    BY DEF Init
  <2>3. draft = None /\ record = None /\ attempt = "idle" /\ failures = 0
    BY DEF Init
  <2>4. /\ unread = {} /\ drawn = {} /\ collected = {} /\ accepted = {} /\ revived = {}
    BY DEF Init
  <2>5. {late, skipped} \subseteq BOOLEAN
    BY DEF Init
  <2> QED
    BY <2>1, <2>2, <2>3, <2>4, <2>5 DEF TypeOK
<1>2. \A r \in Requests : RequestOK(r)
  BY DEF Init, RequestOK
<1>3. AcceptedPhotoStays /\ EvidenceIsHashed
  BY DEF Init, AcceptedPhotoStays, EvidenceIsHashed, Listed
<1>4. FilesAreTheirs /\ QuietRequests /\ PipelineOK /\ SealOK
  BY DEF Init, FilesAreTheirs, QuietRequests, PipelineOK, SealOK, Quiet, Preparing
<1> QED
  BY <1>1, <1>2, <1>3, <1>4 DEF EvidenceInv

-----------------------------------------------------------------------------
(* A request that stores nothing disturbs nothing but its own knowledge,    *)
(* and only what is under way behind the lock would matter.                 *)
LEMMA RequestMoves ==
  ASSUME EvidenceInv, NEW r \in Requests,
         UNCHANGED <<report, record, pipeline, accepted, revived, late, skipped>>,
         TypeOK', RequestOK(r)', FilesAreTheirs',
         \A q \in Requests \ {r} : pc'[q] = pc[q] /\ copy'[q] = copy[q],
         Quiet => UNCHANGED blobs /\ pc'[r] \in {"new", "announce", "done"}
  PROVE  EvidenceInv'
<1>1. \A q \in Requests : RequestOK(q)'
  BY DEF EvidenceInv, RequestOK, Current
<1>2. AcceptedPhotoStays' /\ EvidenceIsHashed'
  BY DEF EvidenceInv, AcceptedPhotoStays, EvidenceIsHashed, Listed
<1>3. QuietRequests' /\ PipelineOK'
  BY DEF EvidenceInv, QuietRequests, Quiet, PipelineOK, Preparing, pipeline
<1>4. SealOK'
  BY DEF EvidenceInv, SealOK, Quiet, DraftIsReport, DrawnOK, CollectedOK, BundleOK, Preparing,
         Stored, Listed, pipeline
<1> QED
  BY <1>1, <1>2, <1>3, <1>4 DEF EvidenceInv

LEMMA BusyIsLoud ==
  ASSUME EvidenceInv, NEW r \in Requests, pc[r] \in {"store", "drop", "save", "patch"}
  PROVE  ~Quiet /\ copy[r] \in Report /\ Current(copy[r])
  BY DEF EvidenceInv, QuietRequests, RequestOK

LEMMA GotoMoves ==
  ASSUME EvidenceInv, NEW r \in Requests,
         NEW s \in {"new", "store", "drop", "save", "announce", "patch", "done"}, Goto(r, s)
  PROVE  /\ pc' \in [Requests -> {"new", "store", "drop", "save", "announce", "patch", "done"}]
         /\ pc'[r] = s /\ copy'[r] = copy[r]
         /\ \A q \in Requests \ {r} : pc'[q] = pc[q] /\ copy'[q] = copy[q]
         /\ copy' \in [Requests -> Report \cup {None}]
         /\ target' \in [Deletes -> Photos \cup {None}]
  BY DEF EvidenceInv, TypeOK, Goto

LEMMA DoneMoves ==
  ASSUME EvidenceInv, NEW r \in Requests, Done(r)
  PROVE  /\ pc' \in [Requests -> {"new", "store", "drop", "save", "announce", "patch", "done"}]
         /\ pc'[r] = "done" /\ RequestOK(r)'
         /\ \A q \in Requests \ {r} : pc'[q] = pc[q] /\ copy'[q] = copy[q]
         /\ copy' \in [Requests -> Report \cup {None}]
         /\ target' \in [Deletes -> Photos \cup {None}]
  BY DEF EvidenceInv, TypeOK, Done, RequestOK

LEMMA AnsweredMoves ==
  ASSUME EvidenceInv, NEW r \in Sketches, Answered(r)
  PROVE  /\ pc' \in [Requests -> {"new", "store", "drop", "save", "announce", "patch", "done"}]
         /\ pc'[r] = "announce" /\ RequestOK(r)'
         /\ \A q \in Requests \ {r} : pc'[q] = pc[q] /\ copy'[q] = copy[q]
         /\ copy' \in [Requests -> Report \cup {None}]
         /\ target' \in [Deletes -> Photos \cup {None}]
  BY DEF EvidenceInv, TypeOK, Answered, RequestOK, Requests, Attachments

LEMMA GuardHolds ==
  ASSUME EvidenceInv, NEW r \in Requests, Guard(r)
  PROVE  EvidenceInv'
<1>1. UNCHANGED <<report, blobs, record, pipeline, accepted, revived, late, skipped, failures>>
  BY DEF Guard, ghosts
<1>2. FilesAreTheirs'
  BY <1>1 DEF EvidenceInv, FilesAreTheirs
<1>3. CASE Locked(report) /\ Done(r)
  <2>1. TypeOK'
    BY <1>1, <1>3, DoneMoves DEF EvidenceInv, TypeOK, pipeline
  <2> QED
    BY <1>1, <1>2, <1>3, <2>1, DoneMoves, RequestMoves
<1>4. CASE /\ ~Locked(report)
           /\ \E s \in {"store", "drop"} : pc' = [pc EXCEPT ![r] = s]
           /\ copy' = [copy EXCEPT ![r] = report]
           /\ \/ UNCHANGED target
              \/ \E f \in report.photos : target' = [target EXCEPT ![r] = f]
  <2>1. report \in Report /\ report.status = "waiting"
    BY <1>4, ReportType DEF EvidenceInv, TypeOK, Locked, LOCKED_STATUSES
  <2>2. target' \in [Deletes -> Photos \cup {None}]
    BY <1>4, <2>1, ReportType DEF EvidenceInv, TypeOK
  <2>3. TypeOK'
    BY <1>1, <1>4, <2>1, <2>2 DEF EvidenceInv, TypeOK, pipeline
  <2>4. copy'[r] = report /\ \A q \in Requests \ {r} : pc'[q] = pc[q] /\ copy'[q] = copy[q]
    BY <1>4 DEF EvidenceInv, TypeOK
  <2>5. RequestOK(r)'
    <3>1. Current(report)'
      BY <1>1, <2>1, ReportType DEF Current
    <3>2. pc'[r] \in {"store", "drop"}
      BY <1>4 DEF EvidenceInv, TypeOK
    <3> QED
      BY <1>1, <2>1, <2>4, <3>1, <3>2 DEF RequestOK, Current
  <2>6. ~Quiet
    BY <2>1 DEF Quiet
  <2> QED
    BY <1>1, <1>2, <2>3, <2>4, <2>5, <2>6, RequestMoves
<1> QED
  BY <1>3, <1>4 DEF Guard

LEMMA StoreHolds ==
  ASSUME EvidenceInv, NEW r \in Requests, Store(r)
  PROVE  EvidenceInv'
<1> DEFINE next == IF r \in Sketches /\ Replaced(r) # None THEN "drop" ELSE "save"
<1>1. /\ blobs' = [blobs EXCEPT ![r] = r]
      /\ Goto(r, next)
      /\ UNCHANGED <<report, record, pipeline, accepted, revived, late, skipped, failures>>
  BY DEF Store, ghosts
<1>2. ~Quiet /\ copy[r] \in Report /\ Current(copy[r])
  BY BusyIsLoud DEF Store
<1>3. blobs' \in [Files -> Files \cup {None}] /\ FilesAreTheirs'
  <2>1. \A f \in Files : blobs'[f] \in {f, None}
    BY <1>1 DEF EvidenceInv, TypeOK, FilesAreTheirs
  <2>2. blobs' \in [Files -> Files \cup {None}]
    BY <1>1, <2>1 DEF EvidenceInv, TypeOK
  <2> QED
    BY <2>1, <2>2 DEF FilesAreTheirs
<1>4. TypeOK'
  BY <1>1, <1>3, GotoMoves DEF EvidenceInv, TypeOK, pipeline
<1>5. RequestOK(r)'
  BY <1>1, <1>2, GotoMoves DEF RequestOK, Current
<1> QED
  BY <1>1, <1>2, <1>3, <1>4, <1>5, GotoMoves, RequestMoves

LEMMA DropHolds ==
  ASSUME EvidenceInv, NEW r \in Requests, Drop(r)
  PROVE  EvidenceInv'
<1>1. /\ blobs' = [blobs EXCEPT ![Replaced(r)] = None]
      /\ Goto(r, "save")
      /\ UNCHANGED <<report, record, pipeline, accepted, revived, late, skipped, failures>>
  BY DEF Drop, ghosts
<1>2. ~Quiet /\ copy[r] \in Report /\ Current(copy[r])
  BY BusyIsLoud DEF Drop
<1>3. blobs' \in [Files -> Files \cup {None}] /\ FilesAreTheirs'
  BY <1>1 DEF EvidenceInv, TypeOK, FilesAreTheirs
<1>4. TypeOK'
  BY <1>1, <1>3, GotoMoves DEF EvidenceInv, TypeOK, pipeline
<1>5. RequestOK(r)'
  BY <1>1, <1>2, GotoMoves DEF RequestOK, Current
<1> QED
  BY <1>1, <1>2, <1>3, <1>4, <1>5, GotoMoves, RequestMoves

LEMMA DropFailsHolds ==
  ASSUME EvidenceInv, NEW r \in Requests, DropFails(r)
  PROVE  EvidenceInv'
<1>1. /\ Goto(r, "save")
      /\ UNCHANGED <<report, blobs, record, pipeline, accepted, revived, late, skipped>>
      /\ failures' = failures + 1
  BY DEF DropFails, ghosts
<1>2. ~Quiet /\ copy[r] \in Report /\ Current(copy[r])
  BY BusyIsLoud DEF DropFails
<1>3. TypeOK' /\ FilesAreTheirs'
  BY <1>1, GotoMoves DEF EvidenceInv, TypeOK, FilesAreTheirs, pipeline
<1>4. RequestOK(r)'
  BY <1>1, <1>2, GotoMoves DEF RequestOK, Current
<1> QED
  BY <1>1, <1>2, <1>3, <1>4, GotoMoves, RequestMoves

LEMMA SkipAnnounceHolds ==
  ASSUME EvidenceInv, NEW r \in Requests, SkipAnnounce(r)
  PROVE  EvidenceInv'
<1>1. /\ Done(r)
      /\ UNCHANGED <<report, blobs, record, pipeline, accepted, revived, late, skipped, failures>>
  BY DEF SkipAnnounce, ghosts
<1>2. TypeOK' /\ FilesAreTheirs'
  BY <1>1, DoneMoves DEF EvidenceInv, TypeOK, FilesAreTheirs, pipeline
<1> QED
  BY <1>1, <1>2, DoneMoves, RequestMoves

LEMMA LoadAnnouncedHolds ==
  ASSUME EvidenceInv, NEW r \in Requests, LoadAnnounced(r)
  PROVE  EvidenceInv'
<1>1. UNCHANGED <<report, blobs, record, pipeline, accepted, revived, late, skipped, failures>>
  BY DEF LoadAnnounced, ghosts
<1>2. FilesAreTheirs'
  BY <1>1 DEF EvidenceInv, FilesAreTheirs
<1>3. CASE Done(r)
  <2>1. TypeOK'
    BY <1>1, <1>3, DoneMoves DEF EvidenceInv, TypeOK, pipeline
  <2> QED
    BY <1>1, <1>2, <1>3, <2>1, DoneMoves, RequestMoves
<1>4. CASE /\ ~Locked(report)
           /\ pc' = [pc EXCEPT ![r] = "patch"]
           /\ copy' = [copy EXCEPT ![r] = report]
           /\ UNCHANGED target
  <2>1. report \in Report /\ report.status = "waiting"
    BY <1>4, ReportType DEF EvidenceInv, TypeOK, Locked, LOCKED_STATUSES
  <2>2. TypeOK'
    BY <1>1, <1>4, <2>1 DEF EvidenceInv, TypeOK, pipeline
  <2>3. /\ pc'[r] = "patch" /\ copy'[r] = report
        /\ \A q \in Requests \ {r} : pc'[q] = pc[q] /\ copy'[q] = copy[q]
    BY <1>4 DEF EvidenceInv, TypeOK
  <2>4. RequestOK(r)'
    <3>1. r \in Sketches
      BY DEF LoadAnnounced, EvidenceInv, RequestOK
    <3>2. Current(report)'
      BY <1>1, <2>1, ReportType DEF Current
    <3> QED
      BY <1>1, <2>1, <2>3, <3>1, <3>2 DEF RequestOK, Current
  <2>5. ~Quiet
    BY <2>1 DEF Quiet
  <2> QED
    BY <1>1, <1>2, <2>2, <2>3, <2>4, <2>5, RequestMoves
<1> QED
  BY <1>3, <1>4 DEF LoadAnnounced

LEMMA CallRejectsHolds ==
  ASSUME EvidenceInv, NEW r \in Requests, CallRejects(r)
  PROVE  EvidenceInv'
<1>1. /\ Done(r)
      /\ UNCHANGED <<report, blobs, record, pipeline, accepted, revived, late, skipped>>
      /\ failures' = failures + 1
  BY DEF CallRejects, ghosts
<1>2. TypeOK' /\ FilesAreTheirs'
  BY <1>1, DoneMoves DEF EvidenceInv, TypeOK, FilesAreTheirs, pipeline
<1> QED
  BY <1>1, <1>2, DoneMoves, RequestMoves

-----------------------------------------------------------------------------
(* A request that writes the report does so before the lock, or late; the   *)
(* copies the others hold are told apart from it by the version, or still   *)
(* have its lists.                                                          *)
LEMMA OthersStayCurrent ==
  ASSUME EvidenceInv, NEW r \in Requests, report \in Report,
         \A q \in Requests \ {r} : pc'[q] = pc[q] /\ copy'[q] = copy[q],
         \/ report'.v = report.v + 1
         \/ /\ report'.v = report.v
            /\ report'.photos = report.photos
            /\ report'.hashes = report.hashes
  PROVE  \A q \in Requests \ {r} : RequestOK(q)'
<1> SUFFICES ASSUME NEW q \in Requests \ {r}, pc[q] \in {"store", "drop", "save", "patch"}
             PROVE  copy[q] \in Report /\ Current(copy[q])'
  BY DEF EvidenceInv, RequestOK
<1>1. copy[q] \in Report /\ Current(copy[q])
  BY DEF EvidenceInv, RequestOK
<1>2. copy'[q] = copy[q] /\ copy[q].v \in Nat /\ report.v \in Nat
  BY <1>1, ReportType
<1> QED
  BY <1>1, <1>2 DEF Current

LEMMA LoudWrite ==
  ASSUME EvidenceInv, ~Quiet,
         report' \in Report, report'.status = report.status, report'.bundle = report.bundle,
         UNCHANGED <<blobs, record, pipeline, late, skipped, failures>>,
         accepted' \subseteq report'.photos, revived' \subseteq Sketches,
         pc' \in [Requests -> {"new", "store", "drop", "save", "announce", "patch", "done"}],
         copy' \in [Requests -> Report \cup {None}],
         target' \in [Deletes -> Photos \cup {None}],
         \A q \in Requests : RequestOK(q)',
         EvidenceIsHashed'
  PROVE  EvidenceInv'
<1>1. TypeOK'
  <2>1. accepted' \subseteq Photos
    BY ReportType
  <2> QED
    BY <2>1 DEF EvidenceInv, TypeOK, pipeline
<1>2. AcceptedPhotoStays' /\ FilesAreTheirs'
  BY DEF EvidenceInv, AcceptedPhotoStays, FilesAreTheirs
<1>3. ~Quiet'
  BY DEF Quiet
<1>4. QuietRequests' /\ SealOK'
  BY <1>3 DEF QuietRequests, SealOK
<1>5. PipelineOK'
  BY DEF EvidenceInv, PipelineOK, Preparing, pipeline
<1> QED
  BY <1>1, <1>2, <1>4, <1>5 DEF EvidenceInv

LEMMA SavePhotoHolds ==
  ASSUME EvidenceInv, NEW r \in Requests, SavePhoto(r)
  PROVE  EvidenceInv'
<1>1. r \in Photos /\ ~Quiet /\ Done(r)
  BY BusyIsLoud DEF SavePhoto
<1>2. report \in Report /\ report.v + 1 \in Nat
  BY ReportType DEF EvidenceInv, TypeOK
<1>3. report' = [report EXCEPT !.photos = report.photos \cup {r},
                               !.hashes = report.hashes \cup {r}, !.v = report.v + 1]
  BY <1>2 DEF SavePhoto, Report
<1>4. report' \in Report
  <2>1. report.photos \cup {r} \in SUBSET Photos /\ report.hashes \cup {r} \in SUBSET Attachments
    BY <1>1, <1>2, ReportType DEF Attachments
  <2> QED
    BY <1>2, <1>3, <2>1, PhotosWrite
<1>5. /\ report'.photos = report.photos \cup {r} /\ report'.hashes = report.hashes \cup {r}
      /\ report'.v = report.v + 1 /\ report'.status = report.status
      /\ report'.bundle = report.bundle /\ report'.sketch = report.sketch
  BY <1>2, <1>3 DEF Report
<1>6. \A q \in Requests : RequestOK(q)'
  BY <1>1, <1>2, <1>5, DoneMoves, OthersStayCurrent
<1>7. EvidenceIsHashed'
  BY <1>5 DEF SavePhoto, EvidenceInv, EvidenceIsHashed, Listed
<1>8. accepted' \subseteq report'.photos
  BY <1>5 DEF SavePhoto, EvidenceInv, AcceptedPhotoStays
<1> QED
  BY <1>1, <1>4, <1>5, <1>6, <1>7, <1>8, DoneMoves, LoudWrite
     DEF SavePhoto, EvidenceInv, TypeOK

(* The version check lets through only the lists the request had loaded.    *)
LEMMA SaveDeleteHolds ==
  ASSUME EvidenceInv, NEW r \in Requests, SaveDelete(r)
  PROVE  EvidenceInv'
<1>1. r \in Deletes /\ ~Quiet /\ Done(r) /\ copy[r] \in Report /\ Current(copy[r])
  BY BusyIsLoud DEF SaveDelete
<1>2. report \in Report /\ report.v + 1 \in Nat
  BY ReportType DEF EvidenceInv, TypeOK
<1>3. CASE UNCHANGED <<report, accepted>>
  <2>1. \A q \in Requests : RequestOK(q)'
    BY <1>1, <1>2, <1>3, DoneMoves, OthersStayCurrent
  <2>2. EvidenceIsHashed'
    BY <1>3 DEF SaveDelete, EvidenceInv, EvidenceIsHashed, Listed
  <2> QED
    BY <1>1, <1>2, <1>3, <2>1, <2>2, DoneMoves, LoudWrite
       DEF SaveDelete, EvidenceInv, TypeOK, AcceptedPhotoStays
<1>4. CASE /\ copy[r].v = report.v
           /\ report' = [report EXCEPT !.photos = copy[r].photos \ {target[r]},
                                       !.hashes = copy[r].hashes \ {target[r]},
                                       !.v = @ + 1]
           /\ accepted' = accepted \ {target[r]}
  <2>1. copy[r].photos = report.photos /\ copy[r].hashes = report.hashes
    BY <1>1, <1>4 DEF Current
  <2>2. report' = [report EXCEPT !.photos = report.photos \ {target[r]},
                                 !.hashes = report.hashes \ {target[r]}, !.v = report.v + 1]
    BY <1>2, <1>4, <2>1 DEF Report
  <2>3. report' \in Report
    <3>1. report.photos \ {target[r]} \in SUBSET Photos /\ report.hashes \ {target[r]} \in SUBSET Attachments
      BY <1>2, ReportType
    <3> QED
      BY <1>2, <2>2, <3>1, PhotosWrite
  <2>4. /\ report'.photos = report.photos \ {target[r]} /\ report'.hashes = report.hashes \ {target[r]}
        /\ report'.v = report.v + 1 /\ report'.status = report.status
        /\ report'.bundle = report.bundle /\ report'.sketch = report.sketch
    BY <1>2, <2>2 DEF Report
  <2>5. \A q \in Requests : RequestOK(q)'
    BY <1>1, <1>2, <2>4, DoneMoves, OthersStayCurrent
  <2>6. EvidenceIsHashed'
    <3>1. target[r] \in Photos \cup {None} /\ report.sketch \in Sketches \cup {None}
      BY <1>1, <1>2, ReportType DEF EvidenceInv, TypeOK
    <3> QED
      BY <2>4, <3>1, EvidenceAssumption DEF SaveDelete, EvidenceInv, EvidenceIsHashed, Listed
  <2>7. accepted' \subseteq report'.photos
    BY <1>4, <2>4 DEF EvidenceInv, AcceptedPhotoStays
  <2> QED
    BY <1>1, <2>3, <2>4, <2>5, <2>6, <2>7, DoneMoves, LoudWrite
       DEF SaveDelete, EvidenceInv, TypeOK
<1> QED
  BY <1>3, <1>4 DEF SaveDelete

LEMMA SaveSketchHolds ==
  ASSUME EvidenceInv, NEW r \in Requests, SaveSketch(r)
  PROVE  EvidenceInv'
<1>1. r \in Sketches /\ ~Quiet /\ copy[r] \in Report /\ Current(copy[r])
  BY BusyIsLoud DEF SaveSketch
<1>2. report \in Report /\ report.v + 1 \in Nat
  BY ReportType DEF EvidenceInv, TypeOK
<1>3. UNCHANGED <<blobs, record, pipeline, accepted, revived, late, skipped, failures>>
  BY DEF SaveSketch, ghosts
<1>4. CASE UNCHANGED report /\ Done(r)
  <2>1. \A q \in Requests : RequestOK(q)'
    BY <1>2, <1>4, DoneMoves, OthersStayCurrent
  <2>2. EvidenceIsHashed'
    BY <1>3, <1>4 DEF EvidenceInv, EvidenceIsHashed, Listed
  <2> QED
    BY <1>1, <1>2, <1>3, <1>4, <2>1, <2>2, DoneMoves, LoudWrite
       DEF EvidenceInv, TypeOK, AcceptedPhotoStays
<1>5. ASSUME NEW h \in SUBSET Attachments, report.hashes \ Sketches \subseteq h, r \in h,
             report' = [report EXCEPT !.sketch = r, !.hashes = h, !.v = report.v + 1],
             Answered(r)
      PROVE  EvidenceInv'
  <2>1. report' \in Report
    BY <1>1, <1>2, <1>5, SketchWrite
  <2>2. /\ report'.photos = report.photos /\ report'.hashes = h
        /\ report'.v = report.v + 1 /\ report'.status = report.status
        /\ report'.bundle = report.bundle /\ report'.sketch = r
    BY <1>2, <1>5 DEF Report
  <2>3. \A q \in Requests : RequestOK(q)'
    BY <1>1, <1>2, <1>5, <2>2, AnsweredMoves, OthersStayCurrent
  <2>4. EvidenceIsHashed'
    <3>1. report.photos \cap Sketches = {}
      BY <1>2, ReportType, EvidenceAssumption
    <3> QED
      BY <1>3, <1>5, <2>2, <3>1 DEF EvidenceInv, TypeOK, EvidenceIsHashed, Listed
  <2> QED
    BY <1>1, <1>3, <1>5, <2>1, <2>2, <2>3, <2>4, AnsweredMoves, LoudWrite
       DEF EvidenceInv, TypeOK, AcceptedPhotoStays
<1>6. CASE /\ report' = [report EXCEPT !.sketch = r, !.hashes = @ \cup {r}, !.v = @ + 1]
           /\ Answered(r)
  <2>1. report.hashes \cup {r} \in SUBSET Attachments
    BY <1>1, <1>2, ReportType DEF Attachments
  <2>2. report' = [report EXCEPT !.sketch = r, !.hashes = report.hashes \cup {r}, !.v = report.v + 1]
    BY <1>2, <1>6 DEF Report
  <2> QED
    BY <1>5, <1>6, <2>1, <2>2
<1>7. CASE /\ copy[r].v = report.v
           /\ report' = [report EXCEPT !.sketch = r,
                                       !.hashes = (copy[r].hashes \ {Replaced(r)}) \cup {r},
                                       !.v = @ + 1]
           /\ Answered(r)
  <2> DEFINE h == (report.hashes \ {Replaced(r)}) \cup {r}
  <2>1. copy[r].hashes = report.hashes
    BY <1>1, <1>7 DEF Current
  <2>2. Replaced(r) \in Sketches \cup {None}
    BY <1>1, ReportType, EvidenceAssumption DEF Replaced
  <2>3. h \in SUBSET Attachments /\ report.hashes \ Sketches \subseteq h /\ r \in h
    <3>1. None \notin report.hashes /\ report.hashes \in SUBSET Attachments
      BY <1>2, ReportType, EvidenceAssumption DEF Attachments
    <3> QED
      BY <1>1, <2>2, <3>1 DEF Attachments
  <2>4. report' = [report EXCEPT !.sketch = r, !.hashes = h, !.v = report.v + 1]
    BY <1>2, <1>7, <2>1 DEF Report
  <2> QED
    BY <1>5, <1>7, <2>3, <2>4
<1> QED
  BY <1>4, <1>6, <1>7 DEF SaveSketch

(* An announced sketch is put back, with or without its hash.               *)
LEMMA SaveAnnouncedHolds ==
  ASSUME EvidenceInv, NEW r \in Requests, SaveAnnounced(r)
  PROVE  EvidenceInv'
<1>1. ~Quiet /\ Done(r) /\ r \in Sketches
  BY BusyIsLoud DEF SaveAnnounced, EvidenceInv, RequestOK
<1>2. report \in Report
  BY DEF EvidenceInv, TypeOK
<1>3. \/ UNCHANGED <<report, revived>>
      \/ report' = [report EXCEPT !.sketch = r] /\ revived' = revived \cup {r}
  BY DEF SaveAnnounced
<1>4. /\ report' \in Report /\ report'.photos = report.photos /\ report'.hashes = report.hashes
      /\ report'.v = report.v /\ report'.status = report.status /\ report'.bundle = report.bundle
      /\ \/ report'.sketch = report.sketch /\ revived' = revived
         \/ report'.sketch = r /\ revived' = revived \cup {r}
  <2>1. CASE UNCHANGED <<report, revived>>
    BY <1>2, <2>1
  <2>2. CASE report' = [report EXCEPT !.sketch = r] /\ revived' = revived \cup {r}
    BY <1>1, <1>2, <2>2, SketchWrite DEF Report
  <2> QED
    BY <1>3, <2>1, <2>2
<1>5. \A q \in Requests : RequestOK(q)'
  BY <1>1, <1>2, <1>4, DoneMoves, OthersStayCurrent
<1>6. EvidenceIsHashed'
  BY <1>4 DEF EvidenceInv, EvidenceIsHashed, Listed
<1> QED
  BY <1>1, <1>4, <1>5, <1>6, DoneMoves, LoudWrite
     DEF SaveAnnounced, EvidenceInv, TypeOK, AcceptedPhotoStays

-----------------------------------------------------------------------------
(* The lock is the last the requests can do to a report without being late. *)
LEMMA LockHolds ==
  ASSUME EvidenceInv, Lock
  PROVE  EvidenceInv'
<1>1. /\ report.status = "waiting" /\ report \in Report /\ attempt = "idle" /\ report.bundle = None
      /\ UNCHANGED <<blobs, record, requests, pipeline, accepted, revived, skipped, failures>>
  BY DEF Lock, EvidenceInv, TypeOK, PipelineOK
<1>2. report' = [report EXCEPT !.status = "signing"] /\ report' \in Report
  BY <1>1, StatusWrite DEF Lock
<1>3. /\ report'.status = "signing" /\ report'.photos = report.photos
      /\ report'.sketch = report.sketch /\ report'.hashes = report.hashes
      /\ report'.bundle = report.bundle /\ report'.v = report.v
  BY <1>1, <1>2 DEF Report
<1>4. late' = (\E r \in Requests : pc[r] \notin {"new", "announce", "done"})
  BY DEF Lock
<1>5. TypeOK'
  <2>1. {late', skipped'} \subseteq BOOLEAN
    BY <1>1, <1>4 DEF EvidenceInv, TypeOK
  <2> QED
    BY <1>1, <1>2, <2>1 DEF EvidenceInv, TypeOK, requests, pipeline
<1>6. \A r \in Requests : RequestOK(r)'
  BY <1>1, <1>3 DEF EvidenceInv, RequestOK, Current, requests
<1>7. AcceptedPhotoStays' /\ EvidenceIsHashed' /\ FilesAreTheirs'
  BY <1>1, <1>3 DEF EvidenceInv, AcceptedPhotoStays, EvidenceIsHashed, FilesAreTheirs, Listed
<1>8. QuietRequests'
  BY <1>1, <1>4 DEF QuietRequests, Quiet, requests
<1>9. PipelineOK' /\ SealOK'
  BY <1>1, <1>3 DEF EvidenceInv, PipelineOK, SealOK, DraftIsReport, DrawnOK, CollectedOK, BundleOK,
                    Preparing, pipeline
<1> QED
  BY <1>5, <1>6, <1>7, <1>8, <1>9 DEF EvidenceInv

-----------------------------------------------------------------------------
(* A step of the pipeline disturbs no request unless it writes the report   *)
(* or loses the requests.                                                   *)
LEMMA PipelineMoves ==
  ASSUME EvidenceInv, UNCHANGED <<report, requests, accepted, revived, late>>,
         TypeOK', FilesAreTheirs', PipelineOK', SealOK'
  PROVE  EvidenceInv'
<1>1. \A r \in Requests : RequestOK(r)'
  BY DEF EvidenceInv, RequestOK, Current, requests
<1>2. AcceptedPhotoStays' /\ EvidenceIsHashed' /\ QuietRequests'
  BY DEF EvidenceInv, AcceptedPhotoStays, EvidenceIsHashed, QuietRequests, Quiet, Listed, requests
<1> QED
  BY <1>1, <1>2 DEF EvidenceInv

LEMMA LoadToFinalizeHolds ==
  ASSUME EvidenceInv, LoadToFinalize
  PROVE  EvidenceInv'
<1>1. /\ attempt = "idle" /\ report.status \in {"signing", "finalizing"} /\ draft' = report
      /\ attempt' = IF report.status = "finalizing" /\ report.bundle # None THEN "anchor" ELSE "lock"
      /\ UNCHANGED <<report, blobs, record, requests, unread, drawn, collected,
                     accepted, revived, late, skipped, failures>>
  BY DEF LoadToFinalize, ghosts
<1>2. TypeOK'
  BY <1>1 DEF EvidenceInv, TypeOK, requests
<1>3. FilesAreTheirs'
  BY <1>1 DEF EvidenceInv, FilesAreTheirs
<1>4. PipelineOK'
  BY <1>1 DEF EvidenceInv, TypeOK, PipelineOK, Preparing
<1>5. SealOK'
  BY <1>1 DEF EvidenceInv, SealOK, Quiet, DraftIsReport, DrawnOK, CollectedOK, BundleOK,
              Preparing, Stored, Listed
<1> QED
  BY <1>1, <1>2, <1>3, <1>4, <1>5, PipelineMoves

LEMMA SaveFinalizingHolds ==
  ASSUME EvidenceInv, SaveFinalizing
  PROVE  EvidenceInv'
<1>1. /\ attempt = "lock" /\ attempt' = "pdf" /\ report \in Report
      /\ report' = [report EXCEPT !.status = "finalizing"]
      /\ UNCHANGED <<blobs, record, requests, draft, unread, drawn, collected,
                     accepted, revived, late, skipped, failures>>
  BY DEF SaveFinalizing, ghosts, EvidenceInv, TypeOK
<1>2. /\ report'.status = "finalizing" /\ report'.photos = report.photos
      /\ report'.sketch = report.sketch /\ report'.hashes = report.hashes
      /\ report'.bundle = report.bundle /\ report'.v = report.v
  BY <1>1 DEF Report
<1>3. report.status \in {"signing", "finalizing"} /\ report.bundle = None
  BY <1>1 DEF EvidenceInv, PipelineOK, Preparing
<1>4. TypeOK'
  <2>1. report' \in Report
    BY <1>1, StatusWrite
  <2> QED
    BY <1>1, <2>1 DEF EvidenceInv, TypeOK, requests
<1>5. \A r \in Requests : RequestOK(r)'
  BY <1>1, <1>2 DEF EvidenceInv, RequestOK, Current, requests
<1>6. AcceptedPhotoStays' /\ EvidenceIsHashed' /\ FilesAreTheirs'
  BY <1>1, <1>2 DEF EvidenceInv, AcceptedPhotoStays, EvidenceIsHashed, FilesAreTheirs, Listed
<1>7. QuietRequests'
  BY <1>1, <1>2, <1>3 DEF EvidenceInv, QuietRequests, Quiet, requests
<1>8. PipelineOK'
  BY <1>1, <1>2, <1>3 DEF EvidenceInv, PipelineOK, Preparing
<1>9. SealOK'
  BY <1>1, <1>2, <1>3 DEF EvidenceInv, SealOK, Quiet, DraftIsReport, DrawnOK, CollectedOK, BundleOK,
                          Preparing
<1> QED
  BY <1>4, <1>5, <1>6, <1>7, <1>8, <1>9 DEF EvidenceInv

(* What getFileBuffer returns, and that its failures are counted.           *)
LEMMA ReadableIsStored ==
  ASSUME EvidenceInv, NEW fs \in SUBSET Attachments, NEW got, Readable(fs, got)
  PROVE  /\ got \subseteq Stored(fs) /\ got \in SUBSET Attachments
         /\ failures' \in Nat /\ skipped' \in BOOLEAN
         /\ ~skipped' => ~skipped /\ got = Stored(fs)
<1>1. PICK failing \in SUBSET Stored(fs) :
         /\ failures' = failures + Cardinality(failing)
         /\ skipped' = (skipped \/ failing # {})
         /\ got = Stored(fs) \ failing
  BY DEF Readable, Stored
<1>2. Cardinality(failing) \in Nat
  <2>1. failing \subseteq Photos \cup Sketches
    BY DEF Stored, Attachments
  <2>2. IsFiniteSet(failing)
    BY <2>1, EvidenceAssumption, FS_Subset
  <2> QED
    BY <2>2, FS_CardinalityType
<1>3. failures' \in Nat
  BY <1>1, <1>2 DEF EvidenceInv, TypeOK
<1>4. skipped' \in BOOLEAN
  BY <1>1 DEF EvidenceInv, TypeOK
<1> QED
  BY <1>1, <1>3, <1>4 DEF Stored

LEMMA GeneratePdfHolds ==
  ASSUME EvidenceInv, GeneratePdf
  PROVE  EvidenceInv'
<1>1. /\ attempt = "pdf" /\ attempt' = "store" /\ Readable(Listed(draft), drawn')
      /\ UNCHANGED <<report, blobs, record, requests, draft, unread, collected,
                     accepted, revived, late>>
  BY DEF GeneratePdf
<1>2. draft \in Report /\ report.status = "finalizing" /\ report.bundle = None
  BY <1>1 DEF EvidenceInv, PipelineOK, Preparing
<1>3. /\ drawn' \in SUBSET Attachments /\ failures' \in Nat /\ skipped' \in BOOLEAN
      /\ ~skipped' => ~skipped /\ drawn' = Stored(Listed(draft))
  BY <1>1, <1>2, ReportType, ReadableIsStored
<1>4. TypeOK' /\ FilesAreTheirs'
  <2>1. {late', skipped'} \subseteq BOOLEAN
    BY <1>1, <1>3 DEF EvidenceInv, TypeOK
  <2> QED
    BY <1>1, <1>3, <2>1 DEF EvidenceInv, TypeOK, FilesAreTheirs, requests
<1>5. PipelineOK'
  BY <1>1, <1>2 DEF EvidenceInv, PipelineOK, Preparing
<1>6. SealOK'
  <2>1. Quiet => DraftIsReport /\ Listed(draft) = Listed(report)
    BY <1>1 DEF EvidenceInv, SealOK, DraftIsReport, Preparing, Listed
  <2> QED
    BY <1>1, <1>2, <1>3, <2>1
       DEF SealOK, Quiet, DraftIsReport, DrawnOK, CollectedOK, BundleOK, Preparing, Stored, Listed
<1> QED
  BY <1>1, <1>4, <1>5, <1>6, PipelineMoves

LEMMA StorePdfHolds ==
  ASSUME EvidenceInv, StorePdf
  PROVE  EvidenceInv'
<1>1. /\ attempt = "store" /\ attempt' = "collect"
      /\ blobs' = [blobs EXCEPT ![Pdf] = Pdf]
      /\ unread' = Listed(draft) /\ collected' = {}
      /\ UNCHANGED <<report, record, requests, draft, drawn,
                     accepted, revived, late, skipped, failures>>
  BY DEF StorePdf, ghosts
<1>2. draft \in Report /\ report.status = "finalizing" /\ report.bundle = None /\ report \in Report
  BY <1>1 DEF EvidenceInv, PipelineOK, Preparing, TypeOK
<1>3. /\ Pdf \in Files /\ Pdf \notin Attachments
      /\ blobs' \in [Files -> Files \cup {None}] /\ blobs'[Pdf] = Pdf
      /\ \A f \in Attachments : blobs'[f] = blobs[f]
  BY <1>1, EvidenceAssumption DEF EvidenceInv, TypeOK, Files, Attachments
<1>4. TypeOK'
  BY <1>1, <1>2, <1>3, ReportType DEF EvidenceInv, TypeOK, requests
<1>5. FilesAreTheirs'
  BY <1>3 DEF EvidenceInv, FilesAreTheirs, Files, Attachments
<1>6. PipelineOK'
  BY <1>1, <1>2 DEF EvidenceInv, PipelineOK, Preparing
<1>7. SealOK'
  <2>1. \A fs \in SUBSET Attachments : Stored(fs)' = Stored(fs)
    BY <1>3 DEF Stored
  <2>2. Stored(Listed(report))' = Stored(Listed(report))
    BY <1>1, <1>2, <1>3, ReportType DEF Stored
  <2>3. Quiet => DraftIsReport /\ DrawnOK /\ Listed(draft) = Listed(report)
    BY <1>1 DEF EvidenceInv, SealOK, DraftIsReport, Preparing, Listed
  <2>4. Quiet' => DraftIsReport'
    BY <1>1, <2>3 DEF Quiet, DraftIsReport, Preparing
  <2>5. Quiet' => DrawnOK'
    BY <1>1, <2>2, <2>3 DEF Quiet, DrawnOK
  <2>6. Quiet' => CollectedOK'
    <3>1. Quiet' => unread' = Listed(report)
      BY <1>1, <2>3 DEF Quiet
    <3> QED
      BY <1>1, <1>3, <3>1, <2>2 DEF CollectedOK, Stored
  <2>7. BundleOK'
    BY <1>1, <1>2 DEF BundleOK
  <2> QED
    BY <2>4, <2>5, <2>6, <2>7 DEF SealOK
<1> QED
  BY <1>1, <1>4, <1>5, <1>6, <1>7, PipelineMoves

LEMMA CollectHolds ==
  ASSUME EvidenceInv, NEW f \in Attachments, Collect(f)
  PROVE  EvidenceInv'
<1>1. /\ attempt = "collect" /\ f \in unread /\ unread' = unread \ {f}
      /\ UNCHANGED <<report, blobs, record, requests, attempt, draft, drawn,
                     accepted, revived, late>>
  BY DEF Collect
<1>2. PICK got \in {{}, {f}} : Readable({f}, got) /\ collected' = collected \cup got
  BY DEF Collect
<1>3. /\ got \subseteq Stored({f}) /\ got \in SUBSET Attachments
      /\ failures' \in Nat /\ skipped' \in BOOLEAN
      /\ ~skipped' => ~skipped /\ got = Stored({f})
  BY <1>2, ReadableIsStored
<1>4. TypeOK' /\ FilesAreTheirs'
  <2>1. {late', skipped'} \subseteq BOOLEAN
    BY <1>1, <1>3 DEF EvidenceInv, TypeOK
  <2> QED
    BY <1>1, <1>2, <1>3, <2>1 DEF EvidenceInv, TypeOK, FilesAreTheirs, requests
<1>5. PipelineOK'
  BY <1>1 DEF EvidenceInv, PipelineOK, Preparing
<1>6. SealOK'
  <2>1. report.bundle = None
    BY <1>1 DEF EvidenceInv, PipelineOK, Preparing
  <2>2. Quiet => DraftIsReport' /\ DrawnOK' /\ BundleOK'
    BY <1>1, <1>3, <2>1 DEF EvidenceInv, SealOK, DraftIsReport, DrawnOK, BundleOK, Preparing, Stored, Listed
  <2>3. Quiet => CollectedOK'
    <3> SUFFICES ASSUME Quiet PROVE CollectedOK'
      OBVIOUS
    <3>1. /\ CollectedOK /\ Stored(Listed(report))' = Stored(Listed(report))
          /\ Listed(report)' = Listed(report)
      BY <1>1 DEF EvidenceInv, SealOK, Stored, Listed
    <3>2. /\ blobs'[Pdf] = Pdf /\ f \in Listed(report)
          /\ collected \subseteq Stored(Listed(report)) /\ unread' \subseteq Listed(report)
          /\ ~skipped => Stored(Listed(report)) \subseteq collected \cup unread
      BY <1>1, <3>1 DEF CollectedOK
    <3>3. got \subseteq Stored(Listed(report))
      BY <1>3, <3>2 DEF Stored
    <3>4. ~skipped' => Stored(Listed(report)) \subseteq collected' \cup unread'
      <4> SUFFICES ASSUME ~skipped', NEW g \in Stored(Listed(report)), g \notin unread'
                   PROVE  g \in collected'
        OBVIOUS
      <4>1. CASE g = f
        <5>1. f \in Stored({f})
          BY <4>1 DEF Stored
        <5> QED
          BY <1>2, <1>3, <4>1, <5>1
      <4>2. CASE g # f
        BY <1>1, <1>2, <1>3, <3>2, <4>2
      <4> QED
        BY <4>1, <4>2
    <3> QED
      BY <1>2, <3>1, <3>2, <3>3, <3>4 DEF CollectedOK
  <2> QED
    BY <1>1, <2>2, <2>3 DEF SealOK, Quiet
<1> QED
  BY <1>1, <1>4, <1>5, <1>6, PipelineMoves

(* The save that is refused changes nothing; the one that is not stores     *)
(* what has been collected, even where it leaves attachmentHashes alone:    *)
(* it does so because they are equal already.                               *)
LEMMA SaveBundleHolds ==
  ASSUME EvidenceInv, SaveBundle
  PROVE  EvidenceInv'
<1>1. /\ attempt = "collect" /\ unread = {} /\ draft' = None /\ collected' = {}
      /\ UNCHANGED <<blobs, record, requests, unread, drawn,
                     accepted, revived, late, skipped, failures>>
  BY DEF SaveBundle, ghosts
<1>2. /\ draft \in Report /\ report.status = "finalizing" /\ report.bundle = None
      /\ report \in Report /\ collected \in SUBSET Attachments /\ record = None
  BY <1>1, NoneIsNoBundle DEF EvidenceInv, PipelineOK, Preparing, TypeOK
<1>3. FilesAreTheirs'
  BY <1>1 DEF EvidenceInv, FilesAreTheirs
<1>4. PICK reordered \in BOOLEAN :
        LET assigned == reordered \/ collected # draft.hashes
        IN  IF assigned /\ draft.v # report.v
              THEN attempt' = "idle" /\ UNCHANGED report
              ELSE /\ report' = [report EXCEPT
                                   !.bundle = collected,
                                   !.hashes = IF assigned THEN collected ELSE @,
                                   !.v = IF assigned THEN @ + 1 ELSE @]
                   /\ attempt' = "anchor"
  BY DEF SaveBundle
<1> DEFINE assigned == reordered \/ collected # draft.hashes
<1>5. CASE attempt' = "idle" /\ UNCHANGED report
  <2>1. TypeOK'
    BY <1>1, <1>5 DEF EvidenceInv, TypeOK, requests
  <2>2. PipelineOK' /\ SealOK'
    BY <1>1, <1>2, <1>5 DEF EvidenceInv, PipelineOK, SealOK, DraftIsReport, DrawnOK, CollectedOK,
                            BundleOK, Preparing
  <2> QED
    BY <1>1, <1>3, <1>5, <2>1, <2>2, PipelineMoves
<1>6. ASSUME NEW h \in SUBSET Attachments, NEW v \in Nat,
             report' = [report EXCEPT !.bundle = collected, !.hashes = h, !.v = v],
             \/ h = collected /\ v = report.v + 1
             \/ h = report.hashes /\ v = report.v /\ collected = draft.hashes,
             attempt' = "anchor"
      PROVE  EvidenceInv'
  <2>1. report' \in Report
    BY <1>2, <1>6, BundleWrite
  <2>2. /\ report'.status = "finalizing" /\ report'.photos = report.photos
        /\ report'.sketch = report.sketch /\ report'.hashes = h
        /\ report'.bundle = collected /\ report'.v = v /\ report'.bundle # None
    BY <1>2, <1>6, NoneIsNoBundle DEF Report
  <2>3. TypeOK'
    BY <1>1, <1>6, <2>1 DEF EvidenceInv, TypeOK, requests
  <2>4. \A r \in Requests : RequestOK(r)'
    <3> SUFFICES ASSUME NEW r \in Requests, pc[r] \in {"store", "drop", "save", "patch"}
                 PROVE  copy[r] \in Report /\ Current(copy[r])'
      BY <1>1 DEF EvidenceInv, RequestOK, requests
    <3>1. copy[r] \in Report /\ Current(copy[r])
      BY DEF EvidenceInv, RequestOK
    <3>2. copy'[r] = copy[r] /\ copy[r].v \in Nat /\ report.v \in Nat
      BY <1>1, <1>2, <3>1, ReportType DEF requests
    <3> QED
      BY <1>6, <2>2, <3>1, <3>2 DEF Current
  <2>5. AcceptedPhotoStays' /\ EvidenceIsHashed' /\ QuietRequests'
    BY <1>1, <1>2, <2>2 DEF EvidenceInv, AcceptedPhotoStays, EvidenceIsHashed, QuietRequests, Quiet, requests
  <2>6. PipelineOK'
    BY <1>1, <1>2, <1>6, <2>2 DEF PipelineOK, Preparing
  <2>7. SealOK'
    <3>1. Stored(Listed(report))' = Stored(Listed(report))
      BY <1>1, <2>2 DEF Stored, Listed
    <3>2. Quiet' => DraftIsReport /\ DrawnOK /\ CollectedOK
      BY <1>1, <1>2 DEF EvidenceInv, SealOK, Quiet
    <3>3. Quiet' => h = collected
      BY <1>1, <1>6, <3>2 DEF DraftIsReport, Preparing
    <3>4. Quiet' => DrawnOK'
      BY <1>1, <3>1, <3>2 DEF DrawnOK
    <3>5. Quiet' => BundleOK'
      BY <1>1, <2>2, <3>1, <3>2, <3>3 DEF CollectedOK, BundleOK
    <3>6. DraftIsReport' /\ CollectedOK'
      BY <1>6 DEF DraftIsReport, CollectedOK, Preparing
    <3> QED
      BY <3>4, <3>5, <3>6 DEF SealOK
  <2> QED
    BY <1>3, <2>3, <2>4, <2>5, <2>6, <2>7 DEF EvidenceInv
<1>7. CASE /\ report' = [report EXCEPT
                           !.bundle = collected,
                           !.hashes = IF assigned THEN collected ELSE @,
                           !.v = IF assigned THEN @ + 1 ELSE @]
           /\ attempt' = "anchor"
  <2>1. CASE assigned
    <3>1. report' = [report EXCEPT !.bundle = collected, !.hashes = collected, !.v = report.v + 1]
      BY <1>2, <1>7, <2>1 DEF Report
    <3>2. report.v + 1 \in Nat
      BY <1>2, ReportType
    <3> QED
      BY <1>2, <1>6, <1>7, <3>1, <3>2
  <2>2. CASE ~assigned
    <3>1. report' = [report EXCEPT !.bundle = collected, !.hashes = report.hashes, !.v = report.v]
      BY <1>2, <1>7, <2>2 DEF Report
    <3>2. report.v \in Nat /\ report.hashes \in SUBSET Attachments
      BY <1>2, ReportType
    <3> QED
      BY <1>6, <1>7, <2>2, <3>1, <3>2
  <2> QED
    BY <2>1, <2>2
<1> QED
  BY <1>4, <1>5, <1>7

LEMMA AnchorHolds ==
  ASSUME EvidenceInv, Anchor
  PROVE  EvidenceInv'
<1>1. /\ attempt = "anchor" /\ draft' = None
      /\ UNCHANGED <<report, blobs, requests, unread, drawn, collected,
                     accepted, revived, late, skipped, failures>>
      /\ \/ record # None /\ attempt' = "idle" /\ UNCHANGED record
         \/ attempt' = "seal" /\ record' = report.bundle
  BY DEF Anchor, ghosts
<1>2. /\ report.bundle # None /\ report.status = "finalizing" /\ report \in Report
      /\ report.bundle \in (SUBSET Attachments) \cup {None}
  BY <1>1, ReportType DEF EvidenceInv, PipelineOK, TypeOK
<1>3. TypeOK' /\ FilesAreTheirs'
  BY <1>1, <1>2 DEF EvidenceInv, TypeOK, FilesAreTheirs, requests
<1>4. PipelineOK'
  BY <1>1, <1>2 DEF EvidenceInv, PipelineOK, Preparing
<1>5. SealOK'
  BY <1>1 DEF EvidenceInv, SealOK, Quiet, DraftIsReport, DrawnOK, CollectedOK, BundleOK,
              Preparing, Stored, Listed
<1> QED
  BY <1>1, <1>3, <1>4, <1>5, PipelineMoves

LEMMA SaveSealedHolds ==
  ASSUME EvidenceInv, SaveSealed
  PROVE  EvidenceInv'
<1>1. /\ attempt = "seal" /\ attempt' = "idle" /\ report \in Report
      /\ report' = [report EXCEPT !.status = "sealed"]
      /\ UNCHANGED <<blobs, record, requests, draft, unread, drawn, collected,
                     accepted, revived, late, skipped, failures>>
  BY DEF SaveSealed, ghosts, EvidenceInv, TypeOK
<1>2. /\ report'.status = "sealed" /\ report'.photos = report.photos
      /\ report'.sketch = report.sketch /\ report'.hashes = report.hashes
      /\ report'.bundle = report.bundle /\ report'.v = report.v
  BY <1>1 DEF Report
<1>3. report.status = "finalizing" /\ report.bundle # None /\ record # None
  BY <1>1 DEF EvidenceInv, PipelineOK
<1>4. TypeOK'
  <2>1. report' \in Report
    BY <1>1, StatusWrite
  <2> QED
    BY <1>1, <2>1 DEF EvidenceInv, TypeOK, requests
<1>5. \A r \in Requests : RequestOK(r)'
  BY <1>1, <1>2 DEF EvidenceInv, RequestOK, Current, requests
<1>6. AcceptedPhotoStays' /\ EvidenceIsHashed' /\ FilesAreTheirs'
  BY <1>1, <1>2 DEF EvidenceInv, AcceptedPhotoStays, EvidenceIsHashed, FilesAreTheirs, Listed
<1>7. QuietRequests'
  BY <1>1, <1>2, <1>3 DEF EvidenceInv, QuietRequests, Quiet, requests
<1>8. PipelineOK'
  BY <1>1, <1>2, <1>3 DEF EvidenceInv, PipelineOK, Preparing
<1>9. SealOK'
  BY <1>1, <1>2, <1>3 DEF EvidenceInv, SealOK, Quiet, DraftIsReport, DrawnOK, CollectedOK, BundleOK,
                          Preparing, Stored, Listed
<1> QED
  BY <1>4, <1>5, <1>6, <1>7, <1>8, <1>9 DEF EvidenceInv

LEMMA CrashHolds ==
  ASSUME EvidenceInv, Crash
  PROVE  EvidenceInv'
<1>1. /\ failures' = failures + 1
      /\ pc' = [r \in Requests |-> IF pc[r] \in {"new", "announce"} THEN pc[r] ELSE "done"]
      /\ copy' = [r \in Requests |-> None]
      /\ target' = [r \in Deletes |-> None]
      /\ attempt' = "idle" /\ draft' = None /\ unread' = {} /\ collected' = {}
      /\ UNCHANGED <<report, blobs, record, drawn, accepted, revived, late, skipped>>
  BY DEF Crash, ghosts
<1>2. /\ pc' \in [Requests -> {"new", "store", "drop", "save", "announce", "patch", "done"}]
      /\ \A r \in Requests : /\ pc'[r] \in {"new", "announce", "done"}
                             /\ pc'[r] = "announce" => pc[r] = "announce"
  BY <1>1 DEF EvidenceInv, TypeOK
<1>3. TypeOK'
  <2>1. {late', skipped'} \subseteq BOOLEAN /\ failures' \in Nat
    BY <1>1 DEF EvidenceInv, TypeOK
  <2>2. copy' \in [Requests -> Report \cup {None}] /\ target' \in [Deletes -> Photos \cup {None}]
    BY <1>1
  <2> QED
    BY <1>1, <1>2, <2>1, <2>2 DEF EvidenceInv, TypeOK
<1>4. \A r \in Requests : RequestOK(r)'
  BY <1>2 DEF EvidenceInv, RequestOK
<1>5. AcceptedPhotoStays' /\ EvidenceIsHashed' /\ FilesAreTheirs'
  BY <1>1 DEF EvidenceInv, AcceptedPhotoStays, EvidenceIsHashed, FilesAreTheirs, Listed
<1>6. QuietRequests'
  BY <1>2 DEF QuietRequests
<1>7. PipelineOK'
  BY <1>1 DEF EvidenceInv, PipelineOK, Preparing
<1>8. SealOK'
  BY <1>1 DEF EvidenceInv, SealOK, Quiet, DraftIsReport, DrawnOK, CollectedOK, BundleOK,
              Preparing, Stored, Listed
<1> QED
  BY <1>3, <1>4, <1>5, <1>6, <1>7, <1>8 DEF EvidenceInv

-----------------------------------------------------------------------------
LEMMA NextHolds == EvidenceInv /\ [Next]_vars => EvidenceInv'
<1> SUFFICES ASSUME EvidenceInv, [Next]_vars PROVE EvidenceInv'
  OBVIOUS
<1>1. ASSUME NEW r \in Requests,
             \/ Guard(r) \/ Store(r) \/ Drop(r) \/ DropFails(r)
             \/ SavePhoto(r) \/ SaveDelete(r) \/ SaveSketch(r)
             \/ SkipAnnounce(r) \/ LoadAnnounced(r) \/ SaveAnnounced(r)
             \/ CallRejects(r)
      PROVE  EvidenceInv'
  BY <1>1, GuardHolds, StoreHolds, DropHolds, DropFailsHolds, SavePhotoHolds, SaveDeleteHolds,
     SaveSketchHolds, SkipAnnounceHolds, LoadAnnouncedHolds, SaveAnnouncedHolds, CallRejectsHolds
<1>2. CASE \/ Lock \/ LoadToFinalize \/ SaveFinalizing \/ GeneratePdf \/ StorePdf
           \/ SaveBundle \/ Anchor \/ SaveSealed
  BY <1>2, LockHolds, LoadToFinalizeHolds, SaveFinalizingHolds, GeneratePdfHolds, StorePdfHolds,
     SaveBundleHolds, AnchorHolds, SaveSealedHolds
<1>3. ASSUME NEW f \in Attachments, Collect(f) PROVE EvidenceInv'
  BY <1>3, CollectHolds
<1>4. CASE Crash
  BY <1>4, CrashHolds
<1>5. CASE UNCHANGED vars
  <2>1. UNCHANGED <<report, blobs, record, pc, copy, target, attempt, draft, unread, drawn,
                    collected, accepted, revived, late, skipped, failures>>
    BY <1>5 DEF vars, requests, pipeline, ghosts
  <2>2. TypeOK' /\ FilesAreTheirs' /\ PipelineOK' /\ SealOK'
    BY <2>1 DEF EvidenceInv, TypeOK, FilesAreTheirs, PipelineOK, Preparing, SealOK, Quiet,
                DraftIsReport, DrawnOK, CollectedOK, BundleOK, Stored, Listed
  <2> QED
    BY <2>1, <2>2, PipelineMoves DEF requests
<1> QED
  BY <1>1, <1>2, <1>3, <1>4, <1>5 DEF Next

(* The version tells a stale copy of the lists from a current one, and a    *)
(* report locked with no request past its guard holds still: what the       *)
(* pipeline loaded, drew and collected stays true of it.                    *)
THEOREM EvidenceInvariant == Spec => []EvidenceInv
<1>1. Init => EvidenceInv
  BY InitHolds
<1>2. EvidenceInv /\ [Next]_vars => EvidenceInv'
  BY NextHolds
<1> QED
  BY <1>1, <1>2, PTL DEF Spec

(* Every variable keeps its type, however many requests and failures.       *)
THEOREM TypeCorrectness == Spec => []TypeOK
<1>1. EvidenceInv => TypeOK
  BY DEF EvidenceInv
<1> QED
  BY <1>1, EvidenceInvariant, PTL

(* No interleaving of the upload routes, the patches, the pipeline and the  *)
(* server's restarts loses a photo that was accepted (routes/uploads.js).   *)
THEOREM AcceptedPhotosStay == Spec => []AcceptedPhotoStays
<1>1. EvidenceInv => AcceptedPhotoStays
  BY DEF EvidenceInv
<1> QED
  BY <1>1, EvidenceInvariant, PTL

(* Until the bundle is made, attachmentHashes has an entry of every listed  *)
(* attachment, but for a sketch that an announcement put back.              *)
THEOREM EvidenceHashed == Spec => []EvidenceIsHashed
<1>1. EvidenceInv => EvidenceIsHashed
  BY DEF EvidenceInv
<1> QED
  BY <1>1, EvidenceInvariant, PTL

LEMMA SealedIsQuiet ==
  ASSUME EvidenceInv, report.status = "sealed", ~late
  PROVE  /\ BundleOK /\ DrawnOK
         /\ report.bundle # None /\ record = report.bundle
  BY NoneIsNoBundle DEF EvidenceInv, SealOK, Quiet, PipelineOK

(* A report that no upload outlived the lock of stores, once sealed, the    *)
(* hashes that are on the chain, and the files they were computed from.     *)
THEOREM SealedReportsAreIntact == Spec => []SealedIsIntact
<1>1. EvidenceInv => SealedIsIntact
  <2> SUFFICES ASSUME EvidenceInv, report.status = "sealed", ~late
               PROVE  /\ report.hashes = record
                      /\ \A f \in record \cup {Pdf} : blobs[f] = f
    BY DEF SealedIsIntact
  <2>1. BundleOK /\ report.bundle # None /\ record = report.bundle
    BY SealedIsQuiet
  <2>2. record \subseteq Attachments
    BY <2>1 DEF EvidenceInv, TypeOK
  <2> QED
    BY <2>1, <2>2 DEF EvidenceInv, FilesAreTheirs, BundleOK, Stored, Files
<1> QED
  BY <1>1, EvidenceInvariant, PTL

(* If the pipeline read all it listed that is stored, the seal covers it    *)
(* all and the PDF shows it all.                                            *)
THEOREM SealsCoverWhatIsShown == Spec => []SealCoversWhatIsShown
<1>1. EvidenceInv => SealCoversWhatIsShown
  BY SealedIsQuiet DEF SealCoversWhatIsShown, BundleOK, DrawnOK, Stored
<1> QED
  BY <1>1, EvidenceInvariant, PTL

-----------------------------------------------------------------------------
(* The life of the report, step by step: a request never touches what       *)
(* SealedReport sees, ...                                                   *)
RequestStep(r) ==
  \/ Guard(r) \/ Store(r) \/ Drop(r) \/ DropFails(r)
  \/ SavePhoto(r) \/ SaveDelete(r) \/ SaveSketch(r)
  \/ SkipAnnounce(r) \/ LoadAnnounced(r) \/ SaveAnnounced(r)
  \/ CallRejects(r)

LifeStep == Life!Next \/ UNCHANGED Life!life

(* What the life of the report rests on: nothing of the files.               *)
LifeInv == report \in Report /\ collected \in SUBSET Attachments /\ PipelineOK

LEMMA InvLives == EvidenceInv => LifeInv
  BY DEF EvidenceInv, TypeOK, LifeInv

LEMMA RequestsStutter ==
  ASSUME report \in Report, NEW r \in Requests, RequestStep(r)
  PROVE  UNCHANGED Life!life
<1>1. UNCHANGED record
  BY DEF RequestStep, Guard, Store, Drop, DropFails, SavePhoto, SaveDelete, SaveSketch,
         SkipAnnounce, LoadAnnounced, SaveAnnounced, CallRejects
<1>2. report'.bundle = report.bundle /\ report'.status = report.status
  <2>1. CASE SavePhoto(r)
    BY <2>1 DEF SavePhoto, Report
  <2>2. CASE SaveDelete(r)
    BY <2>2 DEF SaveDelete, Report
  <2>3. CASE SaveSketch(r)
    BY <2>3 DEF SaveSketch, Report
  <2>4. CASE SaveAnnounced(r)
    BY <2>4 DEF SaveAnnounced, Report
  <2>5. CASE \/ Guard(r) \/ Store(r) \/ Drop(r) \/ DropFails(r)
             \/ SkipAnnounce(r) \/ LoadAnnounced(r) \/ CallRejects(r)
    BY <2>5 DEF Guard, Store, Drop, DropFails, SkipAnnounce, LoadAnnounced, CallRejects
  <2> QED
    BY <2>1, <2>2, <2>3, <2>4, <2>5 DEF RequestStep
<1> QED
  BY <1>1, <1>2 DEF Life!life

(* ... and of the pipeline three calls do: the save of the bundle, which an *)
(* attempt reaches only while none is stored, the anchor and the seal.      *)
LEMMA SaveBundleLives == ASSUME LifeInv, SaveBundle PROVE LifeStep
<1>1. /\ report \in Report /\ report.bundle = None
      /\ collected \in SUBSET Attachments /\ collected # None
  BY NoneIsNoBundle DEF SaveBundle, LifeInv, PipelineOK, Preparing
<1>2. UNCHANGED record
  BY DEF SaveBundle
<1>3. CASE UNCHANGED report
  BY <1>2, <1>3 DEF LifeStep, Life!life
<1>4. CASE \E hs, n : report' = [report EXCEPT !.bundle = collected, !.hashes = hs, !.v = n]
  <2>1. report'.bundle = collected /\ report'.status = report.status
    BY <1>1, <1>4 DEF Report
  <2> QED
    BY <1>1, <1>2, <2>1 DEF LifeStep, Life!Next, Life!Store
<1> QED
  BY <1>3, <1>4 DEF SaveBundle

LEMMA AnchorLives == ASSUME LifeInv, Anchor PROVE LifeStep
<1>1. report.bundle # None /\ UNCHANGED report
  BY DEF Anchor, LifeInv, PipelineOK
<1> QED
  BY <1>1 DEF Anchor, LifeStep, Life!Next, Life!Anchor, Life!life

LEMMA SaveSealedLives == ASSUME LifeInv, SaveSealed PROVE LifeStep
<1>1. report \in Report /\ report.status = "finalizing" /\ record # None
  BY DEF SaveSealed, LifeInv, PipelineOK
<1>2. report'.status = "sealed" /\ report'.bundle = report.bundle /\ UNCHANGED record
  BY <1>1 DEF SaveSealed, Report
<1> QED
  BY <1>1, <1>2 DEF LifeStep, Life!Next, Life!Seal

(* The lock and the pipeline's own lock write the status, but never of a    *)
(* sealed report; nothing else writes the report at all.                    *)
LEMMA OthersStutter ==
  ASSUME LifeInv,
         \/ Lock \/ LoadToFinalize \/ SaveFinalizing \/ GeneratePdf \/ StorePdf \/ Crash
         \/ \E f \in Attachments : Collect(f)
  PROVE  UNCHANGED Life!life
<1>1. CASE Lock \/ SaveFinalizing
  <2>1. /\ report \in Report /\ report.status # "sealed" /\ UNCHANGED record
        /\ \E s \in {"signing", "finalizing"} : report' = [report EXCEPT !.status = s]
    BY <1>1 DEF Lock, SaveFinalizing, LifeInv, PipelineOK
  <2>2. report'.bundle = report.bundle /\ report'.status # "sealed"
    BY <2>1 DEF Report
  <2> QED
    BY <2>1, <2>2 DEF Life!life
<1>2. CASE \/ LoadToFinalize \/ GeneratePdf \/ StorePdf \/ Crash
           \/ \E f \in Attachments : Collect(f)
  BY <1>2 DEF LoadToFinalize, GeneratePdf, StorePdf, Crash, Collect, Life!life
<1> QED
  BY <1>1, <1>2

LEMMA NextLives == LifeInv /\ [Next]_vars => LifeStep
<1> SUFFICES ASSUME LifeInv, [Next]_vars PROVE LifeStep
  OBVIOUS
<1>1. ASSUME NEW r \in Requests, RequestStep(r) PROVE LifeStep
  BY <1>1, RequestsStutter DEF LifeInv, LifeStep
<1>2. CASE SaveBundle \/ Anchor \/ SaveSealed
  BY <1>2, SaveBundleLives, AnchorLives, SaveSealedLives
<1>3. CASE \/ Lock \/ LoadToFinalize \/ SaveFinalizing \/ GeneratePdf \/ StorePdf \/ Crash
           \/ \E f \in Attachments : Collect(f)
  BY <1>3, OthersStutter DEF LifeStep
<1>4. CASE UNCHANGED vars
  BY <1>4 DEF vars, LifeStep, Life!life
<1> QED
  BY <1>1, <1>2, <1>3, <1>4 DEF Next, RequestStep

(* Racing uploads, failing calls and restarts included, one bundle is       *)
(* stored, once; it alone is anchored, once; and the seal follows.          *)
THEOREM EvidenceImplementsLife == Spec => ImplementsLife
<1>1. Init => Life!Init
  BY DEF Init, Life!Init
<1>2. EvidenceInv /\ [Next]_vars => [Life!Next]_(Life!life)
  BY InvLives, NextLives DEF LifeStep
<1> QED
  BY <1>1, <1>2, EvidenceInvariant, PTL DEF Spec, ImplementsLife, Life!Spec

=============================================================================
