---------------------------- MODULE SignOffProofs ----------------------------
(***************************************************************************)
(* For any number of patches and signature uploads, of faults and of       *)
(* restarts: a report locks only when both parties have signed off, and    *)
(* before its session does; the per-report promise chain serves one patch  *)
(* after the other, so that none is lost; and the sign-off that completes  *)
(* the pair locks, unless something fails or another one overlapped.       *)
(***************************************************************************)
EXTENDS SignOff, TLAPS

USE SignOffNames

-----------------------------------------------------------------------------
(* The code's updates of a report keep the types of its fields.            *)
LEMMA ReportFields ==
  ASSUME NEW r \in Report
  PROVE  /\ r.status \in {"waiting", "signing"}
         /\ r.vehicle \in [Party -> Vehicle]
         /\ r.accident \in Patches \cup {None}
         /\ r.confirmedReview \in [Party -> BOOLEAN]
         /\ r.signature \in [Party -> Uploads \cup {None}]
         /\ r.v \in Nat
  BY DEF Report

LEMMA VehicleUpdate ==
  ASSUME NEW x \in [Party -> Vehicle], NEW q \in Party, NEW l \in Leaf, NEW p \in Patches
  PROVE  [x EXCEPT ![q][l] = p] \in [Party -> Vehicle]
  BY DEF Vehicle

LEMMA ReplaceVehicle ==
  ASSUME NEW r \in Report, NEW x \in [Party -> Vehicle]
  PROVE  LET s == [r EXCEPT !.vehicle = x]
         IN  /\ s \in Report
             /\ s.vehicle = x /\ s.status = r.status
             /\ s.signature = r.signature /\ s.confirmedReview = r.confirmedReview
  BY DEF Report

LEMMA ReplaceConfirmed ==
  ASSUME NEW r \in Report, NEW x \in [Party -> BOOLEAN]
  PROVE  LET s == [r EXCEPT !.confirmedReview = x]
         IN  /\ s \in Report
             /\ s.confirmedReview = x /\ s.status = r.status
             /\ s.signature = r.signature /\ s.vehicle = r.vehicle
  BY DEF Report

LEMMA ReplaceAccident ==
  ASSUME NEW r \in Report, NEW x \in Patches
  PROVE  LET s == [r EXCEPT !.accident = x]
         IN  /\ s \in Report
             /\ s.status = r.status /\ s.confirmedReview = r.confirmedReview
             /\ s.signature = r.signature /\ s.vehicle = r.vehicle
  BY DEF Report

LEMMA ReplaceSignature ==
  ASSUME NEW r \in Report, NEW x \in [Party -> Uploads \cup {None}], NEW n \in Nat
  PROVE  LET s == [r EXCEPT !.signature = x, !.v = n]
         IN  /\ s \in Report
             /\ s.signature = x /\ s.status = r.status
             /\ s.confirmedReview = r.confirmedReview /\ s.vehicle = r.vehicle
  BY DEF Report

LEMMA ReplaceStatus ==
  ASSUME NEW r \in Report
  PROVE  LET s == [r EXCEPT !.status = "signing"]
         IN  /\ s \in Report
             /\ s.status = "signing" /\ s.confirmedReview = r.confirmedReview
             /\ s.signature = r.signature /\ s.vehicle = r.vehicle
  BY DEF Report

(* report.set changes the one field the message names: the status, the     *)
(* signatures and what the other fields hold stay.                         *)
LEMMA SetReport ==
  ASSUME NEW r \in Report, NEW m \in Message, NEW p \in Patches
  PROVE  /\ Set(r, m, p) \in Report
         /\ Set(r, m, p).status = r.status
         /\ Set(r, m, p).signature = r.signature
         /\ \A q \in Party : r.confirmedReview[q] => Set(r, m, p).confirmedReview[q]
         /\ \A q \in Party : Set(r, m, p).confirmedReview[q] =>
                               r.confirmedReview[q] \/ (m.field = "confirmedReview" /\ q = m.party)
         /\ m.field = "confirmedReview" => Set(r, m, p).confirmedReview[m.party]
         /\ Set(r, m, p).vehicle = IF m.field \in Leaf
                                     THEN [r.vehicle EXCEPT ![m.party][m.field] = p]
                                     ELSE r.vehicle
<1>1. /\ m.party \in Party /\ m.field \in Leaf \cup {"confirmedReview", "accident"}
      /\ Leaf \cap {"confirmedReview", "accident"} = {}
  BY DEF Message, Leaf
<1>2. CASE m.field \in Leaf
  <2> DEFINE x == [r.vehicle EXCEPT ![m.party][m.field] = p]
  <2>1. x \in [Party -> Vehicle]
    BY <1>1, <1>2, VehicleUpdate, ReportFields
  <2>2. /\ Set(r, m, p) = [r EXCEPT !.vehicle = x]
        /\ m.field # "confirmedReview"
    BY <1>1, <1>2 DEF Set, Report
  <2>3. /\ Set(r, m, p) \in Report
        /\ Set(r, m, p).vehicle = x
        /\ Set(r, m, p).status = r.status
        /\ Set(r, m, p).signature = r.signature
        /\ Set(r, m, p).confirmedReview = r.confirmedReview
    <3> HIDE DEF x
    <3> QED BY <2>1, <2>2, ReplaceVehicle
  <2> QED
    BY <1>2, <2>2, <2>3
<1>3. CASE m.field = "confirmedReview"
  <2> DEFINE x == [r.confirmedReview EXCEPT ![m.party] = TRUE]
  <2>1. x \in [Party -> BOOLEAN]
    BY <1>1, ReportFields
  <2>2. Set(r, m, p) = [r EXCEPT !.confirmedReview = x]
    BY <1>1, <1>3 DEF Set, Report
  <2>3. /\ Set(r, m, p) \in Report
        /\ Set(r, m, p).vehicle = r.vehicle
        /\ Set(r, m, p).status = r.status
        /\ Set(r, m, p).signature = r.signature
        /\ Set(r, m, p).confirmedReview = x
    <3> HIDE DEF x
    <3> QED BY <2>1, <2>2, ReplaceConfirmed
  <2> QED
    BY <1>1, <1>3, <2>3, ReportFields
<1>4. CASE m.field = "accident"
  <2>1. Set(r, m, p) = [r EXCEPT !.accident = p]
    BY <1>4, <1>1 DEF Set, Report
  <2> QED
    BY <1>1, <1>4, <2>1, ReplaceAccident
<1> QED
  BY <1>1, <1>2, <1>3, <1>4

LEMMA SetKeeps ==
  ASSUME NEW r \in Report, NEW m \in Message, NEW p \in Patches
  PROVE  Set(r, m, p).status = r.status /\ Set(r, m, p).signature = r.signature
  BY DEF Set, Report

LEMMA SetConfirms ==
  ASSUME NEW r \in Report, NEW m \in Message, NEW p \in Patches, NEW q \in Party,
         Set(r, m, p).confirmedReview[q], ~r.confirmedReview[q]
  PROVE  m.field = "confirmedReview" /\ q = m.party
  BY DEF Set, Report, Message, Leaf

(* So does report.save(), whether it sends a field or a whole subdocument. *)
LEMMA SavedReport ==
  ASSUME NEW st \in Report, NEW ld \in Report, NEW m \in Message, NEW p \in Patches
  PROVE  /\ Saved(st, ld, m, p) \in Report
         /\ Saved(st, ld, m, p).status = st.status
         /\ Saved(st, ld, m, p).signature = st.signature
         /\ \A q \in Party : st.confirmedReview[q] => Saved(st, ld, m, p).confirmedReview[q]
         /\ m.field = "confirmedReview" => Saved(st, ld, m, p).confirmedReview[m.party]
<1>1. CASE m.field \in Leaf /\ ld.vehicle[m.party] = [l \in Leaf |-> None]
  <2> DEFINE x == [st.vehicle EXCEPT ![m.party] = Set(ld, m, p).vehicle[m.party]]
  <2>1. m.field # "confirmedReview" /\ m.party \in Party
    BY <1>1 DEF Leaf, Message
  <2>2. x \in [Party -> Vehicle]
    <3>1. Set(ld, m, p) \in Report
      BY SetReport
    <3>2. Set(ld, m, p).vehicle \in [Party -> Vehicle] /\ st.vehicle \in [Party -> Vehicle]
      BY <3>1, ReportFields
    <3> QED
      BY <2>1, <3>2
  <2>3. Saved(st, ld, m, p) = [st EXCEPT !.vehicle = x]
    BY <1>1 DEF Saved, Report
  <2> HIDE DEF x
  <2> QED
    BY <2>1, <2>2, <2>3, ReplaceVehicle
<1>2. CASE ~(m.field \in Leaf /\ ld.vehicle[m.party] = [l \in Leaf |-> None])
  <2>1. Saved(st, ld, m, p) = Set(st, m, p)
    BY <1>2 DEF Saved
  <2>2. Set(st, m, p) \in Report
    BY SetReport
  <2>3. Set(st, m, p).status = st.status
    BY SetKeeps
  <2>4. Set(st, m, p).signature = st.signature
    BY SetKeeps
  <2>5. \A q \in Party : st.confirmedReview[q] => Set(st, m, p).confirmedReview[q]
    BY SetReport
  <2>6. m.field = "confirmedReview" => Set(st, m, p).confirmedReview[m.party]
    BY SetReport
  <2> QED
    BY <2>1, <2>2, <2>3, <2>4, <2>5, <2>6
<1> QED
  BY <1>1, <1>2

LEMMA SavedConfirms ==
  ASSUME NEW st \in Report, NEW ld \in Report, NEW m \in Message, NEW p \in Patches,
         NEW q \in Party \ {m.party}, Saved(st, ld, m, p).confirmedReview[q]
  PROVE  st.confirmedReview[q]
<1>1. CASE Saved(st, ld, m, p) = Set(st, m, p)
  BY <1>1, SetConfirms
<1>2. CASE Saved(st, ld, m, p) = [st EXCEPT !.vehicle[m.party] = Set(ld, m, p).vehicle[m.party]]
  BY <1>2 DEF Report
<1> QED
  BY <1>1, <1>2 DEF Saved

-----------------------------------------------------------------------------
(* A request moves to a step of its kind with a copy of the report, or ends*)
(* and forgets what it knew; the others are as they were.                  *)
LEMMA GotoKeepsTypes ==
  ASSUME RequestsOK, NEW r \in Requests, NEW s \in Steps, NEW c \in Report, Goto(r, s, c),
         pc[r] \notin {"new", "done"},
         r \in Patches => s \notin {"body", "session"},
         r \in Uploads => s # "load",
         UNCHANGED queue
  PROVE  RequestsOK'
  BY DEF RequestsOK, RequestOK, Goto, Requests

LEMMA OverKeepsTypes ==
  ASSUME RequestsOK, NEW r \in Requests, Over(r), queue' \in Seq(Patches)
  PROVE  RequestsOK'
  BY DEF RequestsOK, RequestOK, Over, Requests, Steps

LEMMA DoneKeepsTypes ==
  ASSUME RequestsOK, NEW r \in Requests, Done(r)
  PROVE  RequestsOK'
<1>1. queue' \in Seq(Patches)
  BY DEF RequestsOK, Done
<1> QED
  BY <1>1, OverKeepsTypes DEF Done

LEMMA InitTypes == Init => TypeOK
<1> SUFFICES ASSUME Init PROVE TypeOK
  OBVIOUS
<1>1. report \in Report
  BY DEF Init, Report, Vehicle
<1>2. StoredOK
  BY <1>1 DEF Init, StoredOK, Vehicle
<1>3. RequestsOK
  BY DEF Init, RequestsOK, RequestOK, Steps, Requests
<1> QED
  BY <1>2, <1>3 DEF TypeOK

LEMMA ReceivePatchTypes ==
  ASSUME TypeOK, NEW p \in Patches, ReceivePatch(p)
  PROVE  TypeOK'
<1>1. StoredOK'
  BY DEF TypeOK, StoredOK, ReceivePatch
<1>2. RequestsOK'
  <2>1. CASE Locked(session)
    BY <2>1, DoneKeepsTypes DEF TypeOK, ReceivePatch, Requests
  <2>2. CASE ~Locked(session)
    <3>1. PICK m \in Message : what' = [what EXCEPT ![p] = m]
      BY <2>2 DEF ReceivePatch
    <3>2. queue' \in Seq(Patches)
      BY <2>2 DEF TypeOK, RequestsOK, ReceivePatch
    <3> QED
      BY SMTT(20), <2>2, <3>1, <3>2 DEF TypeOK, StoredOK, RequestsOK, RequestOK, ReceivePatch, Requests, Steps
  <2> QED
    BY <2>1, <2>2
<1> QED
  BY <1>1, <1>2 DEF TypeOK

LEMMA LoadReportTypes ==
  ASSUME TypeOK, NEW p \in Patches, LoadReport(p)
  PROVE  TypeOK'
<1>1. StoredOK'
  BY DEF TypeOK, StoredOK, LoadReport
<1>2. RequestsOK'
  BY DoneKeepsTypes, GotoKeepsTypes DEF TypeOK, StoredOK, LoadReport, Requests, Steps
<1> QED
  BY <1>1, <1>2 DEF TypeOK

LEMMA SavePatchTypes ==
  ASSUME TypeOK, NEW p \in Patches, SavePatch(p)
  PROVE  TypeOK'
<1>1. /\ pc[p] = "save" /\ p \in Requests
      /\ what[p] \in Message /\ copy[p] \in Report
  BY DEF TypeOK, RequestsOK, RequestOK, SavePatch, Requests
<1>2. StoredOK'
  <2>1. report' \in Report
    BY <1>1, SavedReport DEF TypeOK, StoredOK, SavePatch
  <2>2. written' \in [Party -> Vehicle]
    BY <1>1, VehicleUpdate DEF TypeOK, StoredOK, SavePatch, Message
  <2>3. session' = session /\ stale' \in BOOLEAN
    BY DEF TypeOK, StoredOK, SavePatch, NoteSignOff
  <2> QED
    BY <2>1, <2>2, <2>3 DEF TypeOK, StoredOK
<1>3. RequestsOK'
  <2>1. Set(copy[p], what[p], p) \in Report
    BY <1>1, SetReport
  <2> QED
    BY <1>1, <2>1, DoneKeepsTypes, GotoKeepsTypes DEF TypeOK, SavePatch, Steps, Requests
<1> QED
  BY <1>2, <1>3 DEF TypeOK

LEMMA GuardUploadTypes ==
  ASSUME TypeOK, NEW u \in Uploads, GuardUpload(u)
  PROVE  TypeOK'
<1>1. StoredOK'
  BY DEF TypeOK, StoredOK, GuardUpload
<1>2. RequestsOK'
  <2>1. CASE Locked(report.status)
    BY <2>1, DoneKeepsTypes DEF TypeOK, GuardUpload, Requests
  <2>2. CASE ~Locked(report.status)
    <3>1. PICK q \in Party : what' = [what EXCEPT ![u] = q]
      BY <2>2 DEF GuardUpload
    <3> QED
      BY <2>2, <3>1 DEF TypeOK, StoredOK, RequestsOK, RequestOK, GuardUpload, Requests, Steps
  <2> QED
    BY <2>1, <2>2
<1> QED
  BY <1>1, <1>2 DEF TypeOK

LEMMA ReceiveBodyTypes ==
  ASSUME TypeOK, NEW u \in Uploads, ReceiveBody(u)
  PROVE  TypeOK'
<1>1. StoredOK'
  BY DEF TypeOK, StoredOK, ReceiveBody
<1>2. u \in Requests /\ pc[u] = "body" /\ copy[u] \in Report
  BY DEF TypeOK, RequestsOK, RequestOK, ReceiveBody, Requests
<1>3. RequestsOK'
  BY <1>2, DoneKeepsTypes, GotoKeepsTypes DEF TypeOK, ReceiveBody, Requests, Steps
<1> QED
  BY <1>1, <1>3 DEF TypeOK

(* The signature is one field of the report.                               *)
LEMMA SignReport ==
  ASSUME NEW r \in Report, NEW q \in Party, NEW u \in Uploads
  PROVE  LET s == [r EXCEPT !.signature[q] = u, !.v = @ + 1]
         IN  /\ s \in Report
             /\ s.status = r.status /\ s.vehicle = r.vehicle
             /\ s.confirmedReview = r.confirmedReview
             /\ s.signature = [r.signature EXCEPT ![q] = u]
<1> DEFINE x == [r.signature EXCEPT ![q] = u]
<1>1. x \in [Party -> Uploads \cup {None}] /\ r.v + 1 \in Nat
  BY ReportFields
<1>2. [r EXCEPT !.signature[q] = u, !.v = @ + 1] = [r EXCEPT !.signature = x, !.v = r.v + 1]
  BY DEF Report
<1>3. LET s == [r EXCEPT !.signature = x, !.v = r.v + 1]
      IN  /\ s \in Report
          /\ s.signature = x /\ s.status = r.status
          /\ s.confirmedReview = r.confirmedReview /\ s.vehicle = r.vehicle
  <2> HIDE DEF x
  <2> QED BY <1>1 DEF Report
<1> QED
  BY <1>2, <1>3

LEMMA SaveSignatureTypes ==
  ASSUME TypeOK, NEW u \in Uploads, SaveSignature(u)
  PROVE  TypeOK'
<1>1. /\ u \in Requests /\ pc[u] = "save" /\ u \notin Patches
      /\ what[u] \in Party /\ copy[u] \in Report
  BY DEF TypeOK, RequestsOK, RequestOK, SaveSignature, Requests
<1>2. CASE Done(u) /\ UNCHANGED <<report, stale>>
  BY <1>1, <1>2, DoneKeepsTypes DEF TypeOK, StoredOK, SaveSignature
<1>3. CASE /\ report' = [report EXCEPT !.signature[what[u]] = u, !.v = @ + 1]
           /\ NoteSignOff(u)
           /\ Goto(u, "session", [copy[u] EXCEPT !.signature[what[u]] = u, !.v = @ + 1])
           /\ UNCHANGED queue
  <2>1. report' \in Report
    BY <1>1, <1>3, SignReport DEF TypeOK, StoredOK
  <2>2. [copy[u] EXCEPT !.signature[what[u]] = u, !.v = @ + 1] \in Report
    BY <1>1, SignReport
  <2>3. RequestsOK'
    BY <1>1, <1>3, <2>2, GotoKeepsTypes DEF TypeOK, Steps
  <2> QED
    BY <1>3, <2>1, <2>3 DEF TypeOK, StoredOK, SaveSignature, NoteSignOff
<1> QED
  BY <1>2, <1>3 DEF SaveSignature

LEMMA LoadSessionTypes ==
  ASSUME TypeOK, NEW u \in Uploads, LoadSession(u)
  PROVE  TypeOK'
<1>1. StoredOK'
  BY DEF TypeOK, StoredOK, LoadSession
<1>2. RequestsOK'
  <2>1. CASE ToLock(copy[u])
    BY <2>1 DEF TypeOK, StoredOK, RequestsOK, RequestOK, LoadSession, Requests, Steps
  <2>2. CASE ~ToLock(copy[u])
    BY <2>2, DoneKeepsTypes DEF TypeOK, LoadSession, Requests
  <2> QED
    BY <2>1, <2>2
<1> QED
  BY <1>1, <1>2 DEF TypeOK

LEMMA LockReportTypes ==
  ASSUME TypeOK, NEW r \in Requests, LockReport(r)
  PROVE  TypeOK'
<1>1. report' \in Report
  BY ReplaceStatus DEF TypeOK, StoredOK, LockReport
<1>2. StoredOK'
  BY <1>1 DEF TypeOK, StoredOK, LockReport
<1>3. pc[r] = "lockReport" /\ copy[r] \in Report
  BY DEF TypeOK, RequestsOK, RequestOK, LockReport
<1>4. RequestsOK'
  BY <1>3, DoneKeepsTypes, GotoKeepsTypes DEF TypeOK, LockReport, Steps
<1> QED
  BY <1>2, <1>4 DEF TypeOK

LEMMA LockSessionTypes ==
  ASSUME TypeOK, NEW r \in Requests, LockSession(r)
  PROVE  TypeOK'
  BY DoneKeepsTypes DEF TypeOK, StoredOK, LockSession

LEMMA CallRejectsTypes ==
  ASSUME TypeOK, NEW r \in Requests, CallRejects(r)
  PROVE  TypeOK'
  BY DoneKeepsTypes DEF TypeOK, StoredOK, CallRejects

LEMMA CrashTypes == TypeOK /\ Crash => TypeOK'
  BY DEF TypeOK, StoredOK, RequestsOK, RequestOK, Crash, Steps, Requests

LEMMA NextTypes == TypeOK /\ [Next]_vars => TypeOK'
<1> SUFFICES ASSUME TypeOK, [Next]_vars PROVE TypeOK'
  OBVIOUS
<1>1. CASE \E p \in Patches : ReceivePatch(p) \/ LoadReport(p) \/ SavePatch(p)
  BY <1>1, ReceivePatchTypes, LoadReportTypes, SavePatchTypes
<1>2. CASE \E u \in Uploads : GuardUpload(u) \/ ReceiveBody(u) \/ SaveSignature(u) \/ LoadSession(u)
  BY <1>2, GuardUploadTypes, ReceiveBodyTypes, SaveSignatureTypes, LoadSessionTypes
<1>3. CASE \E r \in Requests : LockReport(r) \/ LockSession(r) \/ CallRejects(r)
  BY <1>3, LockReportTypes, LockSessionTypes, CallRejectsTypes
<1>4. CASE Crash
  BY <1>4, CrashTypes
<1>5. CASE UNCHANGED vars
  BY <1>5 DEF vars, requests, TypeOK, StoredOK, RequestsOK, RequestOK
<1> QED
  BY <1>1, <1>2, <1>3, <1>4, <1>5 DEF Next

(* Every variable keeps its type, and every request what its next step     *)
(* needs: its message or party, and its copy of the report.                *)
THEOREM TypeCorrectness == Spec => []TypeOK
  BY InitTypes, NextTypes, PTL DEF Spec

-----------------------------------------------------------------------------
(* Locking.  Nobody takes a confirmation or a signature back, so a copy    *)
(* never shows one that the stored report does not have ...                *)
Past(c, r) == \A q \in Party : /\ c.confirmedReview[q] => r.confirmedReview[q]
                               /\ c.signature[q] # None => r.signature[q] # None

(* ... and a request that is about to lock has seen all four.              *)
RequestLocks(r) ==
  /\ pc[r] \notin {"new", "load", "done"} => Past(copy[r], report)
  /\ pc[r] = "lockReport" => bothPartiesSignedOff(report)
  /\ pc[r] = "lockSession" => Locked(report.status)

LockInv == /\ TypeOK
           /\ \A r \in Requests : RequestLocks(r)
           /\ LockedIsSigned
           /\ SessionLocksAfterReport

LEMMA PastTransitive ==
  ASSUME NEW a, NEW b, NEW c, Past(a, b), Past(b, c)
  PROVE  Past(a, c)
  BY Zenon DEF Past

LEMMA PastSigned ==
  ASSUME NEW a, NEW b, Past(a, b), bothPartiesSignedOff(a)
  PROVE  bothPartiesSignedOff(b)
  BY Zenon DEF Past, bothPartiesSignedOff, partySignedOff

LEMMA PastReflexive ==
  ASSUME NEW a PROVE Past(a, a)
  BY Zenon DEF Past

(* A step that takes nothing back and unlocks nothing is harmless to the   *)
(* requests it does not move.                                              *)
LEMMA StayingKeeps ==
  ASSUME NEW r \in Requests, RequestLocks(r),
         Past(report, report'), Locked(report.status) => Locked(report'.status),
         pc'[r] = pc[r], copy'[r] = copy[r]
  PROVE  RequestLocks(r)'
<1>1. pc'[r] \notin {"new", "load", "done"} => Past(copy'[r], report')
  BY PastTransitive DEF RequestLocks
<1>2. pc'[r] = "lockReport" => bothPartiesSignedOff(report')
  BY PastSigned DEF RequestLocks
<1> QED
  BY <1>1, <1>2 DEF RequestLocks, Past, bothPartiesSignedOff, partySignedOff

LEMMA EndedKeeps ==
  ASSUME NEW r \in Requests, pc'[r] \in {"new", "load", "done"}
  PROVE  RequestLocks(r)'
  BY DEF RequestLocks

(* Hence a step of request r that leaves the report and the session alone. *)
LEMMA QuietStepKeeps ==
  ASSUME LockInv, TypeOK', NEW r \in Requests, UNCHANGED <<report, session>>,
         \A d \in Requests \ {r} : pc'[d] = pc[d] /\ copy'[d] = copy[d],
         RequestLocks(r)'
  PROVE  LockInv'
<1>1. Past(report, report')
  BY PastReflexive
<1>2. \A d \in Requests : RequestLocks(d)'
  BY <1>1, StayingKeeps DEF LockInv
<1> QED
  BY <1>2 DEF LockInv, LockedIsSigned, SessionLocksAfterReport

LEMMA OverMoves ==
  ASSUME TypeOK, NEW r \in Requests, Over(r)
  PROVE  /\ pc'[r] = "done"
         /\ \A d \in Requests \ {r} : pc'[d] = pc[d] /\ copy'[d] = copy[d]
  BY DEF TypeOK, RequestsOK, Over

LEMMA GotoMoves ==
  ASSUME TypeOK, NEW r \in Requests, NEW s, NEW c, Goto(r, s, c)
  PROVE  /\ pc'[r] = s /\ copy'[r] = c
         /\ \A d \in Requests \ {r} : pc'[d] = pc[d] /\ copy'[d] = copy[d]
  BY DEF TypeOK, RequestsOK, Goto

LEMMA EndingKeeps ==
  ASSUME LockInv, TypeOK', NEW r \in Requests, Over(r), UNCHANGED <<report, session>>
  PROVE  LockInv'
<1>1. /\ pc'[r] = "done"
      /\ \A d \in Requests \ {r} : pc'[d] = pc[d] /\ copy'[d] = copy[d]
  BY OverMoves DEF LockInv
<1> QED
  BY <1>1, EndedKeeps, QuietStepKeeps

-----------------------------------------------------------------------------
LEMMA InitLocks == Init => LockInv
<1> SUFFICES ASSUME Init PROVE LockInv
  OBVIOUS
<1>1. \A r \in Requests : RequestLocks(r)
  BY DEF Init, RequestLocks
<1>2. LockedIsSigned /\ SessionLocksAfterReport
  BY DEF Init, LockedIsSigned, SessionLocksAfterReport, Locked, LOCKED_STATUSES
<1> QED
  BY <1>1, <1>2, InitTypes DEF LockInv

LEMMA ReceivePatchLocks ==
  ASSUME LockInv, TypeOK', NEW p \in Patches, ReceivePatch(p)
  PROVE  LockInv'
<1>1. p \in Requests /\ UNCHANGED <<report, session>>
  BY DEF ReceivePatch, Requests
<1>2. CASE Locked(session)
  BY <1>1, <1>2, EndingKeeps DEF ReceivePatch, Done
<1>3. CASE ~Locked(session)
  <2>1. /\ pc'[p] = "load"
        /\ \A d \in Requests \ {p} : pc'[d] = pc[d] /\ copy'[d] = copy[d]
    BY <1>1, <1>3 DEF ReceivePatch, LockInv, TypeOK, RequestsOK
  <2> QED
    BY <1>1, <2>1, EndedKeeps, QuietStepKeeps
<1> QED
  BY <1>2, <1>3

LEMMA LoadReportLocks ==
  ASSUME LockInv, TypeOK', NEW p \in Patches, LoadReport(p)
  PROVE  LockInv'
<1>1. p \in Requests /\ UNCHANGED <<report, session>>
  BY DEF LoadReport, Requests
<1>2. CASE Done(p)
  BY <1>1, <1>2, EndingKeeps DEF Done
<1>3. CASE Goto(p, "save", report)
  <2>1. /\ pc'[p] = "save" /\ copy'[p] = report
        /\ \A d \in Requests \ {p} : pc'[d] = pc[d] /\ copy'[d] = copy[d]
    BY <1>1, <1>3, GotoMoves DEF LockInv
  <2>2. Past(copy'[p], report')
    BY <1>1, <2>1, PastReflexive
  <2>3. RequestLocks(p)'
    BY <2>1, <2>2 DEF RequestLocks, Past
  <2> QED
    BY <1>1, <2>1, <2>3, QuietStepKeeps
<1> QED
  BY <1>2, <1>3 DEF LoadReport

LEMMA GuardUploadLocks ==
  ASSUME LockInv, TypeOK', NEW u \in Uploads, GuardUpload(u)
  PROVE  LockInv'
<1>1. u \in Requests /\ UNCHANGED <<report, session>>
  BY DEF GuardUpload, Requests
<1>2. CASE Locked(report.status)
  BY <1>1, <1>2, EndingKeeps DEF GuardUpload, Done
<1>3. CASE ~Locked(report.status)
  <2>1. /\ pc'[u] = "body" /\ copy'[u] = report
        /\ \A d \in Requests \ {u} : pc'[d] = pc[d] /\ copy'[d] = copy[d]
    BY <1>1, <1>3 DEF GuardUpload, LockInv, TypeOK, RequestsOK
  <2>2. Past(copy'[u], report')
    BY <1>1, <2>1, PastReflexive
  <2>3. RequestLocks(u)'
    BY <2>1, <2>2 DEF RequestLocks, Past
  <2> QED
    BY <1>1, <2>1, <2>3, QuietStepKeeps
<1> QED
  BY <1>2, <1>3

LEMMA ReceiveBodyLocks ==
  ASSUME LockInv, TypeOK', NEW u \in Uploads, ReceiveBody(u)
  PROVE  LockInv'
<1>1. u \in Requests /\ UNCHANGED <<report, session>> /\ pc[u] = "body"
  BY DEF ReceiveBody, Requests
<1>2. CASE Done(u)
  BY <1>1, <1>2, EndingKeeps DEF Done
<1>3. CASE Goto(u, "save", copy[u])
  <2>1. /\ pc'[u] = "save" /\ copy'[u] = copy[u]
        /\ \A d \in Requests \ {u} : pc'[d] = pc[d] /\ copy'[d] = copy[d]
    BY <1>1, <1>3, GotoMoves DEF LockInv
  <2>2. Past(copy'[u], report')
    BY <1>1, <2>1 DEF LockInv, RequestLocks
  <2>3. RequestLocks(u)'
    BY <2>1, <2>2 DEF RequestLocks, Past
  <2> QED
    BY <1>1, <2>1, <2>3, QuietStepKeeps
<1> QED
  BY <1>2, <1>3 DEF ReceiveBody

LEMMA LoadSessionLocks ==
  ASSUME LockInv, TypeOK', NEW u \in Uploads, LoadSession(u)
  PROVE  LockInv'
<1>1. u \in Requests /\ UNCHANGED <<report, session>> /\ pc[u] = "session"
  BY DEF LoadSession, Requests
<1>2. CASE ~ToLock(copy[u])
  BY <1>1, <1>2, EndingKeeps DEF LoadSession, Done
<1>3. CASE ToLock(copy[u])
  <2>1. /\ pc'[u] = "lockReport" /\ copy' = copy
        /\ \A d \in Requests \ {u} : pc'[d] = pc[d]
    BY <1>1, <1>3 DEF LoadSession, LockInv, TypeOK, RequestsOK
  <2>2. Past(copy[u], report) /\ bothPartiesSignedOff(copy[u])
    BY <1>1, <1>3 DEF LockInv, RequestLocks, ToLock
  <2>3. RequestLocks(u)'
    <3>1. bothPartiesSignedOff(report)
      BY <2>2, PastSigned
    <3>2. Past(copy'[u], report') /\ bothPartiesSignedOff(report')
      BY <1>1, <2>1, <2>2, <3>1
    <3> QED
      BY <2>1, <3>2 DEF RequestLocks, Past, bothPartiesSignedOff, partySignedOff
  <2> QED
    BY <1>1, <2>1, <2>3, QuietStepKeeps
<1> QED
  BY <1>2, <1>3

(* A step of request r that writes the report and takes nothing back.      *)
LEMMA WritingKeeps ==
  ASSUME LockInv, TypeOK', NEW r \in Requests, UNCHANGED session,
         Past(report, report'), report'.status = report.status,
         \A d \in Requests \ {r} : pc'[d] = pc[d] /\ copy'[d] = copy[d],
         RequestLocks(r)'
  PROVE  LockInv'
<1>1. \A d \in Requests : RequestLocks(d)'
  BY StayingKeeps DEF LockInv
<1>2. LockedIsSigned'
  BY DEF LockInv, LockedIsSigned, Past
<1>3. SessionLocksAfterReport'
  BY DEF LockInv, SessionLocksAfterReport
<1> QED
  BY <1>1, <1>2, <1>3 DEF LockInv

(* What a saved patch does to the stored report, and to the copy that      *)
(* maybeLockReport then looks at.                                          *)
LEMMA PatchPast ==
  ASSUME NEW st \in Report, NEW c \in Report, NEW m \in Message, NEW p \in Patches, Past(c, st)
  PROVE  /\ Past(st, Saved(st, c, m, p))
         /\ Past(Set(c, m, p), Saved(st, c, m, p))
<1> DEFINE n == Saved(st, c, m, p)
           patched == Set(c, m, p)
<1>1. n.signature = st.signature
  BY SavedReport
<1>2. \A q \in Party : st.confirmedReview[q] => n.confirmedReview[q]
  BY SavedReport
<1>3. m.field = "confirmedReview" => n.confirmedReview[m.party]
  BY SavedReport
<1>4. patched.signature = c.signature
  BY SetReport
<1>5. \A q \in Party : patched.confirmedReview[q] =>
        c.confirmedReview[q] \/ (m.field = "confirmedReview" /\ q = m.party)
  <2> SUFFICES ASSUME NEW q \in Party, patched.confirmedReview[q], ~c.confirmedReview[q]
               PROVE  m.field = "confirmedReview" /\ q = m.party
    OBVIOUS
  <2> QED
    BY SetConfirms
<1> HIDE DEF n, patched
<1>6. Past(st, n)
  BY <1>1, <1>2 DEF Past
<1>7. Past(patched, n)
  BY <1>1, <1>2, <1>3, <1>4, <1>5, Zenon DEF Past
<1> QED
  BY <1>6, <1>7 DEF n, patched

LEMMA PatchStatus ==
  ASSUME NEW st \in Report, NEW c \in Report, NEW m \in Message, NEW p \in Patches,
         NEW n \in Report, n = Saved(st, c, m, p)
  PROVE  n.status = st.status
<1>1. CASE n = Set(st, m, p)
  <2>1. Set(st, m, p).status = st.status
    BY SetKeeps
  <2> QED
    BY <1>1, <2>1
<1>2. CASE n # Set(st, m, p)
  <2>1. n = [st EXCEPT !.vehicle[m.party] = Set(c, m, p).vehicle[m.party]]
    BY <1>2 DEF Saved
  <2> QED
    BY <2>1 DEF Report
<1> QED
  BY <1>1, <1>2

LEMMA SignPast ==
  ASSUME NEW st \in Report, NEW c \in Report, NEW q \in Party, NEW u \in Uploads, Past(c, st)
  PROVE  /\ Past(st, [st EXCEPT !.signature[q] = u, !.v = @ + 1])
         /\ Past([c EXCEPT !.signature[q] = u, !.v = @ + 1],
                 [st EXCEPT !.signature[q] = u, !.v = @ + 1])
<1> DEFINE signed(r) == [r EXCEPT !.signature[q] = u, !.v = @ + 1]
<1>1. \A r \in Report : \A p \in Party :
        signed(r).confirmedReview[p] = r.confirmedReview[p]
  BY DEF Report
<1>2. \A r \in Report : \A p \in Party :
        signed(r).signature[p] = IF p = q THEN u ELSE r.signature[p]
  <2> SUFFICES ASSUME NEW r \in Report, NEW p \in Party
               PROVE  signed(r).signature[p] = IF p = q THEN u ELSE r.signature[p]
    OBVIOUS
  <2>1. signed(r).signature = [r.signature EXCEPT ![q] = u]
    BY DEF Report
  <2>2. r.signature \in [Party -> Uploads \cup {None}]
    BY ReportFields
  <2> QED
    BY <2>1, <2>2
<1>3. u # None
  OBVIOUS
<1> HIDE DEF signed
<1>4. Past(st, signed(st)) /\ Past(signed(c), signed(st))
  BY <1>1, <1>2, <1>3, Zenon DEF Past
<1> QED
  BY <1>4 DEF signed

LEMMA SavePatchLocks ==
  ASSUME LockInv, TypeOK', NEW p \in Patches, SavePatch(p)
  PROVE  LockInv'
<1> DEFINE patched == Set(copy[p], what[p], p)
<1>1. /\ p \in Requests /\ pc[p] = "save" /\ report \in Report
      /\ what[p] \in Message /\ copy[p] \in Report
      /\ report' = Saved(report, copy[p], what[p], p) /\ session' = session
      /\ Past(copy[p], report)
  BY DEF LockInv, TypeOK, StoredOK, RequestsOK, RequestOK, RequestLocks, SavePatch, Requests
<1>2. report'.status = report.status
  <2>1. report' \in Report
    BY DEF TypeOK, StoredOK
  <2> QED
    BY <1>1, <2>1, PatchStatus
<1>3. Past(report, report')
  BY <1>1, PatchPast
<1>4. Past(patched, report')
  BY <1>1, PatchPast
<1>5. CASE Done(p)
  <2>1. /\ pc'[p] = "done"
        /\ \A d \in Requests \ {p} : pc'[d] = pc[d] /\ copy'[d] = copy[d]
    BY <1>1, <1>5, OverMoves DEF LockInv, Done
  <2> QED
    BY <1>1, <1>2, <1>3, <2>1, EndedKeeps, WritingKeeps
<1>6. CASE ToLock(patched) /\ Goto(p, "lockReport", patched)
  <2>1. /\ pc'[p] = "lockReport" /\ copy'[p] = patched
        /\ \A d \in Requests \ {p} : pc'[d] = pc[d] /\ copy'[d] = copy[d]
    BY <1>1, <1>6, GotoMoves DEF LockInv
  <2>2. Past(copy'[p], report')
    BY <1>4, <2>1
  <2>3. bothPartiesSignedOff(report')
    BY <1>4, <1>6, PastSigned DEF ToLock
  <2>4. RequestLocks(p)'
    BY <2>1, <2>2, <2>3 DEF RequestLocks, Past, bothPartiesSignedOff, partySignedOff
  <2> QED
    BY <1>1, <1>2, <1>3, <2>1, <2>4, WritingKeeps
<1> QED
  BY <1>5, <1>6 DEF SavePatch

LEMMA SaveSignatureLocks ==
  ASSUME LockInv, TypeOK', NEW u \in Uploads, SaveSignature(u)
  PROVE  LockInv'
<1> DEFINE signed(r) == [r EXCEPT !.signature[what[u]] = u, !.v = @ + 1]
<1>1. /\ u \in Requests /\ pc[u] = "save" /\ report \in Report
      /\ what[u] \in Party /\ copy[u] \in Report /\ session' = session
      /\ Past(copy[u], report)
  BY DEF LockInv, TypeOK, StoredOK, RequestsOK, RequestOK, RequestLocks, SaveSignature, Requests
<1>2. CASE Done(u) /\ UNCHANGED report
  BY <1>1, <1>2, EndingKeeps DEF Done
<1>3. CASE report' = signed(report) /\ Goto(u, "session", signed(copy[u]))
  <2>1. report'.status = report.status
    BY <1>1, <1>3 DEF Report
  <2>2. Past(report, report') /\ Past(signed(copy[u]), report')
    BY <1>1, <1>3, SignPast
  <2>3. /\ pc'[u] = "session" /\ copy'[u] = signed(copy[u])
        /\ \A d \in Requests \ {u} : pc'[d] = pc[d] /\ copy'[d] = copy[d]
    BY <1>1, <1>3, GotoMoves DEF LockInv
  <2>4. Past(copy'[u], report')
    BY <2>2, <2>3
  <2>5. RequestLocks(u)'
    BY <2>3, <2>4 DEF RequestLocks, Past
  <2> QED
    BY <1>1, <2>1, <2>2, <2>3, <2>5, WritingKeeps
<1> QED
  BY <1>2, <1>3 DEF SaveSignature

LEMMA LockReportLocks ==
  ASSUME LockInv, TypeOK', NEW r \in Requests, LockReport(r)
  PROVE  LockInv'
<1>1. /\ pc[r] = "lockReport" /\ report \in Report /\ session' = session
      /\ report' = [report EXCEPT !.status = "signing"]
      /\ Past(copy[r], report) /\ bothPartiesSignedOff(report)
  BY DEF LockInv, TypeOK, StoredOK, RequestLocks, LockReport
<1>2. /\ report'.status = "signing" /\ Locked(report'.status)
      /\ report'.confirmedReview = report.confirmedReview
      /\ report'.signature = report.signature
  BY <1>1, ReplaceStatus DEF Locked, LOCKED_STATUSES
<1>3. Past(report, report')
  BY <1>2 DEF Past
<1>4. RequestLocks(r)' /\ \A d \in Requests \ {r} : pc'[d] = pc[d] /\ copy'[d] = copy[d]
  <2>1. CASE Done(r)
    BY <2>1, OverMoves, EndedKeeps DEF Done, LockInv
  <2>2. CASE Goto(r, "lockSession", copy[r])
    <3>1. /\ pc'[r] = "lockSession" /\ copy'[r] = copy[r]
          /\ \A d \in Requests \ {r} : pc'[d] = pc[d] /\ copy'[d] = copy[d]
      BY <2>2, GotoMoves DEF LockInv
    <3>2. Past(copy'[r], report')
      BY <1>1, <1>3, <3>1, PastTransitive
    <3> QED
      BY <1>2, <3>1, <3>2 DEF RequestLocks, Past, Locked
  <2> QED
    BY <2>1, <2>2 DEF LockReport
<1>5. \A d \in Requests : RequestLocks(d)'
  BY <1>2, <1>3, <1>4, StayingKeeps DEF LockInv
<1>6. LockedIsSigned'
  BY <1>1, <1>2 DEF LockedIsSigned, bothPartiesSignedOff, partySignedOff
<1>7. SessionLocksAfterReport'
  BY <1>2 DEF SessionLocksAfterReport
<1> QED
  BY <1>5, <1>6, <1>7 DEF LockInv

LEMMA LockSessionLocks ==
  ASSUME LockInv, TypeOK', NEW r \in Requests, LockSession(r)
  PROVE  LockInv'
<1>1. UNCHANGED report /\ Locked(report.status) /\ Over(r)
  BY DEF LockInv, RequestLocks, LockSession, Done
<1>2. \A d \in Requests : RequestLocks(d)'
  <2>1. /\ pc'[r] = "done"
        /\ \A d \in Requests \ {r} : pc'[d] = pc[d] /\ copy'[d] = copy[d]
    BY <1>1, OverMoves DEF LockInv
  <2> QED
    BY <1>1, <2>1, PastReflexive, StayingKeeps, EndedKeeps DEF LockInv
<1> QED
  BY <1>1, <1>2 DEF LockInv, LockedIsSigned, SessionLocksAfterReport

LEMMA CallRejectsLocks ==
  ASSUME LockInv, TypeOK', NEW r \in Requests, CallRejects(r)
  PROVE  LockInv'
  BY EndingKeeps DEF CallRejects, Done

LEMMA CrashLocks ==
  ASSUME LockInv, TypeOK', Crash
  PROVE  LockInv'
<1>1. \A d \in Requests : pc'[d] \in {"new", "load", "done"}
  BY DEF Crash
<1> QED
  BY <1>1, EndedKeeps DEF LockInv, LockedIsSigned, SessionLocksAfterReport, Crash

LEMMA NextLocks == LockInv /\ [Next]_vars => LockInv'
<1> SUFFICES ASSUME LockInv, [Next]_vars PROVE LockInv'
  OBVIOUS
<1>1. TypeOK'
  BY NextTypes DEF LockInv
<1>2. CASE \E p \in Patches : ReceivePatch(p) \/ LoadReport(p) \/ SavePatch(p)
  BY <1>1, <1>2, ReceivePatchLocks, LoadReportLocks, SavePatchLocks
<1>3. CASE \E u \in Uploads : GuardUpload(u) \/ ReceiveBody(u) \/ SaveSignature(u) \/ LoadSession(u)
  BY <1>1, <1>3, GuardUploadLocks, ReceiveBodyLocks, SaveSignatureLocks, LoadSessionLocks
<1>4. CASE \E r \in Requests : LockReport(r) \/ LockSession(r) \/ CallRejects(r)
  BY <1>1, <1>4, LockReportLocks, LockSessionLocks, CallRejectsLocks
<1>5. CASE Crash
  BY <1>1, <1>5, CrashLocks
<1>6. CASE UNCHANGED vars
  <2>1. UNCHANGED <<report, session, pc, copy>>
    BY <1>6 DEF vars, requests
  <2>2. \A d \in Requests : RequestLocks(d)'
    BY <2>1, PastReflexive, StayingKeeps DEF LockInv
  <2> QED
    BY <1>1, <2>1, <2>2 DEF LockInv, LockedIsSigned, SessionLocksAfterReport
<1> QED
  BY <1>2, <1>3, <1>4, <1>5, <1>6 DEF Next

(* A report is locked only once both parties have confirmed and signed,    *)
(* however stale the copy is that maybeLockReport decides on.              *)
THEOREM LockedReportIsSigned == Spec => []LockedIsSigned
<1>1. LockInv => LockedIsSigned
  BY DEF LockInv
<1> QED
  BY <1>1, InitLocks, NextLocks, PTL DEF Spec

(* A locked session means a locked report, wherever a lock was interrupted.*)
THEOREM SessionFollowsReport == Spec => []SessionLocksAfterReport
<1>1. LockInv => SessionLocksAfterReport
  BY DEF LockInv
<1> QED
  BY <1>1, InitLocks, NextLocks, PTL DEF Spec

-----------------------------------------------------------------------------
(* The lock, step by step: a sign-off is the save of a confirmation or of a *)
(* signature, whichever comes second, and touches one party only.           *)
SignedOff(r) == {q \in Party : partySignedOff(r, q)}

LockStep == Lock!Next \/ UNCHANGED Lock!lock

LEMMA SignOffIsOne ==
  ASSUME UNCHANGED session, report'.status = report.status, Past(report, report'),
         NEW p \in Party, \A q \in Party \ {p} : partySignedOff(report', q) => partySignedOff(report, q)
  PROVE  LockStep
<1>1. \A q \in Party : partySignedOff(report, q) => partySignedOff(report', q)
  BY DEF Past, partySignedOff
<1>2. SignedOff(report') \in {SignedOff(report), SignedOff(report) \cup {p}}
  BY <1>1 DEF SignedOff
<1>3. CASE SignedOff(report') = SignedOff(report)
  BY <1>3 DEF LockStep, Lock!lock, SignedOff
<1>4. CASE SignedOff(report') # SignedOff(report)
  <2>1. p \notin SignedOff(report) /\ SignedOff(report') = SignedOff(report) \cup {p}
    BY <1>2, <1>4
  <2>2. Lock!SignOff(p)
    BY <2>1 DEF Lock!SignOff, SignedOff
  <2> QED
    BY <2>2 DEF LockStep, Lock!Next
<1> QED
  BY <1>3, <1>4

LEMMA SavePatchLockStep == ASSUME LockInv, NEW p \in Patches, SavePatch(p) PROVE LockStep
<1>1. /\ pc[p] = "save" /\ report \in Report /\ what[p] \in Message /\ copy[p] \in Report
      /\ report' = Saved(report, copy[p], what[p], p) /\ UNCHANGED session
      /\ Past(copy[p], report)
  BY DEF LockInv, TypeOK, StoredOK, RequestsOK, RequestOK, RequestLocks, SavePatch, Requests
<1>2. what[p].party \in Party
  BY <1>1 DEF Message
<1>3. report'.status = report.status /\ report'.signature = report.signature
  BY <1>1, SavedReport
<1>4. Past(report, report')
  BY <1>1, PatchPast
<1>5. \A q \in Party \ {what[p].party} : report'.confirmedReview[q] => report.confirmedReview[q]
  BY <1>1, SavedConfirms
<1>6. \A q \in Party \ {what[p].party} : partySignedOff(report', q) => partySignedOff(report, q)
  BY <1>3, <1>5 DEF partySignedOff
<1> QED
  BY <1>1, <1>2, <1>3, <1>4, <1>6, SignOffIsOne

LEMMA SaveSignatureLockStep == ASSUME LockInv, NEW u \in Uploads, SaveSignature(u) PROVE LockStep
<1>1. /\ report \in Report /\ what[u] \in Party /\ UNCHANGED session
  BY DEF LockInv, TypeOK, StoredOK, RequestsOK, RequestOK, SaveSignature, Requests
<1>2. CASE UNCHANGED report
  BY <1>1, <1>2 DEF LockStep, Lock!lock
<1>3. CASE report' = [report EXCEPT !.signature[what[u]] = u, !.v = @ + 1]
  <2>1. /\ report'.status = report.status
        /\ report'.confirmedReview = report.confirmedReview
        /\ report'.signature = [report.signature EXCEPT ![what[u]] = u]
        /\ report.signature \in [Party -> Uploads \cup {None}]
    BY <1>1, <1>3 DEF Report
  <2>2. \A q \in Party \ {what[u]} : report'.signature[q] = report.signature[q]
    BY <1>1, <2>1
  <2>3. report'.signature[what[u]] = u /\ u # None
    BY <1>1, <2>1
  <2>4. Past(report, report')
    BY <2>1, <2>2, <2>3, Zenon DEF Past
  <2>5. \A q \in Party \ {what[u]} : partySignedOff(report', q) => partySignedOff(report, q)
    BY <2>1, <2>2 DEF partySignedOff
  <2> QED
    BY <1>1, <2>1, <2>4, <2>5, SignOffIsOne
<1> QED
  BY <1>2, <1>3 DEF SaveSignature

(* Whoever is about to save the lock has seen all four, and they stand.     *)
LEMMA LockReportLockStep == ASSUME LockInv, NEW r \in Requests, LockReport(r) PROVE LockStep
<1>1. /\ report \in Report /\ UNCHANGED session /\ bothPartiesSignedOff(report)
      /\ report' = [report EXCEPT !.status = "signing"]
  BY DEF LockInv, TypeOK, StoredOK, RequestLocks, LockReport
<1>2. /\ Locked(report'.status)
      /\ report'.confirmedReview = report.confirmedReview
      /\ report'.signature = report.signature
  BY <1>1, ReplaceStatus DEF Locked, LOCKED_STATUSES
<1>3. SignedOff(report') = SignedOff(report) /\ SignedOff(report) = Party
  BY <1>1, <1>2 DEF SignedOff, partySignedOff, bothPartiesSignedOff
<1> QED
  BY <1>1, <1>2, <1>3 DEF LockStep, Lock!Next, Lock!Lock, Lock!lock, SignedOff

LEMMA LockSessionLockStep == ASSUME LockInv, NEW r \in Requests, LockSession(r) PROVE LockStep
<1>1. UNCHANGED report /\ Locked(report.status) /\ Locked(session')
  BY DEF LockInv, RequestLocks, LockSession, Locked, LOCKED_STATUSES
<1> QED
  BY <1>1 DEF LockStep, Lock!Next, Lock!LockSession, Lock!lock

LEMMA NextLockSteps == LockInv /\ [Next]_vars => LockStep
<1> SUFFICES ASSUME LockInv, [Next]_vars PROVE LockStep
  OBVIOUS
<1>1. ASSUME UNCHANGED <<report, session>> PROVE LockStep
  BY <1>1 DEF LockStep, Lock!lock
<1>2. CASE \E p \in Patches : ReceivePatch(p) \/ LoadReport(p) \/ SavePatch(p)
  BY <1>1, <1>2, SavePatchLockStep DEF ReceivePatch, LoadReport
<1>3. CASE \E u \in Uploads : GuardUpload(u) \/ ReceiveBody(u) \/ SaveSignature(u) \/ LoadSession(u)
  BY <1>1, <1>3, SaveSignatureLockStep DEF GuardUpload, ReceiveBody, LoadSession
<1>4. CASE \E r \in Requests : LockReport(r) \/ LockSession(r) \/ CallRejects(r)
  BY <1>1, <1>4, LockReportLockStep, LockSessionLockStep DEF CallRejects
<1>5. CASE Crash \/ UNCHANGED vars
  BY <1>1, <1>5 DEF Crash, vars
<1> QED
  BY <1>2, <1>3, <1>4, <1>5 DEF Next

(* However patches, signatures, failures and restarts interleave, the       *)
(* parties sign off for good, the report locks once, when both have, and    *)
(* its session after it.                                                    *)
THEOREM SignOffImplementsLock == Spec => ImplementsSignedLock
<1>1. Init => Lock!Init
  BY DEF Init, Lock!Init, partySignedOff, Locked, LOCKED_STATUSES
<1>2. LockInv /\ [Next]_vars => [Lock!Next]_(Lock!lock)
  BY NextLockSteps DEF LockStep
<1> QED
  BY <1>1, <1>2, InitLocks, NextLocks, PTL DEF Spec, ImplementsSignedLock, Lock!Spec

-----------------------------------------------------------------------------
(* Serialization.  The chain holds exactly the patches being served, each  *)
(* once, and only its head is past the lock.                               *)
Holding == {"save", "lockReport", "lockSession"}

ChainInv ==
  /\ \A i, j \in 1..Len(queue) : queue[i] = queue[j] => i = j
  /\ \A i \in 1..Len(queue) : pc[queue[i]] \notin {"new", "done"}
  /\ \A p \in Patches : pc[p] \notin {"new", "done"} => \E i \in 1..Len(queue) : queue[i] = p
  /\ \A p \in Patches : pc[p] \in Holding => queue[1] = p

LEMMA ChainServes == TypeOK /\ ChainInv => ChainMovesOn
  BY DEF TypeOK, RequestsOK, ChainInv, ChainMovesOn, Turn, Holding

(* Requests that are not in the chain may do what they like,               *)
LEMMA SideKeeps ==
  ASSUME ChainInv, TypeOK, UNCHANGED queue, \A p \in Patches : pc'[p] = pc[p]
  PROVE  ChainInv'
<1>1. \A i \in 1..Len(queue) : queue[i] \in Patches
  BY DEF TypeOK, RequestsOK
<1> QED
  BY <1>1 DEF ChainInv

(* the patch at the head may move on with the lock,                        *)
LEMMA HoldKeeps ==
  ASSUME ChainInv, TypeOK, UNCHANGED queue, NEW p \in Patches,
         pc[p] \notin {"new", "done"}, pc'[p] \notin {"new", "done"}, Turn(p),
         \A q \in Patches \ {p} : pc'[q] = pc[q]
  PROVE  ChainInv'
<1>1. \A i \in 1..Len(queue) : queue[i] \in Patches
  BY DEF TypeOK, RequestsOK
<1>2. queue # <<>> /\ queue[1] = p
  BY DEF ChainInv, TypeOK, RequestsOK, Turn
<1> QED
  BY <1>1, <1>2 DEF ChainInv

(* and when it ends, the next one is served.                               *)
LEMMA PopKeeps ==
  ASSUME ChainInv, TypeOK, NEW p \in Patches, pc[p] \notin {"new", "done"}, Turn(p), Done(p)
  PROVE  ChainInv'
<1>1. /\ queue \in Seq(Patches) /\ queue # <<>> /\ queue[1] = p
      /\ p \in Requests
  BY DEF ChainInv, TypeOK, RequestsOK, Turn, Requests
<1>2. /\ queue' = Tail(queue) /\ Len(queue') = Len(queue) - 1
      /\ \A i \in 1..Len(queue') : queue'[i] = queue[i + 1] /\ queue[i + 1] \in Patches
  BY <1>1 DEF Done, Turn
<1>3. /\ pc'[p] = "done"
      /\ \A q \in Patches \ {p} : pc'[q] = pc[q]
  BY <1>1, OverMoves DEF Done, Requests
<1>4. \A i \in 1..Len(queue') : i + 1 \in 1..Len(queue) /\ i + 1 # 1
  BY <1>1, <1>2
<1>5. \A i, j \in 1..Len(queue') : queue'[i] = queue'[j] => i = j
  BY <1>2, <1>4 DEF ChainInv
<1>6. \A i \in 1..Len(queue') : queue'[i] # p /\ pc'[queue'[i]] \notin {"new", "done"}
  BY <1>1, <1>2, <1>3, <1>4 DEF ChainInv
<1>7. \A q \in Patches : pc'[q] \notin {"new", "done"} => \E i \in 1..Len(queue') : queue'[i] = q
  <2> SUFFICES ASSUME NEW q \in Patches, pc'[q] \notin {"new", "done"}
               PROVE  \E i \in 1..Len(queue') : queue'[i] = q
    OBVIOUS
  <2>1. q # p /\ pc[q] \notin {"new", "done"}
    BY <1>3
  <2>2. PICK k \in 1..Len(queue) : queue[k] = q
    BY <2>1 DEF ChainInv
  <2>3. k - 1 \in 1..Len(queue')
    BY <1>1, <1>2, <2>1, <2>2
  <2>4. queue'[k - 1] = q
    BY <1>2, <2>2, <2>3
  <2> QED
    BY <2>3, <2>4
<1>8. \A q \in Patches : pc'[q] \notin Holding
  BY <1>1, <1>3 DEF ChainInv, Holding
<1> QED
  BY <1>5, <1>6, <1>7, <1>8 DEF ChainInv

(* Only the head of the chain is past the lock.                            *)
LEMMA ServedIsHead ==
  ASSUME ChainInv, TypeOK, NEW p \in Patches, pc[p] \in Holding
  PROVE  Turn(p)
<1>1. queue \in Seq(Patches) /\ queue[1] = p
  BY DEF ChainInv, TypeOK, RequestsOK
<1>2. \E i \in 1..Len(queue) : queue[i] = p
  BY DEF ChainInv, Holding
<1>3. queue # <<>>
  BY <1>1, <1>2
<1> QED
  BY <1>1, <1>3 DEF Turn

(* A request that was never in the chain leaves it as it is when it ends.  *)
LEMMA OutsideEnds ==
  ASSUME ChainInv, TypeOK, NEW r \in Requests, r \in Patches => pc[r] = "new", Done(r)
  PROVE  ChainInv'
<1>1. UNCHANGED queue
  BY DEF ChainInv, TypeOK, RequestsOK, Done
<1>2. /\ pc'[r] = "done"
      /\ \A d \in Requests \ {r} : pc'[d] = pc[d]
  BY OverMoves DEF Done
<1>3. \A i \in 1..Len(queue) : queue[i] \in Patches /\ queue[i] # r
  BY DEF ChainInv, TypeOK, RequestsOK
<1> QED
  BY <1>1, <1>2, <1>3 DEF ChainInv, Requests, Holding

LEMMA InitChain == Init => ChainInv
  BY DEF Init, ChainInv, Requests, Holding

LEMMA ReceivePatchChain ==
  ASSUME ChainInv, TypeOK, NEW p \in Patches, ReceivePatch(p)
  PROVE  ChainInv'
<1>1. CASE Locked(session)
  BY <1>1, OutsideEnds DEF ReceivePatch, Requests
<1>2. CASE ~Locked(session)
  <2>1. /\ queue' = Append(queue, p) /\ pc[p] = "new" /\ pc'[p] = "load"
        /\ \A q \in Patches \ {p} : pc'[q] = pc[q]
    BY <1>2 DEF ReceivePatch, TypeOK, RequestsOK, Requests
  <2>2. /\ queue \in Seq(Patches)
        /\ Len(queue') = Len(queue) + 1 /\ queue'[Len(queue) + 1] = p
        /\ \A i \in 1..Len(queue) : queue'[i] = queue[i] /\ queue[i] \in Patches /\ queue[i] # p
    BY <2>1 DEF TypeOK, RequestsOK, ChainInv
  <2>3. Len(queue) \in Nat
    BY <2>2
  <2>4. \A i \in 1..Len(queue') : i \in 1..Len(queue) \/ i = Len(queue) + 1
    BY <2>2, <2>3
  <2>5. \A i, j \in 1..Len(queue') : queue'[i] = queue'[j] => i = j
    BY <2>2, <2>4 DEF ChainInv
  <2>6. \A i \in 1..Len(queue') : pc'[queue'[i]] \notin {"new", "done"}
    BY <2>1, <2>2, <2>4 DEF ChainInv
  <2>7. \A q \in Patches : pc'[q] \notin {"new", "done"} => \E i \in 1..Len(queue') : queue'[i] = q
    <3> SUFFICES ASSUME NEW q \in Patches, pc'[q] \notin {"new", "done"}
                 PROVE  \E i \in 1..Len(queue') : queue'[i] = q
      OBVIOUS
    <3>1. CASE q = p
      BY <3>1, <2>2, <2>3
    <3>2. CASE q # p
      <4>1. PICK k \in 1..Len(queue) : queue[k] = q
        BY <2>1, <3>2 DEF ChainInv
      <4>2. k \in 1..Len(queue') /\ queue'[k] = q
        BY <2>2, <2>3, <4>1
      <4> QED
        BY <4>2
    <3> QED
      BY <3>1, <3>2
  <2>8. \A q \in Patches : pc'[q] \in Holding => queue'[1] = q
    <3> SUFFICES ASSUME NEW q \in Patches, pc'[q] \in Holding
                 PROVE  queue'[1] = q
      OBVIOUS
    <3>1. q # p /\ pc[q] \in Holding
      BY <2>1 DEF Holding
    <3>2. queue[1] = q /\ \E i \in 1..Len(queue) : queue[i] = q
      BY <3>1 DEF ChainInv, Holding
    <3>3. 1 \in 1..Len(queue)
      BY <2>3, <3>2
    <3> QED
      BY <2>2, <3>2, <3>3
  <2> QED
    BY <2>5, <2>6, <2>7, <2>8 DEF ChainInv
<1> QED
  BY <1>1, <1>2

LEMMA LoadReportChain ==
  ASSUME ChainInv, TypeOK, NEW p \in Patches, LoadReport(p)
  PROVE  ChainInv'
<1>1. pc[p] = "load" /\ Turn(p) /\ p \in Requests
  BY DEF LoadReport, Requests
<1>2. CASE Done(p)
  BY <1>1, <1>2, PopKeeps
<1>3. CASE Goto(p, "save", report) /\ UNCHANGED queue
  <2>1. pc'[p] = "save" /\ \A q \in Patches \ {p} : pc'[q] = pc[q]
    BY <1>1, <1>3, GotoMoves DEF Requests
  <2> QED
    BY <1>1, <1>3, <2>1, HoldKeeps
<1> QED
  BY <1>2, <1>3 DEF LoadReport

LEMMA SavePatchChain ==
  ASSUME ChainInv, TypeOK, NEW p \in Patches, SavePatch(p)
  PROVE  ChainInv'
<1>1. pc[p] = "save" /\ p \in Requests
  BY DEF SavePatch, Requests
<1>2. Turn(p)
  BY <1>1, ServedIsHead DEF Holding
<1>3. CASE Done(p)
  BY <1>1, <1>2, <1>3, PopKeeps
<1>4. CASE Goto(p, "lockReport", Set(copy[p], what[p], p)) /\ UNCHANGED queue
  <2>1. pc'[p] = "lockReport" /\ \A q \in Patches \ {p} : pc'[q] = pc[q]
    BY <1>1, <1>4, GotoMoves DEF Requests
  <2> QED
    BY <1>1, <1>2, <1>4, <2>1, HoldKeeps
<1> QED
  BY <1>3, <1>4 DEF SavePatch

(* A signature upload never touches the chain of patches.                  *)
LEMMA UploadChain ==
  ASSUME ChainInv, TypeOK, NEW u \in Uploads,
         GuardUpload(u) \/ ReceiveBody(u) \/ SaveSignature(u) \/ LoadSession(u)
  PROVE  ChainInv'
<1>1. u \in Requests /\ u \notin Patches
  BY DEF Requests
<1>2. CASE Done(u)
  BY <1>1, <1>2, OutsideEnds
<1>3. CASE ~Done(u)
  <2>1. UNCHANGED queue
    BY <1>3 DEF GuardUpload, ReceiveBody, SaveSignature, LoadSession
  <2>2. \A p \in Patches : pc'[p] = pc[p]
    BY <1>1, <1>3 DEF GuardUpload, ReceiveBody, SaveSignature, LoadSession, Goto,
                     TypeOK, RequestsOK, Requests
  <2> QED
    BY <2>1, <2>2, SideKeeps
<1> QED
  BY <1>2, <1>3

LEMMA LockChain ==
  ASSUME ChainInv, TypeOK, NEW r \in Requests, LockReport(r) \/ LockSession(r)
  PROVE  ChainInv'
<1>1. pc[r] \in {"lockReport", "lockSession"}
  BY DEF LockReport, LockSession
<1>2. CASE Done(r)
  <2>1. CASE r \in Patches
    <3>1. Turn(r)
      BY <1>1, <2>1, ServedIsHead DEF Holding
    <3> QED
      BY <1>1, <1>2, <2>1, <3>1, PopKeeps
  <2>2. CASE r \notin Patches
    BY <1>2, <2>2, OutsideEnds
  <2> QED
    BY <2>1, <2>2
<1>3. CASE Goto(r, "lockSession", copy[r]) /\ UNCHANGED queue
  <2>1. pc'[r] = "lockSession" /\ \A d \in Requests \ {r} : pc'[d] = pc[d]
    BY <1>3, GotoMoves
  <2>2. CASE r \in Patches
    <3>1. Turn(r)
      BY <1>1, <2>2, ServedIsHead DEF Holding
    <3> QED
      BY <1>1, <1>3, <2>1, <2>2, <3>1, HoldKeeps DEF Requests
  <2>3. CASE r \notin Patches
    BY <1>3, <2>1, <2>3, SideKeeps DEF Requests
  <2> QED
    BY <2>2, <2>3
<1> QED
  BY <1>2, <1>3 DEF LockReport, LockSession

LEMMA CallRejectsChain ==
  ASSUME ChainInv, TypeOK, NEW r \in Requests, CallRejects(r)
  PROVE  ChainInv'
<1>1. pc[r] \notin {"new", "done"} /\ Done(r) /\ (pc[r] = "load" => Turn(r))
  BY DEF CallRejects
<1>2. CASE r \in Patches
  <2>1. Turn(r)
    BY <1>1, <1>2, ServedIsHead DEF TypeOK, RequestsOK, RequestOK, Steps, Holding
  <2> QED
    BY <1>1, <1>2, <2>1, PopKeeps
<1>3. CASE r \notin Patches
  BY <1>1, <1>3, OutsideEnds
<1> QED
  BY <1>2, <1>3

LEMMA CrashChain ==
  ASSUME ChainInv, TypeOK, Crash
  PROVE  ChainInv'
<1>1. queue' = <<>> /\ \A r \in Requests : pc'[r] \in {"new", "done"}
  BY DEF Crash
<1> QED
  BY <1>1 DEF ChainInv, Requests, Holding

LEMMA NextChain == ChainInv /\ TypeOK /\ [Next]_vars => ChainInv'
<1> SUFFICES ASSUME ChainInv, TypeOK, [Next]_vars PROVE ChainInv'
  OBVIOUS
<1>1. CASE \E p \in Patches : ReceivePatch(p) \/ LoadReport(p) \/ SavePatch(p)
  BY <1>1, ReceivePatchChain, LoadReportChain, SavePatchChain
<1>2. CASE \E u \in Uploads : GuardUpload(u) \/ ReceiveBody(u) \/ SaveSignature(u) \/ LoadSession(u)
  BY <1>2, UploadChain
<1>3. CASE \E r \in Requests : LockReport(r) \/ LockSession(r) \/ CallRejects(r)
  BY <1>3, LockChain, CallRejectsChain
<1>4. CASE Crash
  BY <1>4, CrashChain
<1>5. CASE UNCHANGED vars
  BY <1>5, SideKeeps DEF vars, requests
<1> QED
  BY <1>1, <1>2, <1>3, <1>4, <1>5 DEF Next

(* Whatever fails, and whenever the process restarts, the chain of a report *)
(* goes on: its head is still being served and nobody else is past the lock.*)
THEOREM ChainKeepsMoving == Spec => []ChainMovesOn
<1>1. Init => TypeOK /\ ChainInv
  BY InitTypes, InitChain
<1>2. (TypeOK /\ ChainInv) /\ [Next]_vars => (TypeOK /\ ChainInv)'
  BY NextTypes, NextChain
<1> QED
  BY <1>1, <1>2, ChainServes, PTL DEF Spec

-----------------------------------------------------------------------------
(* Lost updates.  Since the chain lets one patch at a time load, change and *)
(* save the report, the vehicle fields a patch has loaded are current when *)
(* it saves; nothing but a patch writes them.                              *)
WriteInv == /\ report.vehicle = written
            /\ \A p \in Patches : pc[p] = "save" => copy[p].vehicle = report.vehicle

LEMMA SavedVehicle ==
  ASSUME NEW st \in Report, NEW ld \in Report, NEW m \in Message, NEW p \in Patches,
         ld.vehicle = st.vehicle
  PROVE  Saved(st, ld, m, p).vehicle = IF m.field \in Leaf
                                         THEN [st.vehicle EXCEPT ![m.party][m.field] = p]
                                         ELSE st.vehicle
<1>1. CASE m.field \in Leaf /\ ld.vehicle[m.party] = [l \in Leaf |-> None]
  <2> DEFINE x == [st.vehicle EXCEPT ![m.party] = Set(ld, m, p).vehicle[m.party]]
  <2>1. m.party \in Party /\ st.vehicle \in [Party -> Vehicle]
    BY ReportFields DEF Message
  <2>2. Set(ld, m, p).vehicle = [st.vehicle EXCEPT ![m.party][m.field] = p]
    BY <1>1, SetReport
  <2>3. x = [st.vehicle EXCEPT ![m.party][m.field] = p]
    BY <2>1, <2>2
  <2>4. x \in [Party -> Vehicle]
    BY <1>1, <2>1, <2>3, VehicleUpdate
  <2>5. Saved(st, ld, m, p) = [st EXCEPT !.vehicle = x]
    BY <1>1 DEF Saved, Report
  <2>6. Saved(st, ld, m, p).vehicle = x
    <3> HIDE DEF x
    <3> QED BY <2>4, <2>5, ReplaceVehicle
  <2> QED
    BY <1>1, <2>3, <2>6
<1>2. CASE ~(m.field \in Leaf /\ ld.vehicle[m.party] = [l \in Leaf |-> None])
  <2>1. Saved(st, ld, m, p) = Set(st, m, p)
    BY <1>2 DEF Saved
  <2> QED
    BY <2>1, SetReport
<1> QED
  BY <1>1, <1>2

(* A step that leaves the vehicle fields alone, and lets no patch past its *)
(* load but with what it has loaded.                                       *)
LEMMA ReadingKeeps ==
  ASSUME WriteInv, report'.vehicle = report.vehicle, UNCHANGED written,
         \A p \in Patches : pc'[p] = "save" =>
           (pc[p] = "save" /\ copy'[p] = copy[p]) \/ copy'[p] = report
  PROVE  WriteInv'
  BY DEF WriteInv

LEMMA OverReads ==
  ASSUME WriteInv, TypeOK, NEW r \in Requests, Over(r),
         report'.vehicle = report.vehicle, UNCHANGED written
  PROVE  WriteInv'
<1>1. /\ pc'[r] = "done"
      /\ \A d \in Requests \ {r} : pc'[d] = pc[d] /\ copy'[d] = copy[d]
  BY OverMoves
<1> QED
  BY <1>1, ReadingKeeps DEF Requests

LEMMA GotoReads ==
  ASSUME WriteInv, TypeOK, NEW r \in Requests, NEW s, NEW c, Goto(r, s, c),
         r \in Patches => s # "save" \/ c = report,
         report'.vehicle = report.vehicle, UNCHANGED written
  PROVE  WriteInv'
<1>1. /\ pc'[r] = s /\ copy'[r] = c
      /\ \A d \in Requests \ {r} : pc'[d] = pc[d] /\ copy'[d] = copy[d]
  BY GotoMoves
<1> QED
  BY <1>1, ReadingKeeps DEF Requests

LEMMA ReceivePatchWrites ==
  ASSUME WriteInv, TypeOK, NEW p \in Patches, ReceivePatch(p)
  PROVE  WriteInv'
<1>1. CASE Locked(session)
  BY <1>1, OverReads DEF ReceivePatch, Done, Requests
<1>2. CASE ~Locked(session)
  BY <1>2, ReadingKeeps DEF ReceivePatch, TypeOK, RequestsOK, Requests
<1> QED
  BY <1>1, <1>2

LEMMA LoadReportWrites ==
  ASSUME WriteInv, TypeOK, NEW p \in Patches, LoadReport(p)
  PROVE  WriteInv'
  BY OverReads, GotoReads DEF LoadReport, Done, Requests

LEMMA SavePatchWrites ==
  ASSUME WriteInv, ChainInv, TypeOK, NEW p \in Patches, SavePatch(p)
  PROVE  WriteInv'
<1>1. /\ p \in Requests /\ pc[p] = "save" /\ what[p] \in Message
      /\ report \in Report /\ copy[p] \in Report
      /\ report' = Saved(report, copy[p], what[p], p)
      /\ copy[p].vehicle = report.vehicle /\ written = report.vehicle
  BY DEF WriteInv, TypeOK, StoredOK, RequestsOK, RequestOK, SavePatch, Requests
<1>2. report'.vehicle = IF what[p].field \in Leaf
                          THEN [report.vehicle EXCEPT ![what[p].party][what[p].field] = p]
                          ELSE report.vehicle
  BY <1>1, SavedVehicle
<1>3. report'.vehicle = written'
  BY <1>1, <1>2 DEF SavePatch
<1>4. /\ pc'[p] # "save"
      /\ \A q \in Patches \ {p} : pc'[q] = pc[q]
  BY <1>1, OverMoves, GotoMoves DEF SavePatch, Done, Requests
<1>5. \A q \in Patches : pc'[q] # "save"
  <2> SUFFICES ASSUME NEW q \in Patches, pc'[q] = "save" PROVE FALSE
    OBVIOUS
  <2>1. q # p /\ pc[q] = "save"
    BY <1>4
  <2>2. queue[1] = q /\ queue[1] = p
    BY <1>1, <2>1 DEF ChainInv, Holding
  <2> QED
    BY <2>1, <2>2
<1> QED
  BY <1>3, <1>5 DEF WriteInv

LEMMA UploadWrites ==
  ASSUME WriteInv, TypeOK, NEW u \in Uploads,
         GuardUpload(u) \/ ReceiveBody(u) \/ SaveSignature(u) \/ LoadSession(u)
  PROVE  WriteInv'
<1>1. u \in Requests /\ u \notin Patches /\ report \in Report
  BY DEF Requests, TypeOK, StoredOK
<1>2. UNCHANGED written /\ report'.vehicle = report.vehicle
  <2>1. CASE SaveSignature(u)
    <3>1. what[u] \in Party
      BY <1>1, <2>1 DEF TypeOK, RequestsOK, RequestOK, SaveSignature
    <3>2. [report EXCEPT !.signature[what[u]] = u, !.v = @ + 1].vehicle = report.vehicle
      BY ZenonT(30), <1>1, <3>1, SignReport
    <3>3. \/ report' = report
          \/ report' = [report EXCEPT !.signature[what[u]] = u, !.v = @ + 1]
      BY <2>1 DEF SaveSignature
    <3>4. UNCHANGED written
      BY <2>1 DEF SaveSignature
    <3> QED
      BY <3>2, <3>3, <3>4
  <2>2. CASE GuardUpload(u) \/ ReceiveBody(u) \/ LoadSession(u)
    BY <2>2 DEF GuardUpload, ReceiveBody, LoadSession
  <2> QED
    BY <2>1, <2>2
<1>3. \A p \in Patches : pc'[p] = pc[p] /\ copy'[p] = copy[p]
  BY <1>1 DEF GuardUpload, ReceiveBody, SaveSignature, LoadSession, Done, Over, Goto,
              TypeOK, RequestsOK, Requests
<1> QED
  BY <1>2, <1>3, ReadingKeeps

LEMMA LockWrites ==
  ASSUME WriteInv, TypeOK, NEW r \in Requests,
         LockReport(r) \/ LockSession(r) \/ CallRejects(r)
  PROVE  WriteInv'
<1>1. UNCHANGED written /\ report'.vehicle = report.vehicle
  <2>1. report \in Report
    BY DEF TypeOK, StoredOK
  <2> QED
    BY <2>1, ReplaceStatus DEF LockReport, LockSession, CallRejects
<1>2. Over(r) \/ Goto(r, "lockSession", copy[r])
  BY DEF LockReport, LockSession, CallRejects, Done
<1> QED
  BY <1>1, <1>2, OverReads, GotoReads

LEMMA NextWrites == WriteInv /\ ChainInv /\ TypeOK /\ [Next]_vars => WriteInv'
<1> SUFFICES ASSUME WriteInv, ChainInv, TypeOK, [Next]_vars PROVE WriteInv'
  OBVIOUS
<1>1. CASE \E p \in Patches : ReceivePatch(p) \/ LoadReport(p) \/ SavePatch(p)
  BY <1>1, ReceivePatchWrites, LoadReportWrites, SavePatchWrites
<1>2. CASE \E u \in Uploads : GuardUpload(u) \/ ReceiveBody(u) \/ SaveSignature(u) \/ LoadSession(u)
  BY <1>2, UploadWrites
<1>3. CASE \E r \in Requests : LockReport(r) \/ LockSession(r) \/ CallRejects(r)
  BY <1>3, LockWrites
<1>4. CASE Crash
  <2>1. \A p \in Patches : pc'[p] # "save"
    BY <1>4 DEF Crash, Requests
  <2> QED
    BY <1>4, <2>1, ReadingKeeps DEF Crash
<1>5. CASE UNCHANGED vars
  BY <1>5, ReadingKeeps DEF vars, requests
<1> QED
  BY <1>1, <1>2, <1>3, <1>4, <1>5 DEF Next

LEMMA InitWrites == Init => WriteInv
  BY DEF Init, WriteInv, Requests

(* No patch that was saved is undone by the save of another one, though a  *)
(* save may send the whole subdocument of the copy it was made on.         *)
THEOREM LastWriteStaysPut == Spec => []LastWriteStands
<1>1. Init => TypeOK /\ ChainInv /\ WriteInv
  BY InitTypes, InitChain, InitWrites
<1>2. (TypeOK /\ ChainInv /\ WriteInv) /\ [Next]_vars => (TypeOK /\ ChainInv /\ WriteInv)'
  BY NextTypes, NextChain, NextWrites
<1>3. WriteInv => LastWriteStands
  BY DEF WriteInv, LastWriteStands
<1> QED
  BY <1>1, <1>2, <1>3, PTL DEF Spec

-----------------------------------------------------------------------------
(* Completing.  As long as nothing failed and no two sign-offs overlapped,  *)
(* a copy that is about to be signed off shows the stored sign-offs ...     *)
SameSignOffs(c, r) == c.confirmedReview = r.confirmedReview /\ c.signature = r.signature

Unhindered == ~stale /\ faults = 0 /\ crashes = 0

(* ... and whoever completed the pair is on its way to the lock.            *)
AboutToLock(r) == (pc[r] = "session" /\ ToLock(copy[r])) \/ pc[r] = "lockReport"

CompleteInv ==
  /\ faults \in Nat /\ crashes \in Nat
  /\ \A r \in Requests : pc[r] \in {"body", "save", "session"} => copy[r].status = "waiting"
  /\ Unhindered => /\ \A r \in Requests : HoldsCopy(r) => SameSignOffs(copy[r], report)
                   /\ bothPartiesSignedOff(report) /\ ~Locked(report.status)
                        => \E r \in Requests : AboutToLock(r)

LEMMA SameSigned ==
  ASSUME NEW c, NEW r, SameSignOffs(c, r)
  PROVE  bothPartiesSignedOff(c) <=> bothPartiesSignedOff(r)
  BY DEF SameSignOffs, bothPartiesSignedOff, partySignedOff

LEMMA WaitingIsOpen ==
  ASSUME NEW r \in Report
  PROVE  Locked(r.status) <=> r.status # "waiting"
  BY DEF Report, Locked, LOCKED_STATUSES

(* A step of request r that leaves the report alone. *)
LEMMA ReadingCompletes ==
  ASSUME CompleteInv, NEW r \in Requests, UNCHANGED <<report, stale, bounds>>,
         \A d \in Requests \ {r} : pc'[d] = pc[d] /\ copy'[d] = copy[d] /\ what'[d] = what[d],
         AboutToLock(r) => AboutToLock(r)',
         pc'[r] \in {"body", "save", "session"} => copy'[r].status = "waiting",
         Unhindered /\ HoldsCopy(r)' => SameSignOffs(copy'[r], report)
  PROVE  CompleteInv'
<1>1. Unhindered' <=> Unhindered
  BY DEF Unhindered, bounds
<1>2. \A d \in Requests \ {r} : /\ HoldsCopy(d)' => HoldsCopy(d)
                                /\ AboutToLock(d) => AboutToLock(d)'
  BY DEF HoldsCopy, SignsOff, AboutToLock
<1>3. Unhindered => \A d \in Requests : HoldsCopy(d)' => SameSignOffs(copy'[d], report')
  BY <1>2 DEF CompleteInv
<1>4. \A d \in Requests : AboutToLock(d) => AboutToLock(d)'
  BY <1>2
<1>5. \A d \in Requests : pc'[d] \in {"body", "save", "session"} => copy'[d].status = "waiting"
  BY DEF CompleteInv
<1> QED
  BY <1>1, <1>3, <1>4, <1>5 DEF CompleteInv, bounds, SameSignOffs, bothPartiesSignedOff, partySignedOff

LEMMA EndingCompletes ==
  ASSUME CompleteInv, TypeOK, NEW r \in Requests, Over(r), ~AboutToLock(r),
         UNCHANGED <<report, stale, bounds>>
  PROVE  CompleteInv'
<1>1. /\ pc'[r] = "done"
      /\ \A d \in Requests \ {r} : pc'[d] = pc[d] /\ copy'[d] = copy[d] /\ what'[d] = what[d]
  BY DEF TypeOK, RequestsOK, Over
<1>2. ~HoldsCopy(r)'
  BY <1>1 DEF HoldsCopy
<1> QED
  BY <1>1, <1>2, ReadingCompletes

LEMMA GoingOnCompletes ==
  ASSUME TypeOK, NEW r \in Requests, NEW s, NEW c, Goto(r, s, c)
  PROVE  /\ pc'[r] = s /\ copy'[r] = c
         /\ \A d \in Requests \ {r} : pc'[d] = pc[d] /\ copy'[d] = copy[d] /\ what'[d] = what[d]
         /\ what' = what
  BY DEF TypeOK, RequestsOK, Goto

(* The steps before a save, the lock's last one, and the session's load.    *)
LEMMA BeforeSaveCompletes ==
  ASSUME CompleteInv, TypeOK, NEW r \in Requests,
         \/ r \in Patches /\ (ReceivePatch(r) \/ LoadReport(r))
         \/ r \in Uploads /\ (GuardUpload(r) \/ ReceiveBody(r) \/ LoadSession(r))
         \/ LockSession(r)
  PROVE  CompleteInv'
<1>1. UNCHANGED <<report, stale, bounds>>
  BY DEF ReceivePatch, LoadReport, GuardUpload, ReceiveBody, LoadSession, LockSession
<1>2. CASE Over(r)
  <2>1. ~AboutToLock(r)
    <3>1. CASE pc[r] \in {"new", "load", "body", "lockSession"}
      BY <3>1 DEF AboutToLock
    <3>2. CASE LoadSession(r)
      <4>1. pc[r] = "session" /\ pc'[r] = "done"
        BY <1>2, <3>2 DEF LoadSession, Over, TypeOK, RequestsOK
      <4>2. ~ToLock(copy[r])
        BY <3>2, <4>1 DEF LoadSession, TypeOK, RequestsOK
      <4> QED
        BY <4>1, <4>2 DEF AboutToLock
    <3> QED
      BY <3>1, <3>2 DEF ReceivePatch, LoadReport, GuardUpload, ReceiveBody, LockSession
  <2> QED
    BY <1>1, <1>2, <2>1, EndingCompletes
<1>3. CASE ~Over(r)
  <2>1. CASE r \in Patches /\ ReceivePatch(r)
    <3>1. PICK m \in Message : what' = [what EXCEPT ![r] = m]
      BY <1>3, <2>1 DEF ReceivePatch, Done
    <3>2. /\ pc'[r] = "load" /\ pc[r] = "new"
          /\ \A d \in Requests \ {r} : pc'[d] = pc[d] /\ copy'[d] = copy[d] /\ what'[d] = what[d]
      BY <1>3, <2>1, <3>1 DEF ReceivePatch, Done, TypeOK, RequestsOK
    <3> QED
      BY <1>1, <3>2, ReadingCompletes DEF AboutToLock, HoldsCopy
  <2>2. CASE r \in Patches /\ LoadReport(r)
    <3>1. Goto(r, "save", report) /\ pc[r] = "load" /\ ~Locked(report.status)
      BY <1>3, <2>2 DEF LoadReport, Done
    <3>2. report.status = "waiting"
      BY <3>1, WaitingIsOpen DEF TypeOK, StoredOK
    <3> QED
      BY <1>1, <3>1, <3>2, GoingOnCompletes, ReadingCompletes DEF AboutToLock, SameSignOffs
  <2>3. CASE r \in Uploads /\ GuardUpload(r)
    <3>1. PICK q \in Party : what' = [what EXCEPT ![r] = q]
      BY <1>3, <2>3 DEF GuardUpload, Done
    <3>2. /\ pc'[r] = "body" /\ pc[r] = "new" /\ copy'[r] = report /\ ~Locked(report.status)
          /\ \A d \in Requests \ {r} : pc'[d] = pc[d] /\ copy'[d] = copy[d] /\ what'[d] = what[d]
      BY <1>3, <2>3, <3>1 DEF GuardUpload, Done, TypeOK, RequestsOK
    <3>3. report.status = "waiting"
      BY <3>2, WaitingIsOpen DEF TypeOK, StoredOK
    <3> QED
      BY <1>1, <3>2, <3>3, ReadingCompletes DEF AboutToLock, SameSignOffs
  <2>4. CASE r \in Uploads /\ ReceiveBody(r)
    <3>1. Goto(r, "save", copy[r]) /\ pc[r] = "body"
      BY <1>3, <2>4 DEF ReceiveBody, Done
    <3>2. HoldsCopy(r) /\ copy[r].status = "waiting"
      BY <2>4, <3>1 DEF HoldsCopy, SignsOff, CompleteInv
    <3> QED
      BY <1>1, <3>1, <3>2, GoingOnCompletes, ReadingCompletes DEF AboutToLock, CompleteInv
  <2>5. CASE r \in Uploads /\ LoadSession(r)
    <3>1. /\ pc'[r] = "lockReport"
          /\ \A d \in Requests \ {r} : pc'[d] = pc[d] /\ copy'[d] = copy[d] /\ what'[d] = what[d]
      BY <1>3, <2>5 DEF LoadSession, Done, TypeOK, RequestsOK
    <3> QED
      BY <1>1, <3>1, ReadingCompletes DEF AboutToLock, HoldsCopy
  <2> QED
    BY <1>3, <2>1, <2>2, <2>3, <2>4, <2>5 DEF LockSession, Done
<1> QED
  BY <1>2, <1>3

(* What a save changes of the sign-offs. *)
LEMMA SavedSignOffs ==
  ASSUME NEW st \in Report, NEW ld \in Report, NEW m \in Message, NEW p \in Patches
  PROVE  /\ m.field # "confirmedReview" => SameSignOffs(Saved(st, ld, m, p), st)
         /\ m.field = "confirmedReview" /\ SameSignOffs(ld, st) =>
              SameSignOffs(Set(ld, m, p), Saved(st, ld, m, p))
<1>1. m.field \in Leaf \cup {"confirmedReview", "accident"}
  BY DEF Message
<1>2. CASE m.field = "confirmedReview"
  <2>1. /\ Saved(st, ld, m, p) = [st EXCEPT !.confirmedReview[m.party] = TRUE]
        /\ Set(ld, m, p) = [ld EXCEPT !.confirmedReview[m.party] = TRUE]
    BY <1>2 DEF Saved, Set, Leaf
  <2>2. /\ Saved(st, ld, m, p).confirmedReview = [st.confirmedReview EXCEPT ![m.party] = TRUE]
        /\ Set(ld, m, p).confirmedReview = [ld.confirmedReview EXCEPT ![m.party] = TRUE]
        /\ Saved(st, ld, m, p).signature = st.signature /\ Set(ld, m, p).signature = ld.signature
    BY <2>1 DEF Report
  <2> QED
    BY <1>2, <2>2 DEF SameSignOffs
<1>3. CASE m.field # "confirmedReview"
  <2>1. SameSignOffs(Set(st, m, p), st)
    BY <1>1, <1>3 DEF SameSignOffs, Set, Report
  <2>2. \A x : SameSignOffs([st EXCEPT !.vehicle = x], st)
    BY DEF SameSignOffs, Report
  <2>3. \A x : [st EXCEPT !.vehicle[m.party] = x] = [st EXCEPT !.vehicle = [st.vehicle EXCEPT ![m.party] = x]]
    BY DEF Report
  <2> QED
    BY <1>3, <2>1, <2>2, <2>3 DEF Saved
<1> QED
  BY <1>2, <1>3

(* A save of request r: the copies of the others stay true if it signs      *)
(* nothing off, and nobody holds one otherwise.                             *)
LEMMA SavingCompletes ==
  ASSUME CompleteInv, TypeOK, TypeOK', NEW r \in Requests, pc[r] = "save", NoteSignOff(r), UNCHANGED bounds,
         report'.status = report.status,
         \A d \in Requests \ {r} : pc'[d] = pc[d] /\ copy'[d] = copy[d] /\ what'[d] = what[d],
         ~HoldsCopy(r)', pc'[r] = "session" => copy'[r].status = "waiting", pc'[r] \notin {"body", "save"},
         ~SignsOff(r) => SameSignOffs(report', report),
         SignsOff(r) /\ Unhindered /\ bothPartiesSignedOff(report') => AboutToLock(r)'
  PROVE  CompleteInv'
<1>1. Unhindered' => Unhindered /\ (SignsOff(r) => \A q \in Requests \ {r} : ~HoldsCopy(q))
  BY DEF Unhindered, NoteSignOff, bounds, TypeOK, StoredOK
<1>2. \A d \in Requests \ {r} : /\ HoldsCopy(d)' => HoldsCopy(d)
                                /\ AboutToLock(d) => AboutToLock(d)'
  BY DEF HoldsCopy, SignsOff, AboutToLock
<1>3. \A d \in Requests : AboutToLock(d) => d # r
  BY DEF AboutToLock
<1>4. ASSUME Unhindered', NEW d \in Requests, HoldsCopy(d)'
      PROVE  SameSignOffs(copy'[d], report')
  <2>1. d # r /\ HoldsCopy(d) /\ ~SignsOff(r)
    BY <1>1, <1>2, <1>4
  <2> QED
    BY <1>1, <1>4, <2>1 DEF CompleteInv, SameSignOffs
<1>5. ASSUME Unhindered', bothPartiesSignedOff(report'), ~Locked(report'.status)
      PROVE  \E d \in Requests : AboutToLock(d)'
  <2>1. CASE SignsOff(r)
    BY <1>1, <1>5, <2>1
  <2>2. CASE ~SignsOff(r)
    <3>1. bothPartiesSignedOff(report)
      BY <1>5, <2>2, SameSigned
    <3>2. PICK d \in Requests : AboutToLock(d)
      BY <1>1, <1>5, <3>1 DEF CompleteInv
    <3> QED
      BY <1>2, <1>3, <3>2
  <2> QED
    BY <2>1, <2>2
<1>6. \A d \in Requests : pc'[d] \in {"body", "save", "session"} => copy'[d].status = "waiting"
  BY DEF CompleteInv
<1> QED
  BY <1>4, <1>5, <1>6 DEF CompleteInv, bounds, SameSignOffs, bothPartiesSignedOff, partySignedOff

LEMMA SavePatchCompletes ==
  ASSUME CompleteInv, TypeOK, TypeOK', NEW p \in Patches, SavePatch(p)
  PROVE  CompleteInv'
<1> DEFINE patched == Set(copy[p], what[p], p)
<1>1. /\ p \in Requests /\ pc[p] = "save" /\ what[p] \in Message
      /\ copy[p] \in Report /\ report \in Report /\ p \notin Uploads
      /\ copy[p].status = "waiting"
  BY DEF SavePatch, CompleteInv, TypeOK, StoredOK, RequestsOK, RequestOK, Requests
<1>2. /\ NoteSignOff(p) /\ UNCHANGED bounds /\ report' = Saved(report, copy[p], what[p], p)
  BY DEF SavePatch
<1>3. patched \in Report /\ patched.status = "waiting"
  BY ZenonT(30), <1>1, SetReport
<1>4. /\ pc'[p] = IF ToLock(patched) THEN "lockReport" ELSE "done"
      /\ \A d \in Requests \ {p} : pc'[d] = pc[d] /\ copy'[d] = copy[d] /\ what'[d] = what[d]
  BY <1>1, GoingOnCompletes DEF SavePatch, Done, Over, TypeOK, RequestsOK
<1>5. SignsOff(p) <=> what[p].field = "confirmedReview"
  BY <1>1 DEF SignsOff
<1>6. ~SignsOff(p) => SameSignOffs(report', report)
  BY <1>1, <1>2, <1>5, SavedSignOffs
<1>7. ASSUME SignsOff(p), Unhindered, bothPartiesSignedOff(report')
      PROVE  AboutToLock(p)'
  <2>1. SameSignOffs(copy[p], report)
    BY <1>1, <1>7 DEF HoldsCopy, CompleteInv
  <2>2. SameSignOffs(patched, report')
    BY <1>1, <1>2, <1>5, <1>7, <2>1, SavedSignOffs
  <2>3. ToLock(patched)
    BY <1>3, <1>7, <2>2, SameSigned, WaitingIsOpen DEF ToLock
  <2> QED
    BY <1>4, <2>3 DEF AboutToLock
<1>8. ~HoldsCopy(p)'
  BY <1>4 DEF HoldsCopy
<1>9. report'.status = report.status
  <2>1. report' \in Report
    BY DEF TypeOK, StoredOK
  <2> QED
    BY <1>1, <1>2, <2>1, PatchStatus
<1> QED
  BY <1>1, <1>2, <1>4, <1>6, <1>7, <1>8, <1>9, SavingCompletes

LEMMA SaveSignatureCompletes ==
  ASSUME CompleteInv, TypeOK, TypeOK', NEW u \in Uploads, SaveSignature(u)
  PROVE  CompleteInv'
<1>1. /\ u \in Requests /\ pc[u] = "save" /\ what[u] \in Party
      /\ copy[u] \in Report /\ report \in Report /\ u \notin Patches
      /\ copy[u].status = "waiting" /\ SignsOff(u) /\ UNCHANGED bounds
  BY DEF SaveSignature, CompleteInv, TypeOK, StoredOK, RequestsOK, RequestOK, Requests, SignsOff
<1>2. CASE Done(u) /\ UNCHANGED <<report, stale>>
  BY <1>1, <1>2, EndingCompletes DEF Done, AboutToLock
<1>3. CASE /\ report' = [report EXCEPT !.signature[what[u]] = u, !.v = @ + 1]
           /\ NoteSignOff(u)
           /\ Goto(u, "session", [copy[u] EXCEPT !.signature[what[u]] = u, !.v = @ + 1])
  <2> DEFINE signed == [copy[u] EXCEPT !.signature[what[u]] = u, !.v = @ + 1]
  <2>1. /\ pc'[u] = "session" /\ copy'[u] = signed
        /\ \A d \in Requests \ {u} : pc'[d] = pc[d] /\ copy'[d] = copy[d] /\ what'[d] = what[d]
    BY <1>1, <1>3, GoingOnCompletes
  <2>2. /\ signed \in Report /\ signed.status = "waiting"
        /\ signed.confirmedReview = copy[u].confirmedReview
        /\ signed.signature = [copy[u].signature EXCEPT ![what[u]] = u]
        /\ report'.status = report.status
        /\ report'.confirmedReview = report.confirmedReview
        /\ report'.signature = [report.signature EXCEPT ![what[u]] = u]
    <3>1. signed \in Report
      BY <1>1, SignReport
    <3>2. /\ signed.status = copy[u].status
          /\ signed.confirmedReview = copy[u].confirmedReview
          /\ signed.signature = [copy[u].signature EXCEPT ![what[u]] = u]
      BY <1>1 DEF Report
    <3>3. /\ report'.status = report.status
          /\ report'.confirmedReview = report.confirmedReview
          /\ report'.signature = [report.signature EXCEPT ![what[u]] = u]
      BY <1>1, <1>3 DEF Report
    <3> QED
      BY <1>1, <3>1, <3>2, <3>3
  <2>3. ASSUME Unhindered, bothPartiesSignedOff(report')
        PROVE  AboutToLock(u)'
    <3>1. SameSignOffs(copy[u], report)
      BY <1>1, <2>3 DEF HoldsCopy, CompleteInv
    <3>2. SameSignOffs(signed, report')
      BY <2>2, <3>1 DEF SameSignOffs
    <3>3. ToLock(signed)
      BY <2>2, <2>3, <3>2, SameSigned, WaitingIsOpen DEF ToLock
    <3> QED
      BY <2>1, <3>3 DEF AboutToLock, ToLock, bothPartiesSignedOff, partySignedOff, Locked
  <2>4. ~HoldsCopy(u)'
    BY <2>1 DEF HoldsCopy
  <2> QED
    BY <1>1, <1>3, <2>1, <2>2, <2>3, <2>4, SavingCompletes
<1> QED
  BY <1>2, <1>3 DEF SaveSignature

LEMMA LockReportCompletes ==
  ASSUME CompleteInv, TypeOK, NEW r \in Requests, LockReport(r)
  PROVE  CompleteInv'
<1>1. /\ pc'[r] \in {"done", "lockSession"}
      /\ \A d \in Requests \ {r} : pc'[d] = pc[d] /\ copy'[d] = copy[d] /\ what'[d] = what[d]
  BY GoingOnCompletes DEF LockReport, Done, Over, TypeOK, RequestsOK
<1>2. /\ report' = [report EXCEPT !.status = "signing"] /\ report \in Report
      /\ UNCHANGED <<stale, bounds>>
  BY DEF LockReport, TypeOK, StoredOK
<1>3. SameSignOffs(report', report) /\ Locked(report'.status)
  BY <1>2 DEF SameSignOffs, Report, Locked, LOCKED_STATUSES
<1>4. Unhindered' => \A d \in Requests : HoldsCopy(d)' => SameSignOffs(copy'[d], report')
  BY <1>1, <1>2, <1>3 DEF CompleteInv, HoldsCopy, SignsOff, SameSignOffs, Unhindered, bounds
<1>5. \A d \in Requests : pc'[d] \in {"body", "save", "session"} => copy'[d].status = "waiting"
  BY <1>1 DEF CompleteInv
<1> QED
  BY <1>2, <1>3, <1>4, <1>5 DEF CompleteInv, bounds, SameSignOffs

(* After a rejected call or a restart nothing is claimed any more. *)
LEMMA FailureCompletes ==
  ASSUME CompleteInv, TypeOK, Crash \/ \E r \in Requests : CallRejects(r)
  PROVE  CompleteInv'
<1>1. faults' \in Nat /\ crashes' \in Nat /\ ~Unhindered'
  BY DEF Crash, CallRejects, CompleteInv, Unhindered
<1>2. \A d \in Requests : pc'[d] = "done" \/ pc'[d] = "new" \/ (pc'[d] = pc[d] /\ copy'[d] = copy[d])
  BY DEF Crash, CallRejects, Done, Over, TypeOK, RequestsOK
<1> QED
  BY <1>1, <1>2 DEF CompleteInv, Unhindered

LEMMA InitCompletes == Init => CompleteInv
  BY DEF Init, CompleteInv, HoldsCopy, bothPartiesSignedOff, partySignedOff, Party

LEMMA NextCompletes == CompleteInv /\ TypeOK /\ TypeOK' /\ [Next]_vars => CompleteInv'
<1> SUFFICES ASSUME CompleteInv, TypeOK, TypeOK', [Next]_vars PROVE CompleteInv'
  OBVIOUS
<1>1. CASE \E p \in Patches : ReceivePatch(p) \/ LoadReport(p) \/ SavePatch(p)
  BY <1>1, BeforeSaveCompletes, SavePatchCompletes DEF Requests
<1>2. CASE \E u \in Uploads : GuardUpload(u) \/ ReceiveBody(u) \/ SaveSignature(u) \/ LoadSession(u)
  BY <1>2, BeforeSaveCompletes, SaveSignatureCompletes DEF Requests
<1>3. CASE \E r \in Requests : LockReport(r) \/ LockSession(r) \/ CallRejects(r)
  BY <1>3, BeforeSaveCompletes, LockReportCompletes, FailureCompletes
<1>4. CASE Crash
  BY <1>4, FailureCompletes
<1>5. CASE UNCHANGED vars
  <2>1. UNCHANGED <<report, pc, copy, what, stale, faults, crashes>>
    BY <1>5 DEF vars, requests, bounds
  <2> QED
    BY <2>1 DEF CompleteInv, Unhindered, HoldsCopy, SignsOff, SameSignOffs, AboutToLock, ToLock,
       bothPartiesSignedOff, partySignedOff, Locked
<1> QED
  BY <1>1, <1>2, <1>3, <1>4, <1>5 DEF Next

(* CompletingWriteLocks: the sign-off that completes the pair, by patch or  *)
(* by signature, locks the report, unless two sign-offs overlapped, a call  *)
(* failed or the process restarted.                                         *)
THEOREM LastSignOffLocks == Spec => []CompletingWriteLocks
<1>1. CompleteInv => CompletingWriteLocks
  <2> SUFFICES ASSUME CompleteInv, Quiet, bothPartiesSignedOff(report), Unhindered
               PROVE  Locked(report.status)
    BY DEF CompletingWriteLocks, Unhindered
  <2>1. \A r \in Requests : ~AboutToLock(r)
    BY DEF Quiet, AboutToLock
  <2> QED
    BY <2>1 DEF CompleteInv
<1>2. Init => TypeOK /\ CompleteInv
  BY InitTypes, InitCompletes
<1>3. (TypeOK /\ CompleteInv) /\ [Next]_vars => (TypeOK /\ CompleteInv)'
  BY NextTypes, NextCompletes
<1> QED
  BY <1>1, <1>2, <1>3, PTL DEF Spec

=============================================================================
