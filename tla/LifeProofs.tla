----------------------------- MODULE LifeProofs -----------------------------
(***************************************************************************)
(* For any number of callers and late uploads, of runs of maybeLockReport, *)
(* of faults and of restarts, the finalize pipeline implements the life    *)
(* cycle of module SealedReport, provided that no run of maybeLockReport   *)
(* saves its lock once an attempt has: such a late save sets a report that *)
(* is being finalized, or sealed, back to "signing".                       *)
(***************************************************************************)
EXTENDS FinalizeProofs

(* Whoever saves the lock finds the report open, or locked by another run.  *)
OnTime == \A l \in Lockers : LockReport(l) => report.status \in {"waiting", "signing"}

LocksOnTime == [][OnTime]_vars

(* Hashes are stored once, after the lock, with their PDF in GridFS; the    *)
(* contract holds nothing else.                                            *)
HashedOnce == /\ report.status \in {"waiting", "signing"} => report.payload = NoPayload
              /\ report.payload # NoPayload => report.payload.pdf \in files
              /\ record \in {NoPayload, report.payload}

SealIsWhole == report.status = "sealed" => report.anchored

(* Only the first attempts, before the hashes are stored, run the whole    *)
(* pipeline; what comes after the seal, and every answer that says so,     *)
(* finds the report sealed.                                                *)
LifeOK(c) ==
  /\ report.status = "waiting" => pc[c] \in {"idle", "load"}
  /\ pc[c] \in {"lock", "pdf", "store", "bundle"} => report.payload = NoPayload
  /\ pc[c] = "lock" => doc[c].status = report.status
  /\ pc[c] \in {"pdf", "store", "bundle"} => report.status = "finalizing"
  /\ pc[c] = "bundle" => draft[c] \in files
  /\ pc[c] \in {"loadSession", "sealSession"} => report.status = "sealed"
  /\ answer[c] = "sealed" => report.status = "sealed"

LifeRest == /\ HashedOnce
            /\ SealIsWhole
            /\ AnchoredIsStored
            /\ \A c \in Callers : LifeOK(c)

LifeInv == SealInv /\ LifeRest

LifeStep == [Life!Next]_(Life!life)

-----------------------------------------------------------------------------
(* A step of one attempt leaves the other callers alone.                    *)
LEMMA OthersStay ==
  ASSUME LifeInv, NEW c \in Callers, Running(c),
         \/ \E s \in PipelineSteps : Goto(c, s)
         \/ \E a \in Answers : Finish(c, a),
         report.status = "sealed" => report'.status = "sealed"
  PROVE  \A d \in Callers \ {c} : LifeOK(d)'
<1> SUFFICES ASSUME NEW d \in Callers \ {c} PROVE LifeOK(d)'
  OBVIOUS
<1>1. pc[d] = "idle" /\ (answer[d] = "sealed" => report.status = "sealed")
  BY DEF LifeInv, LifeRest, LifeOK, SealInv, TypeOK, RequestsOK, OneAttempt, Running
<1>2. pc'[d] = "idle" /\ answer'[d] = answer[d]
  BY <1>1 DEF LifeInv, SealInv, TypeOK, RequestsOK, Goto, Finish
<1> QED
  BY <1>1, <1>2 DEF LifeOK

(* A caller whose attempt moves on has the answer it had, one whose attempt *)
(* ends has a new one.                                                      *)
LEMMA Moved ==
  ASSUME LifeInv, NEW c \in Callers, NEW s, Goto(c, s)
  PROVE  pc'[c] = s /\ answer'[c] = answer[c]
  BY DEF LifeInv, SealInv, TypeOK, RequestsOK, Goto

LEMMA Ended ==
  ASSUME LifeInv, NEW c \in Callers, NEW a, Finish(c, a)
  PROVE  pc'[c] = "idle" /\ answer'[c] = a
  BY DEF LifeInv, SealInv, TypeOK, RequestsOK, Finish

(* Nor does a step disturb what it does not write.                          *)
LEMMA ReportStays ==
  ASSUME LifeInv, UNCHANGED <<report, files, blockchain>>
  PROVE  HashedOnce' /\ SealIsWhole' /\ AnchoredIsStored' /\ LifeStep
  BY DEF LifeInv, LifeRest, HashedOnce, SealIsWhole, AnchoredIsStored, blockchain, LifeStep, Life!life

(* While no hashes are stored, none have been sent.                         *)
LEMMA NothingSent ==
  ASSUME LifeInv, report.payload = NoPayload
  PROVE  txs = <<>> /\ record = NoPayload
<1>1. txs \in Seq(Tx)
  BY DEF LifeInv, SealInv, TypeOK, StoredOK
<1>2. ASSUME NEW i \in 1..Len(txs) PROVE FALSE
  <2>1. txs[i].payload = NoPayload /\ txs[i] \in Tx
    BY <1>1 DEF LifeInv, LifeRest, AnchoredIsStored
  <2> QED
    BY <2>1 DEF Tx, Payload, NoPayload
<1>3. Len(txs) = 0
  BY <1>1, <1>2
<1> QED
  BY <1>1, <1>3 DEF LifeInv, LifeRest, HashedOnce

-----------------------------------------------------------------------------
LEMMA InitLife == Init => LifeInv /\ Life!Init
<1> SUFFICES ASSUME Init PROVE LifeInv /\ Life!Init
  OBVIOUS
<1>1. HashedOnce /\ SealIsWhole /\ AnchoredIsStored
  BY DEF Init, Unlocked, HashedOnce, SealIsWhole, AnchoredIsStored
<1>2. \A c \in Callers : LifeOK(c)
  BY DEF Init, Unlocked, LifeOK
<1>3. Life!Init
  BY DEF Init, Unlocked, Life!Init
<1> QED
  BY <1>1, <1>2, <1>3, InitSeals DEF LifeInv, LifeRest

LEMMA CallLives ==
  ASSUME LifeInv, NEW c \in Callers, Call(c)
  PROVE  LifeRest' /\ LifeStep
<1>1. HashedOnce' /\ SealIsWhole' /\ AnchoredIsStored' /\ LifeStep
  BY ReportStays DEF Call
<1>2. \A d \in Callers : LifeOK(d)'
  BY DEF Call, LifeInv, LifeRest, LifeOK, SealInv, TypeOK, RequestsOK, memory
<1> QED
  BY <1>1, <1>2 DEF LifeRest

LEMMA LoadLives ==
  ASSUME LifeInv, NEW c \in Callers, Load(c)
  PROVE  LifeRest' /\ LifeStep
<1>1. Running(c)
  BY DEF Load, Running, PipelineSteps
<1>2. HashedOnce' /\ SealIsWhole' /\ AnchoredIsStored' /\ LifeStep
  BY ReportStays DEF Load
<1>3. CASE \/ report.status = "sealed" /\ Finish(c, "sealed")
           \/ Finish(c, "refused")
  <2>1. LifeOK(c)'
    BY <1>3, Ended DEF Load, LifeOK
  <2> QED
    BY <1>1, <1>2, <1>3, <2>1, OthersStay DEF Load, LifeRest, Answers
<1>4. CASE /\ report.status \in {"signing", "finalizing"}
           /\ IF IsAnchorRetry(report) THEN Goto(c, "anchor") ELSE Goto(c, "lock")
           /\ doc' = [doc EXCEPT ![c] = report]
  <2>1. doc'[c] = report /\ UNCHANGED report
    BY <1>4 DEF Load, LifeInv, SealInv, TypeOK, MemoryOK
  <2>2. CASE IsAnchorRetry(report) /\ Goto(c, "anchor")
    <3>1. LifeOK(c)'
      BY <1>4, <2>1, <2>2, Moved DEF LifeInv, LifeRest, LifeOK
    <3> QED
      BY <1>1, <1>2, <2>1, <2>2, <3>1, OthersStay DEF LifeRest, PipelineSteps
  <2>3. CASE ~IsAnchorRetry(report) /\ Goto(c, "lock")
    <3>1. report.payload = NoPayload
      BY <1>4, <2>3 DEF LifeInv, LifeRest, HashedOnce, IsAnchorRetry
    <3>2. LifeOK(c)'
      BY <1>4, <2>1, <2>3, <3>1, Moved DEF LifeInv, LifeRest, LifeOK
    <3> QED
      BY <1>1, <1>2, <2>1, <2>3, <3>2, OthersStay DEF LifeRest, PipelineSteps
  <2> QED
    BY <1>4, <2>2, <2>3
<1> QED
  BY <1>3, <1>4 DEF Load

(* Before the hashes are stored, a step that only writes other fields of    *)
(* the report, PDFs or the copies in memory keeps the life cycle where it   *)
(* is.                                                                      *)
LEMMA SaveLockLives ==
  ASSUME LifeInv, NEW c \in Callers, SaveLock(c)
  PROVE  LifeRest' /\ LifeStep
<1>1. Running(c) /\ pc[c] \in PipelineSteps \ {"load"}
  BY DEF SaveLock, Running, PipelineSteps
<1>2. /\ report'.status = "finalizing"
      /\ report'.payload = report.payload
      /\ report.payload = NoPayload
      /\ report.status # "sealed"
  BY DEF SaveLock, LifeInv, LifeRest, LifeOK, SealInv, TypeOK, StoredOK, Report, AttemptOK, BeforeSeal
<1>3. HashedOnce' /\ SealIsWhole' /\ AnchoredIsStored' /\ LifeStep
  BY <1>2 DEF SaveLock, LifeInv, LifeRest, HashedOnce, SealIsWhole, AnchoredIsStored, blockchain,
              LifeStep, Life!life
<1>4. LifeOK(c)'
  BY <1>2, Moved DEF SaveLock, LifeInv, LifeRest, LifeOK
<1> QED
  BY <1>1, <1>2, <1>3, <1>4, OthersStay DEF SaveLock, LifeRest, PipelineSteps

LEMMA GeneratePdfLives ==
  ASSUME LifeInv, NEW c \in Callers, GeneratePdf(c)
  PROVE  LifeRest' /\ LifeStep
<1>1. Running(c) /\ pc[c] \in PipelineSteps \ {"load"}
  BY DEF GeneratePdf, Running, PipelineSteps
<1>2. HashedOnce' /\ SealIsWhole' /\ AnchoredIsStored' /\ LifeStep
  BY ReportStays DEF GeneratePdf
<1>3. LifeOK(c)'
  BY Moved DEF GeneratePdf, LifeInv, LifeRest, LifeOK
<1> QED
  BY <1>1, <1>2, <1>3, OthersStay DEF GeneratePdf, LifeRest, PipelineSteps

LEMMA StorePdfLives ==
  ASSUME LifeInv, NEW c \in Callers, StorePdf(c)
  PROVE  LifeRest' /\ LifeStep
<1>1. Running(c) /\ pc[c] \in PipelineSteps \ {"load"}
  BY DEF StorePdf, Running, PipelineSteps
<1>2. HashedOnce' /\ SealIsWhole' /\ AnchoredIsStored' /\ LifeStep
  BY DEF StorePdf, LifeInv, LifeRest, HashedOnce, SealIsWhole, AnchoredIsStored, blockchain,
         LifeStep, Life!life
<1>3. LifeOK(c)'
  BY Moved DEF StorePdf, LifeInv, LifeRest, LifeOK, memory
<1> QED
  BY <1>1, <1>2, <1>3, OthersStay DEF StorePdf, LifeRest, PipelineSteps

(* Life!Store: nothing has been stored, so nothing has been sent.           *)
LEMMA SaveBundleLives ==
  ASSUME LifeInv, NEW c \in Callers, SaveBundle(c)
  PROVE  LifeRest' /\ LifeStep
<1> DEFINE payload == [pdf |-> draft[c], bundle |-> doc[c].attachments]
<1>1. Running(c) /\ pc[c] \in PipelineSteps \ {"load"}
  BY DEF SaveBundle, Running, PipelineSteps
<1>2. report \in Report /\ doc[c] \in Report
  BY DEF LifeInv, SealInv, TypeOK, StoredOK, MemoryOK
<1>3. payload \in Payload
  BY <1>2, ReportFields DEF LifeInv, SealInv, TypeOK, MemoryOK, AttemptOK, SaveBundle, Payload
<1>4. CASE Finish(c, "failed") /\ UNCHANGED report
  <2>1. HashedOnce' /\ SealIsWhole' /\ AnchoredIsStored' /\ LifeStep
    BY <1>4, ReportStays DEF SaveBundle
  <2>2. LifeOK(c)'
    BY <1>4, Ended DEF LifeInv, LifeRest, LifeOK
  <2> QED
    BY <1>1, <1>4, <2>1, <2>2, OthersStay DEF LifeRest, Answers
<1>5. CASE \E m \in Nat : /\ report' = [report EXCEPT !.payload = payload, !.v = m]
                          /\ Goto(c, "anchor")
  <2>1. /\ report'.payload = payload /\ payload # NoPayload
        /\ report'.status = report.status
        /\ report'.anchored = report.anchored
    BY <1>2, <1>3, <1>5 DEF Report, Payload, NoPayload
  <2>2. report.payload = NoPayload /\ report.status = "finalizing" /\ draft[c] \in files
    BY DEF SaveBundle, LifeInv, LifeRest, LifeOK
  <2>3. txs = <<>> /\ record = NoPayload
    BY <2>2, NothingSent
  <2>4. HashedOnce' /\ SealIsWhole' /\ AnchoredIsStored'
    BY <2>1, <2>2, <2>3 DEF SaveBundle, HashedOnce, SealIsWhole, AnchoredIsStored, blockchain
  <2>5. Life!Store
    BY <1>3, <2>1, <2>2 DEF SaveBundle, blockchain, Life!Store
  <2>6. LifeOK(c)'
    BY <1>5, <2>1, <2>2, Moved DEF LifeInv, LifeRest, LifeOK
  <2> QED
    BY <1>1, <1>5, <2>1, <2>2, <2>4, <2>5, <2>6, OthersStay
       DEF LifeRest, LifeStep, Life!Next, PipelineSteps
<1>6. report.v \in Nat /\ report.v + 1 \in Nat
  BY <1>2, ReportFields
<1> QED
  BY <1>4, <1>5, <1>6 DEF SaveBundle

LEMMA SendAnchorLives ==
  ASSUME LifeInv, NEW c \in Callers, SendAnchor(c)
  PROVE  LifeRest' /\ LifeStep
<1>1. Running(c) /\ pc[c] \in PipelineSteps \ {"load"}
  BY DEF SendAnchor, Running, PipelineSteps
<1>2. HashedOnce' /\ SealIsWhole' /\ LifeStep
  BY DEF SendAnchor, LifeInv, LifeRest, HashedOnce, SealIsWhole, LifeStep, Life!life
<1>3. AnchoredIsStored'
  <2> DEFINE sent == [payload |-> doc[c].payload, outcome |-> "pending"]
  <2>1. txs \in Seq(Tx)
    BY DEF LifeInv, SealInv, TypeOK, StoredOK
  <2>2. sent.payload = report.payload /\ report.payload.pdf \in files
    BY DEF SendAnchor, LifeInv, LifeRest, HashedOnce, SealInv, AttemptOK, Anchoring
  <2>3. CASE UNCHANGED txs
    BY <2>3 DEF SendAnchor, LifeInv, LifeRest, AnchoredIsStored
  <2>4. CASE txs' = Append(txs, sent)
    <3>1. sent \in Tx
      <4>1. doc[c].payload \in Payload
        BY ReportFields DEF LifeInv, SealInv, TypeOK, StoredOK, AttemptOK, Anchoring, SendAnchor
      <4> QED
        BY <4>1 DEF Tx
    <3> HIDE DEF sent
    <3>2. \A i \in 1..Len(txs') : (i \in 1..Len(txs) /\ txs'[i] = txs[i]) \/ txs'[i] = sent
      BY <2>1, <2>4, <3>1
    <3> QED
      BY <2>2, <3>2 DEF SendAnchor, LifeInv, LifeRest, AnchoredIsStored
  <2> QED
    BY <2>3, <2>4 DEF SendAnchor
<1>4. LifeOK(c)'
  BY Moved DEF SendAnchor, LifeInv, LifeRest, LifeOK
<1> QED
  BY <1>1, <1>2, <1>3, <1>4, OthersStay DEF SendAnchor, LifeRest, PipelineSteps

LEMMA ReceiptLives ==
  ASSUME LifeInv, NEW c \in Callers, Receipt(c)
  PROVE  LifeRest' /\ LifeStep
<1>1. Running(c) /\ pc[c] \in PipelineSteps \ {"load"}
  BY DEF Receipt, Running, PipelineSteps
<1>2. HashedOnce' /\ SealIsWhole' /\ AnchoredIsStored' /\ LifeStep
  BY ReportStays DEF Receipt
<1>3. LifeOK(c)'
  BY Moved DEF Receipt, LifeInv, LifeRest, LifeOK
<1> QED
  BY <1>1, <1>2, <1>3, OthersStay DEF Receipt, LifeRest, PipelineSteps

LEMMA SaveAnchorErrorLives ==
  ASSUME LifeInv, NEW c \in Callers, SaveAnchorError(c)
  PROVE  LifeRest' /\ LifeStep
<1>1. Running(c) /\ pc[c] \in PipelineSteps \ {"load"}
  BY DEF SaveAnchorError, Running, PipelineSteps
<1>2. /\ report'.status = report.status
      /\ report'.payload = report.payload
      /\ report'.anchored = report.anchored
  BY DEF SaveAnchorError, LifeInv, SealInv, TypeOK, StoredOK, Report
<1>3. HashedOnce' /\ SealIsWhole' /\ AnchoredIsStored' /\ LifeStep
  BY <1>2 DEF SaveAnchorError, LifeInv, LifeRest, HashedOnce, SealIsWhole, AnchoredIsStored, blockchain,
              LifeStep, Life!life
<1>4. LifeOK(c)'
  BY <1>2, Ended DEF SaveAnchorError, LifeInv, LifeRest, LifeOK
<1> QED
  BY <1>1, <1>2, <1>3, <1>4, OthersStay DEF SaveAnchorError, LifeRest, Answers

(* Life!Seal: the contract holds the hashes the report has.                 *)
LEMMA SaveSealedLives ==
  ASSUME LifeInv, NEW c \in Callers, SaveSealed(c)
  PROVE  LifeRest' /\ LifeStep
<1>1. Running(c) /\ pc[c] \in PipelineSteps \ {"load"}
  BY DEF SaveSealed, Running, PipelineSteps
<1>2. /\ report'.status = "sealed"
      /\ report'.payload = report.payload
      /\ report'.anchored
  BY DEF SaveSealed, LifeInv, SealInv, TypeOK, StoredOK, Report
<1>3. HashedOnce' /\ SealIsWhole' /\ AnchoredIsStored'
  BY <1>2 DEF SaveSealed, LifeInv, LifeRest, HashedOnce, SealIsWhole, AnchoredIsStored, blockchain
<1>4. Life!Seal
  <2>1. record # NoPayload /\ report.status # "sealed"
    BY DEF SaveSealed, LifeInv, SealInv, AttemptOK, Anchoring, BeforeSeal
  <2> QED
    BY <1>2, <2>1 DEF SaveSealed, blockchain, Life!Seal
<1>5. LifeOK(c)'
  BY <1>2, Moved DEF SaveSealed, LifeOK
<1> QED
  BY <1>1, <1>2, <1>3, <1>4, <1>5, OthersStay
     DEF SaveSealed, LifeRest, LifeStep, Life!Next, PipelineSteps

LEMMA LoadSessionLives ==
  ASSUME LifeInv, NEW c \in Callers, LoadSession(c)
  PROVE  LifeRest' /\ LifeStep
<1>1. Running(c) /\ pc[c] \in PipelineSteps \ {"load"}
  BY DEF LoadSession, Running, PipelineSteps
<1>2. HashedOnce' /\ SealIsWhole' /\ AnchoredIsStored' /\ LifeStep
  BY ReportStays DEF LoadSession
<1>3. LifeOK(c)'
  BY Moved, Ended DEF LoadSession, LifeInv, LifeRest, LifeOK
<1> QED
  BY <1>1, <1>2, <1>3, OthersStay DEF LoadSession, LifeRest, PipelineSteps, Answers

LEMMA SaveSessionLives ==
  ASSUME LifeInv, NEW c \in Callers, SaveSession(c)
  PROVE  LifeRest' /\ LifeStep
<1>1. Running(c) /\ pc[c] \in PipelineSteps \ {"load"}
  BY DEF SaveSession, Running, PipelineSteps
<1>2. HashedOnce' /\ SealIsWhole' /\ AnchoredIsStored' /\ LifeStep
  BY ReportStays DEF SaveSession
<1>3. LifeOK(c)'
  BY Ended DEF SaveSession, LifeInv, LifeRest, LifeOK
<1> QED
  BY <1>1, <1>2, <1>3, OthersStay DEF SaveSession, LifeRest, Answers

LEMMA CallRejectsLives ==
  ASSUME LifeInv, NEW c \in Callers, CallRejects(c)
  PROVE  LifeRest' /\ LifeStep
<1>1. HashedOnce' /\ SealIsWhole' /\ AnchoredIsStored' /\ LifeStep
  BY ReportStays DEF CallRejects
<1>2. LifeOK(c)'
  BY Moved, Ended DEF CallRejects, LifeInv, LifeRest, LifeOK
<1> QED
  BY <1>1, <1>2, OthersStay DEF CallRejects, LifeRest, PipelineSteps, Answers

-----------------------------------------------------------------------------
(* The steps that no attempt takes.                                         *)
LEMMA LoadSessionToLockLives ==
  ASSUME LifeInv, NEW l \in Lockers, LoadSessionToLock(l)
  PROVE  LifeRest' /\ LifeStep
<1>1. HashedOnce' /\ SealIsWhole' /\ AnchoredIsStored' /\ LifeStep
  BY ReportStays DEF LoadSessionToLock, server
<1>2. \A c \in Callers : LifeOK(c)'
  BY DEF LoadSessionToLock, LifeInv, LifeRest, LifeOK, server, caller, memory
<1> QED
  BY <1>1, <1>2 DEF LifeRest

(* A lock that is saved in time finds a report of which nothing is stored,   *)
(* and no attempt beyond the load of it, or one that loaded it locked.       *)
LEMMA LockReportLives ==
  ASSUME LifeInv, NEW l \in Lockers, LockReport(l), report.status \in {"waiting", "signing"}
  PROVE  LifeRest' /\ LifeStep
<1>1. report.payload = NoPayload
  BY DEF LifeInv, LifeRest, HashedOnce
<1>2. /\ report'.status = "signing"
      /\ report'.payload = report.payload
  BY DEF LockReport, LifeInv, SealInv, TypeOK, StoredOK, Report
<1>3. HashedOnce' /\ SealIsWhole' /\ AnchoredIsStored' /\ LifeStep
  BY <1>1, <1>2 DEF LockReport, LifeInv, LifeRest, HashedOnce, SealIsWhole, AnchoredIsStored,
                    blockchain, LifeStep, Life!life
<1>4. \A c \in Callers : LifeOK(c)'
  BY <1>1, <1>2 DEF LockReport, LifeInv, LifeRest, LifeOK, caller, memory
<1> QED
  BY <1>3, <1>4 DEF LifeRest

LEMMA LockSessionLives ==
  ASSUME LifeInv, NEW l \in Lockers, LockSession(l)
  PROVE  LifeRest' /\ LifeStep
<1>1. HashedOnce' /\ SealIsWhole' /\ AnchoredIsStored' /\ LifeStep
  BY ReportStays DEF LockSession
<1>2. \A c \in Callers : LifeOK(c)'
  BY DEF LockSession, LifeInv, LifeRest, LifeOK, caller, memory
<1> QED
  BY <1>1, <1>2 DEF LifeRest

LEMMA SaveUploadLives ==
  ASSUME LifeInv, NEW u \in Uploads, SaveUpload(u)
  PROVE  LifeRest' /\ LifeStep
<1>1. /\ report'.status = report.status
      /\ report'.payload = report.payload
      /\ report'.anchored = report.anchored
  BY DEF SaveUpload, LifeInv, SealInv, TypeOK, StoredOK, Report
<1>2. HashedOnce' /\ SealIsWhole' /\ AnchoredIsStored' /\ LifeStep
  BY <1>1 DEF SaveUpload, LifeInv, LifeRest, HashedOnce, SealIsWhole, AnchoredIsStored, blockchain,
              LifeStep, Life!life
<1>3. \A c \in Callers : LifeOK(c)'
  BY <1>1 DEF SaveUpload, LifeInv, LifeRest, LifeOK, caller, memory
<1> QED
  BY <1>2, <1>3 DEF LifeRest

(* Life!Anchor: whatever transaction is mined first, it carries the stored  *)
(* hashes.                                                                  *)
LEMMA MineLives ==
  ASSUME LifeInv, Mine
  PROVE  LifeRest' /\ LifeStep
<1>1. PICK i \in 1..Len(txs) :
        /\ IF record = NoPayload
             THEN record' = txs[i].payload /\ txs' = [txs EXCEPT ![i].outcome = "mined"]
             ELSE txs' = [txs EXCEPT ![i].outcome = "reverted"] /\ UNCHANGED record
        /\ UNCHANGED <<server, caller, environment, pdfs>>
  BY DEF Mine
<1>2. txs \in Seq(Tx) /\ txs[i] \in Tx
  BY <1>1 DEF LifeInv, SealInv, TypeOK, StoredOK
<1>3. txs[i].payload = report.payload /\ report.payload \in Payload /\ report.payload # NoPayload
  <2>1. txs[i].payload = report.payload
    BY DEF LifeInv, LifeRest, AnchoredIsStored
  <2> QED
    BY <1>2, <2>1 DEF Tx, Payload, NoPayload
<1>4. AnchoredIsStored'
  <2> DEFINE o == IF record = NoPayload THEN "mined" ELSE "reverted"
             t == [txs[i] EXCEPT !.outcome = o]
  <2>1. txs' = [txs EXCEPT ![i] = t]
    BY <1>1
  <2>2. t \in Tx /\ t.payload = txs[i].payload
    BY <1>2 DEF Tx
  <2> HIDE DEF t
  <2>3. Len(txs') = Len(txs) /\ txs'[i] = t /\ \A j \in 1..Len(txs) : j # i => txs'[j] = txs[j]
    BY <1>2, <2>1, <2>2
  <2>4. \A j \in 1..Len(txs') : txs'[j].payload = txs[j].payload /\ j \in 1..Len(txs)
    BY <2>2, <2>3
  <2>5. UNCHANGED <<report, files>>
    BY <1>1 DEF server
  <2> QED
    BY <2>4, <2>5 DEF LifeInv, LifeRest, AnchoredIsStored
<1>5. HashedOnce' /\ SealIsWhole'
  BY <1>1, <1>3 DEF LifeInv, LifeRest, HashedOnce, SealIsWhole, server
<1>6. \A c \in Callers : LifeOK(c)'
  BY <1>1 DEF LifeInv, LifeRest, LifeOK, server, caller, memory
<1>7. Life!Anchor \/ UNCHANGED Life!life
  BY <1>1, <1>3 DEF server, Life!Anchor, Life!life
<1> QED
  BY <1>4, <1>5, <1>6, <1>7 DEF LifeRest, LifeStep, Life!Next

LEMMA CrashLives ==
  ASSUME LifeInv, Crash
  PROVE  LifeRest' /\ LifeStep
<1>1. HashedOnce' /\ SealIsWhole' /\ AnchoredIsStored' /\ LifeStep
  BY ReportStays DEF Crash
<1>2. \A c \in Callers : LifeOK(c)'
  BY DEF Crash, LifeInv, LifeRest, LifeOK
<1> QED
  BY <1>1, <1>2 DEF LifeRest

-----------------------------------------------------------------------------
LEMMA NextLives == ASSUME LifeInv, [Next]_vars, [OnTime]_vars PROVE LifeInv' /\ LifeStep
<1>1. SealInv'
  BY NextKeeps DEF LifeInv
<1>2. CASE \E c \in Callers : Call(c) \/ Step(c) \/ CallRejects(c)
  BY <1>1, <1>2, CallLives, LoadLives, SaveLockLives, GeneratePdfLives, StorePdfLives,
     SaveBundleLives, SendAnchorLives, ReceiptLives, SaveAnchorErrorLives, SaveSealedLives,
     LoadSessionLives, SaveSessionLives, CallRejectsLives DEF Step, LifeInv
<1>3. CASE \E l \in Lockers : Lock(l)
  <2>1. PICK l \in Lockers : Lock(l)
    BY <1>3
  <2>2. CASE LockReport(l)
    <3>1. locker[l] = "report" /\ locker'[l] # "report"
      BY <2>2 DEF LockReport, LifeInv, SealInv, TypeOK, EnvironmentOK
    <3>2. report.status \in {"waiting", "signing"}
      BY <2>2, <3>1 DEF OnTime, vars, environment
    <3> QED
      BY <1>1, <2>2, <3>2, LockReportLives DEF LifeInv
  <2> QED
    BY <1>1, <2>1, <2>2, LoadSessionToLockLives, LockSessionLives DEF Lock, LifeInv
<1>4. CASE \E u \in Uploads : SaveUpload(u)
  BY <1>1, <1>4, SaveUploadLives DEF LifeInv
<1>5. CASE Mine \/ Crash
  BY <1>1, <1>5, MineLives, CrashLives DEF LifeInv
<1>6. CASE UNCHANGED vars
  <2>1. UNCHANGED <<report, files, blockchain, pc, answer, draft, doc, locker>>
    BY <1>6 DEF vars, server, caller, memory, environment
  <2>2. HashedOnce' /\ SealIsWhole' /\ AnchoredIsStored' /\ LifeStep
    BY <2>1, ReportStays
  <2>3. \A c \in Callers : LifeOK(c)'
    BY <2>1 DEF LifeInv, LifeRest, LifeOK
  <2> QED
    BY <1>1, <2>2, <2>3 DEF LifeInv, LifeRest
<1> QED
  BY <1>2, <1>3, <1>4, <1>5, <1>6 DEF Next

LEMMA LifeInvariant == Spec /\ LocksOnTime => []LifeInv
<1>1. LifeInv /\ [Next]_vars /\ [OnTime]_vars => LifeInv'
  BY NextLives
<1> QED
  BY InitLife, <1>1, PTL DEF Spec, LocksOnTime

(* Nothing goes to the chain before it is durable: every transaction ever   *)
(* sent carries the hashes in the database, of a PDF that is in GridFS.     *)
THEOREM OnlyStoredHashesAreSent == Spec /\ LocksOnTime => []AnchoredIsStored
<1>1. LifeInv => AnchoredIsStored
  BY DEF LifeInv, LifeRest
<1> QED
  BY LifeInvariant, <1>1, PTL

(* Who is told that the report is sealed has been told the truth, for good. *)
THEOREM SealedAnswersAreTrue == Spec /\ LocksOnTime => []AnswerIsTrue
<1>1. LifeInv => AnswerIsTrue
  BY DEF LifeInv, LifeRest, LifeOK, SealIsWhole, AnswerIsTrue
<1> QED
  BY LifeInvariant, <1>1, PTL

(* The pipeline implements the life cycle: hashes are stored once, anchored *)
(* once, as stored, and the report is sealed once, after that.              *)
THEOREM PipelineImplementsLife == Spec /\ LocksOnTime => ImplementsLife
<1>1. LifeInv /\ [Next]_vars /\ [OnTime]_vars => [Life!Next]_(Life!life)
  BY NextLives DEF LifeStep
<1> QED
  BY InitLife, LifeInvariant, <1>1, PTL DEF Spec, LocksOnTime, ImplementsLife, Life!Spec

-----------------------------------------------------------------------------
(* One run of maybeLockReport, the one of a session whose socket events     *)
(* arrive once, is always on time: as long as it has not saved the lock,    *)
(* the report is open and every attempt is refused.                         *)
OneLocker == \A l, m \in Lockers : l = m

LockedOnce == \A l \in Lockers : locker[l] \in {"load", "report"} => report.status = "waiting"

OpenInv == LifeInv /\ LockedOnce

LEMMA OneIsOnTime ==
  ASSUME OpenInv
  PROVE  [OnTime]_vars
  BY DEF OpenInv, LockedOnce, OnTime, LockReport

(* Whoever writes the status is the locker itself, or an attempt that has   *)
(* found the report locked.                                                 *)
LEMMA LockedOnceHolds ==
  ASSUME OneLocker, OpenInv, [Next]_vars
  PROVE  LockedOnce'
<1>1. CASE UNCHANGED locker /\ (report.status = "waiting" => report'.status = "waiting")
  BY <1>1 DEF OpenInv, LockedOnce
<1>2. ASSUME NEW c \in Callers, Step(c) \/ CallRejects(c), pc[c] # "load"
      PROVE  LockedOnce'
  <2>1. pc[c] # "idle" /\ UNCHANGED locker
    BY <1>2
       DEF Step, CallRejects, Load, SaveLock, GeneratePdf, StorePdf, SaveBundle, SendAnchor, Receipt,
           SaveAnchorError, SaveSealed, LoadSession, SaveSession, environment, PipelineSteps, Running
  <2>2. report.status # "waiting"
    BY <1>2, <2>1 DEF OpenInv, LifeInv, LifeRest, LifeOK
  <2> QED
    BY <1>1, <2>1, <2>2
<1>3. ASSUME NEW c \in Callers, Call(c) \/ ((Step(c) \/ CallRejects(c)) /\ pc[c] = "load")
      PROVE  LockedOnce'
  <2>1. UNCHANGED <<locker, report>>
    BY <1>3
       DEF Call, Step, CallRejects, Load, SaveLock, GeneratePdf, StorePdf, SaveBundle, SendAnchor,
           Receipt, SaveAnchorError, SaveSealed, LoadSession, SaveSession, environment
  <2> QED
    BY <1>1, <2>1
<1>4. ASSUME NEW l \in Lockers, Lock(l)
      PROVE  LockedOnce'
  <2>1. \A m \in Lockers : m = l
    BY DEF OneLocker
  <2>2. CASE LoadSessionToLock(l)
    BY <2>2 DEF LoadSessionToLock, server, OpenInv, LockedOnce, LifeInv, SealInv, TypeOK, EnvironmentOK
  <2>3. CASE LockReport(l) \/ LockSession(l)
    BY <2>1, <2>3 DEF LockReport, LockSession, LockedOnce, OpenInv, LifeInv, SealInv, TypeOK, EnvironmentOK
  <2> QED
    BY <1>4, <2>2, <2>3 DEF Lock
<1>5. ASSUME NEW u \in Uploads, SaveUpload(u)
      PROVE  LockedOnce'
  <2>1. UNCHANGED locker /\ report'.status = report.status
    BY <1>5 DEF SaveUpload, OpenInv, LifeInv, SealInv, TypeOK, StoredOK, Report
  <2> QED
    BY <1>1, <2>1
<1>6. CASE Mine
  BY <1>1, <1>6 DEF Mine, server, environment
<1>7. CASE Crash
  BY <1>7 DEF Crash, LockedOnce
<1>8. CASE UNCHANGED vars
  BY <1>1, <1>8 DEF vars, server, environment
<1> QED
  BY <1>2, <1>3, <1>4, <1>5, <1>6, <1>7, <1>8 DEF Next

(* So what the theorems above ask of the runs of maybeLockReport holds of   *)
(* a single one.                                                            *)
THEOREM OneLockerIsOnTime == ASSUME OneLocker PROVE Spec => LocksOnTime
<1>1. Init => OpenInv
  BY InitLife DEF Init, Unlocked, OpenInv, LockedOnce
<1>2. OpenInv /\ [Next]_vars => OpenInv'
  BY OneIsOnTime, NextLives, LockedOnceHolds DEF OpenInv
<1> QED
  BY <1>1, <1>2, OneIsOnTime, PTL DEF Spec, LocksOnTime

=============================================================================
