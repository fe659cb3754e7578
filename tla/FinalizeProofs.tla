--------------------------- MODULE FinalizeProofs ---------------------------
(***************************************************************************)
(* For any number of callers, late lockers and late uploads, of faults and *)
(* of restarts: a sealed report's stored hashes are the ones on the chain. *)
(***************************************************************************)
EXTENDS Finalize, TLAPS

(* The inductive invariant behind SealedMatchesChain.  Only one             *)
(* attempt runs at a time, ...                                              *)
OneAttempt == \A c \in Callers : Running(c) => /\ inFlight
                                              /\ \A d \in Callers : Running(d) => d = c

(* ... so that nobody else seals the report under its feet; the PDF it      *)
(* stores is one it has generated; the hashes it anchors are those in the   *)
(* database; it waits for a transaction of its own; and it seals only after *)
(* that transaction has become the contract's entry, ...                    *)
BeforeSeal == {"lock", "pdf", "store", "bundle", "anchor", "receipt", "anchorError", "seal"}
Anchoring == {"anchor", "receipt", "seal"}

AttemptOK(c) ==
  /\ pc[c] \in BeforeSeal => report.status # "sealed"
  /\ pc[c] \in {"store", "bundle"} => draft[c] # 0
  /\ pc[c] \in Anchoring => doc[c].payload = report.payload /\ report.payload # NoPayload
  /\ pc[c] = "receipt" => tx[c] \in 1..Len(txs) /\ txs[tx[c]].payload = doc[c].payload
  /\ pc[c] = "seal" => record = doc[c].payload

(* ... which keeps what the one successful transaction wrote.               *)
MinedIsRecorded == \A i \in 1..Len(txs) : txs[i].outcome = "mined" => record = txs[i].payload

SealInv == /\ TypeOK
           /\ OneAttempt
           /\ \A c \in Callers : AttemptOK(c)
           /\ MinedIsRecorded
           /\ SealedMatchesChain

-----------------------------------------------------------------------------
(* A report's fields have their types, and keep them under each update the *)
(* code makes.                                                             *)
LEMMA ReportFields ==
  ASSUME NEW r \in Report
  PROVE  /\ r.status \in STATUSES
         /\ r.payload \in Payload \cup {NoPayload}
         /\ r.attachments \in SUBSET Uploads
         /\ r.v \in Nat
  BY DEF Report

LEMMA StatusUpdates ==
  ASSUME NEW r \in Report, NEW s \in STATUSES, NEW e \in BOOLEAN
  PROVE  /\ [r EXCEPT !.status = s] \in Report
         /\ [r EXCEPT !.lastError = e] \in Report
         /\ [r EXCEPT !.status = s, !.lastError = e] \in Report
         /\ [r EXCEPT !.status = s, !.anchored = TRUE, !.lastError = e] \in Report
  BY DEF Report

LEMMA PayloadUpdate ==
  ASSUME NEW r \in Report, NEW p \in Payload, NEW n \in Nat
  PROVE  [r EXCEPT !.payload = p, !.v = n] \in Report
  BY DEF Report

LEMMA AttachmentUpdate ==
  ASSUME NEW r \in Report, NEW a \in SUBSET Uploads, NEW n \in Nat
  PROVE  [r EXCEPT !.attachments = a, !.v = n] \in Report
  BY DEF Report

(* While one attempt runs, no other does; when it ends, none does.         *)
LEMMA GotoMoves ==
  ASSUME RequestsOK, OneAttempt, NEW c \in Callers, Running(c),
         NEW s \in PipelineSteps, Goto(c, s)
  PROVE  /\ RequestsOK'
         /\ OneAttempt'
         /\ pc'[c] = s
         /\ \A d \in Callers : d # c => pc'[d] = "idle"
  BY DEF RequestsOK, OneAttempt, Running, Goto

LEMMA FinishEnds ==
  ASSUME RequestsOK, OneAttempt, NEW c \in Callers, Running(c),
         NEW a \in Answers, Finish(c, a)
  PROVE  /\ RequestsOK'
         /\ \A d \in Callers : pc'[d] = "idle"
  BY DEF RequestsOK, OneAttempt, Running, Finish

LEMMA UnlockedIsReport == Unlocked \in Report
  BY DEF Unlocked, Report, STATUSES, NoPayload

LEMMA FinishForgets ==
  ASSUME MemoryOK, NEW c \in Callers, NEW a, Finish(c, a)
  PROVE  MemoryOK'
<1>1. /\ doc' = [doc EXCEPT ![c] = Unlocked]
      /\ draft' = [draft EXCEPT ![c] = 0]
      /\ tx' = [tx EXCEPT ![c] = 0]
  BY DEF Finish, Forget
<1> QED
  BY <1>1, UnlockedIsReport DEF MemoryOK

(* So a step that moves the attempt of caller c has to answer only for the *)
(* types of what it writes, for c, and for what the chain and the database *)
(* hold ...                                                                *)
LEMMA MovingKeeps ==
  ASSUME SealInv, NEW c \in Callers, Running(c), NEW s \in PipelineSteps, Goto(c, s),
         StoredOK', MemoryOK', EnvironmentOK',
         AttemptOK(c)', MinedIsRecorded', SealedMatchesChain'
  PROVE  SealInv'
<1>1. /\ RequestsOK'
      /\ OneAttempt'
      /\ \A d \in Callers : d # c => pc'[d] = "idle"
  BY GotoMoves DEF SealInv, TypeOK
<1>2. \A d \in Callers : AttemptOK(d)'
  BY <1>1 DEF AttemptOK, BeforeSeal, Anchoring
<1> QED
  BY <1>1, <1>2 DEF SealInv, TypeOK

(* ... and a step that ends it, not even for c.                            *)
LEMMA EndingKeeps ==
  ASSUME SealInv, NEW c \in Callers, Running(c), NEW a \in Answers, Finish(c, a),
         StoredOK', EnvironmentOK',
         MinedIsRecorded', SealedMatchesChain'
  PROVE  SealInv'
<1>1. RequestsOK' /\ MemoryOK' /\ \A d \in Callers : pc'[d] = "idle"
  BY FinishEnds, FinishForgets DEF SealInv, TypeOK
<1>2. OneAttempt'
  BY <1>1 DEF OneAttempt, Running, PipelineSteps
<1>3. \A d \in Callers : AttemptOK(d)'
  BY <1>1 DEF AttemptOK, BeforeSeal, Anchoring
<1> QED
  BY <1>1, <1>2, <1>3 DEF SealInv, TypeOK

(* What a step leaves alone stays as it was.                               *)
LEMMA ChainUntouched ==
  ASSUME SealInv, UNCHANGED <<blockchain, report>>
  PROVE  MinedIsRecorded' /\ SealedMatchesChain'
  BY DEF SealInv, MinedIsRecorded, SealedMatchesChain, blockchain

LEMMA EnvironmentUntouched ==
  ASSUME SealInv, UNCHANGED environment
  PROVE  EnvironmentOK'
  BY DEF SealInv, TypeOK, EnvironmentOK, environment

LEMMA StoredUntouched ==
  ASSUME SealInv, UNCHANGED <<report, session, files, blockchain, pdfs>>
  PROVE  StoredOK'
  BY DEF SealInv, TypeOK, StoredOK, blockchain

LEMMA MemoryUntouched ==
  ASSUME SealInv, UNCHANGED memory
  PROVE  MemoryOK'
  BY DEF SealInv, TypeOK, MemoryOK, memory

-----------------------------------------------------------------------------
LEMMA InitSeals == Init => SealInv
<1> SUFFICES ASSUME Init PROVE SealInv
  OBVIOUS
<1>1. StoredOK
  BY DEF Init, StoredOK, Report, Unlocked, STATUSES, NoPayload, Tx
<1>2. MemoryOK
  BY DEF Init, MemoryOK, Report, Unlocked, STATUSES, NoPayload
<1>3. RequestsOK /\ EnvironmentOK
  BY DEF Init, RequestsOK, EnvironmentOK, Answers, STATUSES
<1>4. OneAttempt /\ \A c \in Callers : AttemptOK(c)
  BY DEF Init, OneAttempt, AttemptOK, Running, PipelineSteps, BeforeSeal, Anchoring
<1>5. MinedIsRecorded /\ SealedMatchesChain
  BY DEF Init, MinedIsRecorded, SealedMatchesChain, Unlocked
<1> QED
  BY <1>1, <1>2, <1>3, <1>4, <1>5 DEF SealInv, TypeOK

LEMMA CallKeeps ==
  ASSUME SealInv, NEW c \in Callers, Call(c)
  PROVE  SealInv'
<1>1. /\ StoredOK' /\ MemoryOK' /\ EnvironmentOK'
      /\ MinedIsRecorded' /\ SealedMatchesChain'
  BY StoredUntouched, MemoryUntouched, EnvironmentUntouched, ChainUntouched DEF Call
<1>2. RequestsOK'
  BY DEF SealInv, TypeOK, RequestsOK, Call, PipelineSteps, Answers
<1>3. OneAttempt'
  BY DEF SealInv, TypeOK, RequestsOK, OneAttempt, Call, Running, PipelineSteps
<1>4. \A d \in Callers : AttemptOK(d)'
  BY DEF SealInv, TypeOK, RequestsOK, AttemptOK, Call, BeforeSeal, Anchoring, blockchain, memory
<1> QED
  BY <1>1, <1>2, <1>3, <1>4 DEF SealInv, TypeOK

LEMMA LoadKeeps ==
  ASSUME SealInv, NEW c \in Callers, Load(c)
  PROVE  SealInv'
<1>1. Running(c)
  BY DEF Load, Running, PipelineSteps
<1>2. StoredOK' /\ EnvironmentOK' /\ MinedIsRecorded' /\ SealedMatchesChain'
  BY StoredUntouched, EnvironmentUntouched, ChainUntouched DEF Load
<1>3. CASE Finish(c, "sealed") \/ Finish(c, "refused")
  BY <1>1, <1>2, <1>3, EndingKeeps DEF Answers
<1>4. CASE /\ report.status \in {"signing", "finalizing"}
           /\ IF IsAnchorRetry(report) THEN Goto(c, "anchor") ELSE Goto(c, "lock")
           /\ doc' = [doc EXCEPT ![c] = report]
           /\ UNCHANGED <<draft, tx>>
  <2>1. MemoryOK'
    BY <1>4 DEF SealInv, TypeOK, StoredOK, MemoryOK
  <2>2. CASE IsAnchorRetry(report) /\ Goto(c, "anchor")
    <3>1. AttemptOK(c)'
      BY <1>4, <2>2 DEF SealInv, TypeOK, RequestsOK, MemoryOK, AttemptOK, Load, Goto,
                        IsAnchorRetry, BeforeSeal, Anchoring
    <3> QED
      BY <1>1, <1>2, <2>1, <2>2, <3>1, MovingKeeps DEF PipelineSteps
  <2>3. CASE Goto(c, "lock")
    <3>1. AttemptOK(c)'
      BY <1>4, <2>3 DEF SealInv, TypeOK, RequestsOK, AttemptOK, Load, Goto, BeforeSeal, Anchoring
    <3> QED
      BY <1>1, <1>2, <2>1, <2>3, <3>1, MovingKeeps DEF PipelineSteps
  <2> QED
    BY <1>4, <2>2, <2>3
<1> QED
  BY <1>3, <1>4 DEF Load

LEMMA SaveLockKeeps ==
  ASSUME SealInv, NEW c \in Callers, SaveLock(c)
  PROVE  SealInv'
<1>1. Running(c)
  BY DEF SaveLock, Running, PipelineSteps
<1>2. EnvironmentOK'
  BY EnvironmentUntouched DEF SaveLock
<1>3. StoredOK'
  BY StatusUpdates DEF SealInv, TypeOK, StoredOK, SaveLock, STATUSES, blockchain
<1>4. MemoryOK'
  BY StatusUpdates DEF SealInv, TypeOK, MemoryOK, SaveLock, STATUSES
<1>5. report'.status = "finalizing" \/ report'.status = report.status
  BY DEF SealInv, TypeOK, StoredOK, SaveLock, Report
<1>6. report'.payload = report.payload /\ report.status # "sealed"
  BY DEF SealInv, TypeOK, StoredOK, SaveLock, Report, AttemptOK, BeforeSeal
<1>7. AttemptOK(c)'
  BY <1>5, <1>6 DEF SealInv, TypeOK, RequestsOK, AttemptOK, SaveLock, Goto, BeforeSeal, Anchoring
<1>8. MinedIsRecorded' /\ SealedMatchesChain'
  BY <1>5, <1>6 DEF SealInv, SaveLock, MinedIsRecorded, SealedMatchesChain, blockchain
<1> QED
  BY <1>1, <1>2, <1>3, <1>4, <1>7, <1>8, MovingKeeps DEF SaveLock, PipelineSteps

LEMMA GeneratePdfKeeps ==
  ASSUME SealInv, NEW c \in Callers, GeneratePdf(c)
  PROVE  SealInv'
<1>1. Running(c)
  BY DEF GeneratePdf, Running, PipelineSteps
<1>2. EnvironmentOK' /\ MinedIsRecorded' /\ SealedMatchesChain'
  BY EnvironmentUntouched, ChainUntouched DEF GeneratePdf
<1>3. StoredOK' /\ MemoryOK'
  BY DEF SealInv, TypeOK, StoredOK, MemoryOK, GeneratePdf, blockchain
<1>4. AttemptOK(c)'
  BY DEF SealInv, TypeOK, StoredOK, RequestsOK, MemoryOK, AttemptOK, GeneratePdf, Goto,
         BeforeSeal, Anchoring
<1> QED
  BY <1>1, <1>2, <1>3, <1>4, MovingKeeps DEF GeneratePdf, PipelineSteps

LEMMA StorePdfKeeps ==
  ASSUME SealInv, NEW c \in Callers, StorePdf(c)
  PROVE  SealInv'
<1>1. Running(c)
  BY DEF StorePdf, Running, PipelineSteps
<1>2. MemoryOK' /\ EnvironmentOK' /\ MinedIsRecorded' /\ SealedMatchesChain'
  BY MemoryUntouched, EnvironmentUntouched, ChainUntouched DEF StorePdf
<1>3. StoredOK'
  BY DEF SealInv, TypeOK, StoredOK, MemoryOK, StorePdf, blockchain
<1>4. AttemptOK(c)'
  BY DEF SealInv, TypeOK, RequestsOK, AttemptOK, StorePdf, Goto, BeforeSeal, Anchoring, memory
<1> QED
  BY <1>1, <1>2, <1>3, <1>4, MovingKeeps DEF StorePdf, PipelineSteps

LEMMA SaveBundleKeeps ==
  ASSUME SealInv, NEW c \in Callers, SaveBundle(c)
  PROVE  SealInv'
<1> DEFINE payload == [pdf |-> draft[c], bundle |-> doc[c].attachments]
<1>1. Running(c)
  BY DEF SaveBundle, Running, PipelineSteps
<1>2. EnvironmentOK'
  BY EnvironmentUntouched DEF SaveBundle
<1>3. report \in Report /\ doc[c] \in Report
  BY DEF SealInv, TypeOK, StoredOK, MemoryOK
<1>4. payload \in Payload
  BY <1>3, ReportFields DEF SealInv, TypeOK, MemoryOK, AttemptOK, SaveBundle, Payload
<1>5. payload # NoPayload
  BY <1>4 DEF Payload, NoPayload
<1>6. CASE Finish(c, "failed") /\ UNCHANGED report
  <2>1. StoredOK' /\ MinedIsRecorded' /\ SealedMatchesChain'
    BY <1>6, StoredUntouched, ChainUntouched DEF SaveBundle
  <2> QED
    BY <1>1, <1>2, <1>6, <2>1, EndingKeeps DEF Answers
<1>7. ASSUME NEW m \in Nat, NEW n \in Nat,
             report' = [report EXCEPT !.payload = payload, !.v = m],
             doc' = [doc EXCEPT ![c] = [doc[c] EXCEPT !.payload = payload, !.v = n]],
             UNCHANGED <<draft, tx>>,
             Goto(c, "anchor")
      PROVE  SealInv'
  <2>1. /\ report' \in Report
        /\ report'.payload = payload
        /\ report'.status = report.status
    BY <1>3, <1>4, <1>7, PayloadUpdate DEF Report
  <2>2. doc'[c].payload = payload
    BY <1>3, <1>7 DEF SealInv, TypeOK, MemoryOK, Report
  <2>3. StoredOK'
    BY <2>1 DEF SealInv, TypeOK, StoredOK, SaveBundle, blockchain
  <2>4. MemoryOK'
    BY <1>3, <1>4, <1>7, PayloadUpdate DEF SealInv, TypeOK, MemoryOK, SaveBundle
  <2>5. report.status # "sealed"
    BY DEF SealInv, AttemptOK, BeforeSeal, SaveBundle
  <2>6. AttemptOK(c)'
    BY <1>5, <1>7, <2>1, <2>2, <2>5, GotoMoves, <1>1
       DEF SealInv, TypeOK, AttemptOK, BeforeSeal, Anchoring, PipelineSteps
  <2>7. MinedIsRecorded' /\ SealedMatchesChain'
    BY <2>1, <2>5 DEF SealInv, MinedIsRecorded, SealedMatchesChain, SaveBundle, blockchain
  <2> QED
    BY <1>1, <1>2, <1>7, <2>3, <2>4, <2>6, <2>7, MovingKeeps DEF PipelineSteps
<1>8. CASE \E m, n \in Nat :
             /\ report' = [report EXCEPT !.payload = payload, !.v = m]
             /\ doc' = [doc EXCEPT ![c] = [doc[c] EXCEPT !.payload = payload, !.v = n]]
             /\ UNCHANGED <<draft, tx>>
             /\ Goto(c, "anchor")
  BY <1>7, <1>8
<1>9. /\ report.v \in Nat /\ report.v + 1 \in Nat
      /\ doc[c].v \in Nat /\ doc[c].v + 1 \in Nat
  BY <1>3, ReportFields
<1> QED
  BY <1>6, <1>8, <1>9 DEF SaveBundle

LEMMA SendAnchorKeeps ==
  ASSUME SealInv, NEW c \in Callers, SendAnchor(c)
  PROVE  SealInv'
<1>1. Running(c)
  BY DEF SendAnchor, Running, PipelineSteps
<1>2. EnvironmentOK'
  BY EnvironmentUntouched DEF SendAnchor
<1>3. CASE Goto(c, "anchorError") /\ UNCHANGED <<txs, tx>>
  <2>1. StoredOK' /\ MemoryOK' /\ MinedIsRecorded' /\ SealedMatchesChain'
    BY <1>3, StoredUntouched, MemoryUntouched, ChainUntouched DEF SendAnchor, blockchain, memory
  <2>2. AttemptOK(c)'
    BY <1>3 DEF SealInv, TypeOK, RequestsOK, AttemptOK, SendAnchor, Goto, BeforeSeal, Anchoring
  <2> QED
    BY <1>1, <1>2, <1>3, <2>1, <2>2, MovingKeeps DEF PipelineSteps
<1>4. CASE /\ txs' = Append(txs, [payload |-> doc[c].payload, outcome |-> "pending"])
           /\ tx' = [tx EXCEPT ![c] = Len(txs) + 1]
           /\ Goto(c, "receipt")
  <2> DEFINE sent == [payload |-> doc[c].payload, outcome |-> "pending"]
  <2>1. txs \in Seq(Tx) /\ sent \in Tx
    <3>1. doc[c].payload \in Payload
      BY ReportFields DEF SealInv, TypeOK, StoredOK, AttemptOK, Anchoring, SendAnchor
    <3> QED
      BY <3>1 DEF SealInv, TypeOK, StoredOK, Tx
  <2>2. /\ txs' \in Seq(Tx)
        /\ Len(txs') = Len(txs) + 1
        /\ txs'[Len(txs) + 1] = sent
        /\ \A i \in 1..Len(txs) : txs'[i] = txs[i]
        /\ Len(txs) \in Nat
    BY <1>4, <2>1
  <2>3. StoredOK'
    BY <2>2 DEF SealInv, TypeOK, StoredOK, SendAnchor
  <2>4. MemoryOK' /\ tx'[c] = Len(txs) + 1
    BY <1>4, <2>2 DEF SealInv, TypeOK, MemoryOK, SendAnchor
  <2>5. AttemptOK(c)'
    BY <1>1, <1>4, <2>2, <2>4, GotoMoves
       DEF SealInv, TypeOK, AttemptOK, SendAnchor, BeforeSeal, Anchoring, PipelineSteps
  <2>6. MinedIsRecorded' /\ SealedMatchesChain'
    BY <2>2 DEF SealInv, MinedIsRecorded, SealedMatchesChain, SendAnchor
  <2> QED
    BY <1>1, <1>2, <1>4, <2>3, <2>4, <2>5, <2>6, MovingKeeps DEF PipelineSteps
<1> QED
  BY <1>3, <1>4 DEF SendAnchor

LEMMA ReceiptKeeps ==
  ASSUME SealInv, NEW c \in Callers, Receipt(c)
  PROVE  SealInv'
<1>1. Running(c)
  BY DEF Receipt, Running, PipelineSteps
<1>2. StoredOK' /\ MemoryOK' /\ EnvironmentOK' /\ MinedIsRecorded' /\ SealedMatchesChain'
  BY StoredUntouched, MemoryUntouched, EnvironmentUntouched, ChainUntouched DEF Receipt
<1>3. CASE txs[tx[c]].outcome = "mined" /\ Goto(c, "seal")
  <2>1. record = doc[c].payload
    BY <1>3 DEF SealInv, AttemptOK, MinedIsRecorded, Receipt
  <2>2. AttemptOK(c)'
    BY <1>1, <1>3, <2>1, GotoMoves
       DEF SealInv, TypeOK, AttemptOK, Receipt, BeforeSeal, Anchoring, PipelineSteps, blockchain, memory
  <2> QED
    BY <1>1, <1>2, <1>3, <2>2, MovingKeeps DEF PipelineSteps
<1>4. CASE Goto(c, "anchorError")
  <2>1. AttemptOK(c)'
    BY <1>4 DEF SealInv, TypeOK, RequestsOK, AttemptOK, Receipt, Goto, BeforeSeal, Anchoring
  <2> QED
    BY <1>1, <1>2, <1>4, <2>1, MovingKeeps DEF PipelineSteps
<1> QED
  BY <1>3, <1>4 DEF Receipt

LEMMA SaveAnchorErrorKeeps ==
  ASSUME SealInv, NEW c \in Callers, SaveAnchorError(c)
  PROVE  SealInv'
<1>1. Running(c)
  BY DEF SaveAnchorError, Running, PipelineSteps
<1>2. EnvironmentOK'
  BY EnvironmentUntouched DEF SaveAnchorError
<1>3. StoredOK'
  BY StatusUpdates DEF SealInv, TypeOK, StoredOK, SaveAnchorError, STATUSES, blockchain
<1>4. report'.status = report.status /\ report'.payload = report.payload
  BY DEF SealInv, TypeOK, StoredOK, SaveAnchorError, Report
<1>5. MinedIsRecorded' /\ SealedMatchesChain'
  BY <1>4 DEF SealInv, SaveAnchorError, MinedIsRecorded, SealedMatchesChain, blockchain
<1> QED
  BY <1>1, <1>2, <1>3, <1>5, EndingKeeps DEF SaveAnchorError, Answers

LEMMA SaveSealedKeeps ==
  ASSUME SealInv, NEW c \in Callers, SaveSealed(c)
  PROVE  SealInv'
<1>1. Running(c)
  BY DEF SaveSealed, Running, PipelineSteps
<1>2. MemoryOK' /\ EnvironmentOK'
  BY MemoryUntouched, EnvironmentUntouched DEF SaveSealed
<1>3. StoredOK'
  BY StatusUpdates DEF SealInv, TypeOK, StoredOK, SaveSealed, STATUSES, blockchain
<1>4. report'.payload = report.payload
  BY DEF SealInv, TypeOK, StoredOK, SaveSealed, Report
<1>5. record = report.payload /\ report.payload # NoPayload
  BY DEF SealInv, AttemptOK, Anchoring, SaveSealed
<1>6. MinedIsRecorded' /\ SealedMatchesChain'
  BY <1>4, <1>5 DEF SealInv, SaveSealed, MinedIsRecorded, SealedMatchesChain, blockchain
<1>7. AttemptOK(c)'
  BY DEF SealInv, TypeOK, RequestsOK, AttemptOK, SaveSealed, Goto, BeforeSeal, Anchoring
<1> QED
  BY <1>1, <1>2, <1>3, <1>6, <1>7, MovingKeeps DEF SaveSealed, PipelineSteps

LEMMA LoadSessionKeeps ==
  ASSUME SealInv, NEW c \in Callers, LoadSession(c)
  PROVE  SealInv'
<1>1. Running(c)
  BY DEF LoadSession, Running, PipelineSteps
<1>2. StoredOK' /\ EnvironmentOK' /\ MinedIsRecorded' /\ SealedMatchesChain'
  BY StoredUntouched, EnvironmentUntouched, ChainUntouched DEF LoadSession
<1>3. CASE Finish(c, "sealed")
  BY <1>1, <1>2, <1>3, EndingKeeps DEF Answers
<1>4. CASE Goto(c, "sealSession") /\ UNCHANGED memory
  <2>1. AttemptOK(c)'
    BY <1>4 DEF SealInv, TypeOK, RequestsOK, AttemptOK, Goto, BeforeSeal, Anchoring
  <2> QED
    BY <1>1, <1>2, <1>4, <2>1, MovingKeeps, MemoryUntouched DEF PipelineSteps
<1> QED
  BY <1>3, <1>4 DEF LoadSession

LEMMA SaveSessionKeeps ==
  ASSUME SealInv, NEW c \in Callers, SaveSession(c)
  PROVE  SealInv'
<1>1. Running(c)
  BY DEF SaveSession, Running, PipelineSteps
<1>2. EnvironmentOK' /\ MinedIsRecorded' /\ SealedMatchesChain'
  BY EnvironmentUntouched, ChainUntouched DEF SaveSession
<1>3. StoredOK'
  BY DEF SealInv, TypeOK, StoredOK, SaveSession, STATUSES, blockchain
<1> QED
  BY <1>1, <1>2, <1>3, EndingKeeps DEF SaveSession, Answers

LEMMA CallRejectsKeeps ==
  ASSUME SealInv, NEW c \in Callers, CallRejects(c)
  PROVE  SealInv'
<1>1. Running(c)
  BY DEF CallRejects
<1>2. StoredOK' /\ MinedIsRecorded' /\ SealedMatchesChain'
  BY StoredUntouched, ChainUntouched DEF CallRejects
<1>3. EnvironmentOK'
  BY DEF SealInv, TypeOK, EnvironmentOK, CallRejects
<1>4. CASE Finish(c, "failed")
  BY <1>1, <1>2, <1>3, <1>4, EndingKeeps DEF Answers
<1>5. CASE pc[c] \in {"anchor", "receipt"} /\ Goto(c, "anchorError") /\ UNCHANGED memory
  <2>1. AttemptOK(c)'
    BY <1>5 DEF SealInv, TypeOK, RequestsOK, AttemptOK, Goto, CallRejects, BeforeSeal, Anchoring
  <2> QED
    BY <1>1, <1>2, <1>3, <1>5, <2>1, MovingKeeps, MemoryUntouched DEF PipelineSteps
<1> QED
  BY <1>4, <1>5 DEF CallRejects

-----------------------------------------------------------------------------
(* The steps that no attempt takes.                                        *)
LEMMA LoadSessionToLockKeeps ==
  ASSUME SealInv, NEW l \in Lockers, LoadSessionToLock(l)
  PROVE  SealInv'
<1>1. UNCHANGED <<server, blockchain, caller, pdfs>>
  BY DEF LoadSessionToLock
<1>2. StoredOK' /\ MemoryOK' /\ MinedIsRecorded' /\ SealedMatchesChain'
  BY <1>1, StoredUntouched, MemoryUntouched, ChainUntouched DEF server, caller
<1>3. EnvironmentOK'
  BY DEF SealInv, TypeOK, StoredOK, EnvironmentOK, LoadSessionToLock, server
<1>4. RequestsOK' /\ OneAttempt' /\ \A c \in Callers : AttemptOK(c)'
  BY <1>1 DEF SealInv, TypeOK, RequestsOK, OneAttempt, AttemptOK, Running, server, blockchain, caller, memory
<1> QED
  BY <1>2, <1>3, <1>4 DEF SealInv, TypeOK

(* A late lock reopens even a sealed report, but never seals one.          *)
LEMMA LockReportKeeps ==
  ASSUME SealInv, NEW l \in Lockers, LockReport(l)
  PROVE  SealInv'
<1>1. MemoryOK'
  BY MemoryUntouched DEF LockReport, caller
<1>2. report'.status = "signing" /\ report'.payload = report.payload
  BY DEF SealInv, TypeOK, StoredOK, LockReport, Report
<1>3. StoredOK'
  BY StatusUpdates DEF SealInv, TypeOK, StoredOK, LockReport, STATUSES, blockchain
<1>4. EnvironmentOK'
  BY DEF SealInv, TypeOK, EnvironmentOK, LockReport
<1>5. RequestsOK' /\ OneAttempt' /\ \A c \in Callers : AttemptOK(c)'
  BY <1>2 DEF SealInv, TypeOK, RequestsOK, OneAttempt, AttemptOK, Running, LockReport, blockchain, caller, memory
<1>6. MinedIsRecorded' /\ SealedMatchesChain'
  BY <1>2 DEF SealInv, MinedIsRecorded, SealedMatchesChain, LockReport, blockchain
<1> QED
  BY <1>1, <1>3, <1>4, <1>5, <1>6 DEF SealInv, TypeOK

LEMMA LockSessionKeeps ==
  ASSUME SealInv, NEW l \in Lockers, LockSession(l)
  PROVE  SealInv'
<1>1. MemoryOK' /\ MinedIsRecorded' /\ SealedMatchesChain'
  BY MemoryUntouched, ChainUntouched DEF LockSession, caller
<1>2. StoredOK'
  BY DEF SealInv, TypeOK, StoredOK, LockSession, STATUSES, blockchain
<1>3. EnvironmentOK'
  BY DEF SealInv, TypeOK, EnvironmentOK, LockSession
<1>4. RequestsOK' /\ OneAttempt' /\ \A c \in Callers : AttemptOK(c)'
  BY DEF SealInv, TypeOK, RequestsOK, OneAttempt, AttemptOK, Running, LockSession, blockchain, caller, memory
<1> QED
  BY <1>1, <1>2, <1>3, <1>4 DEF SealInv, TypeOK

LEMMA SaveUploadKeeps ==
  ASSUME SealInv, NEW u \in Uploads, SaveUpload(u)
  PROVE  SealInv'
<1>1. MemoryOK'
  BY MemoryUntouched DEF SaveUpload, caller
<1>2. report'.status = report.status /\ report'.payload = report.payload
  BY DEF SealInv, TypeOK, StoredOK, SaveUpload, Report
<1>3. StoredOK'
  <2>1. report \in Report
    BY DEF SealInv, TypeOK, StoredOK
  <2>2. report.attachments \cup {u} \in SUBSET Uploads /\ report.v + 1 \in Nat
    BY <2>1, ReportFields
  <2>3. report' = [report EXCEPT !.attachments = report.attachments \cup {u}, !.v = report.v + 1]
    BY <2>1 DEF SaveUpload, Report
  <2>4. report' \in Report
    BY <2>1, <2>2, <2>3, AttachmentUpdate
  <2> QED
    BY <2>4 DEF SealInv, TypeOK, StoredOK, SaveUpload, blockchain
<1>4. EnvironmentOK'
  BY DEF SealInv, TypeOK, EnvironmentOK, SaveUpload
<1>5. RequestsOK' /\ OneAttempt' /\ \A c \in Callers : AttemptOK(c)'
  BY <1>2 DEF SealInv, TypeOK, RequestsOK, OneAttempt, AttemptOK, Running, SaveUpload, blockchain, caller, memory
<1>6. MinedIsRecorded' /\ SealedMatchesChain'
  BY <1>2 DEF SealInv, MinedIsRecorded, SealedMatchesChain, SaveUpload, blockchain
<1> QED
  BY <1>1, <1>3, <1>4, <1>5, <1>6 DEF SealInv, TypeOK

(* The contract writes its entry only while it has none; then no mined     *)
(* transaction precedes, and no attempt is past its receipt.               *)
LEMMA MineKeeps ==
  ASSUME SealInv, Mine
  PROVE  SealInv'
<1>1. PICK i \in 1..Len(txs) :
        /\ txs[i].outcome = "pending"
        /\ IF record = NoPayload
             THEN record' = txs[i].payload /\ txs' = [txs EXCEPT ![i].outcome = "mined"]
             ELSE txs' = [txs EXCEPT ![i].outcome = "reverted"] /\ UNCHANGED record
        /\ UNCHANGED <<server, caller, environment, pdfs>>
  BY DEF Mine
<1>2. txs \in Seq(Tx) /\ txs[i] \in Tx /\ Len(txs) \in Nat
  BY <1>1 DEF SealInv, TypeOK, StoredOK
<1>3. /\ txs' \in Seq(Tx)
      /\ Len(txs') = Len(txs)
      /\ \A j \in 1..Len(txs) : txs'[j].payload = txs[j].payload
      /\ \A j \in 1..Len(txs) : j # i => txs'[j] = txs[j]
      /\ txs'[i].outcome = IF record = NoPayload THEN "mined" ELSE "reverted"
  <2> DEFINE o == IF record = NoPayload THEN "mined" ELSE "reverted"
             t == [txs[i] EXCEPT !.outcome = o]
  <2>1. txs' = [txs EXCEPT ![i] = t]
    BY <1>1
  <2>2. t \in Tx /\ t.outcome = o /\ t.payload = txs[i].payload
    BY <1>2 DEF Tx
  <2> HIDE DEF t
  <2>3. txs' \in Seq(Tx) /\ Len(txs') = Len(txs)
    BY <1>2, <2>1, <2>2
  <2>4. txs'[i] = t /\ \A j \in 1..Len(txs) : j # i => txs'[j] = txs[j]
    BY <1>2, <2>1
  <2> QED
    BY <2>2, <2>3, <2>4
<1>4. record' \in Payload \cup {NoPayload}
  BY <1>1, <1>2 DEF SealInv, TypeOK, StoredOK, Tx
<1>5. record # NoPayload => record' = record
  BY <1>1
<1>6. StoredOK' /\ RequestsOK' /\ MemoryOK' /\ EnvironmentOK'
  BY <1>1, <1>3, <1>4 DEF SealInv, TypeOK, StoredOK, RequestsOK, MemoryOK, EnvironmentOK,
                          server, caller, memory, environment
<1>7. MinedIsRecorded'
  <2> SUFFICES ASSUME NEW j \in 1..Len(txs), txs'[j].outcome = "mined"
               PROVE  record' = txs'[j].payload
    BY <1>3 DEF MinedIsRecorded
  <2>1. txs[j].payload # NoPayload
    <3>1. txs[j] \in Tx
      BY <1>2
    <3> QED
      BY <3>1 DEF Tx, Payload, NoPayload
  <2>2. CASE j = i
    BY <1>1, <1>3, <2>2
  <2>3. CASE j # i
    BY <1>3, <1>5, <2>1, <2>3 DEF SealInv, MinedIsRecorded
  <2> QED
    BY <2>2, <2>3
<1>8. SealedMatchesChain'
  BY <1>1, <1>5 DEF SealInv, SealedMatchesChain, server
<1>9. \A c \in Callers : AttemptOK(c)'
  <2> SUFFICES ASSUME NEW c \in Callers PROVE AttemptOK(c)'
    OBVIOUS
  <2>1. AttemptOK(c) /\ UNCHANGED <<pc, doc, draft, tx, report>>
    BY <1>1 DEF SealInv, server, caller, memory
  <2>2. pc[c] = "seal" => record # NoPayload
    BY <2>1 DEF AttemptOK, Anchoring
  <2> QED
    BY <1>3, <1>5, <2>1, <2>2 DEF AttemptOK
<1>10. OneAttempt'
  BY <1>1 DEF SealInv, OneAttempt, Running, server, caller
<1> QED
  BY <1>6, <1>7, <1>8, <1>9, <1>10 DEF SealInv, TypeOK

LEMMA CrashKeeps ==
  ASSUME SealInv, Crash
  PROVE  SealInv'
<1>1. StoredOK' /\ MinedIsRecorded' /\ SealedMatchesChain'
  BY StoredUntouched, ChainUntouched DEF Crash
<1>2. RequestsOK'
  BY DEF SealInv, TypeOK, RequestsOK, Crash, Answers
<1>3. EnvironmentOK'
  BY DEF SealInv, TypeOK, EnvironmentOK, Crash
<1>4. OneAttempt' /\ \A c \in Callers : AttemptOK(c)'
  BY DEF OneAttempt, AttemptOK, Crash, Running, PipelineSteps, BeforeSeal, Anchoring
<1>5. MemoryOK'
  BY UnlockedIsReport DEF MemoryOK, Crash
<1> QED
  BY <1>1, <1>2, <1>3, <1>4, <1>5 DEF SealInv, TypeOK

-----------------------------------------------------------------------------
LEMMA NextKeeps == SealInv /\ [Next]_vars => SealInv'
<1> SUFFICES ASSUME SealInv, [Next]_vars PROVE SealInv'
  OBVIOUS
<1>1. CASE \E c \in Callers : Call(c) \/ Step(c) \/ CallRejects(c)
  BY <1>1, CallKeeps, LoadKeeps, SaveLockKeeps, GeneratePdfKeeps, StorePdfKeeps,
     SaveBundleKeeps, SendAnchorKeeps, ReceiptKeeps, SaveAnchorErrorKeeps, SaveSealedKeeps,
     LoadSessionKeeps, SaveSessionKeeps, CallRejectsKeeps DEF Step
<1>2. CASE \E l \in Lockers : Lock(l)
  BY <1>2, LoadSessionToLockKeeps, LockReportKeeps, LockSessionKeeps DEF Lock
<1>3. CASE \E u \in Uploads : SaveUpload(u)
  BY <1>3, SaveUploadKeeps
<1>4. CASE Mine \/ Crash
  BY <1>4, MineKeeps, CrashKeeps
<1>5. CASE UNCHANGED vars
  BY <1>5 DEF vars, server, blockchain, caller, memory, environment, SealInv, TypeOK, StoredOK,
              RequestsOK, MemoryOK, EnvironmentOK, OneAttempt, Running, AttemptOK,
              MinedIsRecorded, SealedMatchesChain
<1> QED
  BY <1>1, <1>2, <1>3, <1>4, <1>5 DEF Next

(* The inductive invariant holds throughout every behaviour of runFinalize,*)
(* however it is interleaved, interrupted and repeated.                    *)
THEOREM SealInvariant == Spec => []SealInv
  BY InitSeals, NextKeeps, PTL DEF Spec

(* Every variable keeps its type.                                          *)
THEOREM TypeCorrectness == Spec => []TypeOK
<1>1. SealInv => TypeOK
  BY DEF SealInv
<1> QED
  BY SealInvariant, <1>1, PTL

(* What verification compares with the chain is what was anchored: a       *)
(* sealed report's stored hashes are the contract's entry for it.          *)
THEOREM SealedReportMatchesChain == Spec => []SealedMatchesChain
<1>1. SealInv => SealedMatchesChain
  BY DEF SealInv
<1> QED
  BY SealInvariant, <1>1, PTL

-----------------------------------------------------------------------------
(* The pipeline and the lock it follows.  Seen from here both parties have  *)
(* signed, so that what is left of SignedLock is: the report is locked once *)
(* and for good, the session after it.                                      *)
Locking == INSTANCE SignedLock WITH Parties <- {}, signedOff <- {},
                                    locked <- report.status \in LOCKED_STATUSES,
                                    sessionLocked <- session \in LOCKED_STATUSES

LockingStep == Locking!Next \/ UNCHANGED Locking!lock

(* While the report is open, so is its session; nobody is about to lock     *)
(* that one, and no attempt is beyond the load of the report.               *)
LockingInv ==
  report.status \notin LOCKED_STATUSES =>
    /\ session \notin LOCKED_STATUSES
    /\ \A c \in Callers : pc[c] \in {"idle", "load"}
    /\ \A l \in Lockers : locker[l] # "session"

(* Each step that writes the report writes a locked status, or leaves it.   *)
LEMMA StatusWritten ==
  ASSUME TypeOK, [Next]_vars
  PROVE  report'.status \in LOCKED_STATUSES \/ report'.status = report.status
<1>1. report \in Report /\ \A c \in Callers : doc[c] \in Report
  BY DEF TypeOK, StoredOK, MemoryOK
<1>2. CASE UNCHANGED report
  BY <1>2
<1>3. ASSUME NEW c \in Callers, SaveLock(c) \/ SaveBundle(c) \/ SaveAnchorError(c) \/ SaveSealed(c)
      PROVE  report'.status \in LOCKED_STATUSES \/ report'.status = report.status
  <2>1. CASE SaveLock(c)
    BY <1>1, <2>1 DEF SaveLock, Report, LOCKED_STATUSES
  <2>2. CASE SaveBundle(c)
    BY <1>1, <2>2 DEF SaveBundle, Report
  <2>3. CASE SaveAnchorError(c)
    BY <1>1, <2>3 DEF SaveAnchorError, Report
  <2>4. CASE SaveSealed(c)
    BY <1>1, <2>4 DEF SaveSealed, Report, LOCKED_STATUSES
  <2> QED
    BY <1>3, <2>1, <2>2, <2>3, <2>4
<1>4. ASSUME NEW l \in Lockers, LockReport(l)
      PROVE  report'.status \in LOCKED_STATUSES
  BY <1>1, <1>4 DEF LockReport, Report, LOCKED_STATUSES
<1>5. ASSUME NEW u \in Uploads, SaveUpload(u)
      PROVE  report'.status = report.status
  BY <1>1, <1>5 DEF SaveUpload, Report
<1>6. ASSUME NEW c \in Callers,
             \/ Call(c) \/ Load(c) \/ GeneratePdf(c) \/ StorePdf(c) \/ SendAnchor(c) \/ Receipt(c)
             \/ LoadSession(c) \/ SaveSession(c) \/ CallRejects(c)
      PROVE  UNCHANGED report
  BY <1>6 DEF Call, Load, GeneratePdf, StorePdf, SendAnchor, Receipt, LoadSession, SaveSession, CallRejects
<1>7. ASSUME NEW l \in Lockers, LoadSessionToLock(l) \/ LockSession(l)
      PROVE  UNCHANGED report
  BY <1>7 DEF LoadSessionToLock, LockSession, server
<1>8. CASE Mine \/ Crash \/ UNCHANGED vars
  BY <1>8 DEF Mine, Crash, vars, server
<1> QED
  BY <1>2, <1>3, <1>4, <1>5, <1>6, <1>7, <1>8 DEF Next, Step, Lock

LEMMA SessionWritten ==
  ASSUME LockingInv, [Next]_vars
  PROVE  \/ session' = session
         \/ session' \in LOCKED_STATUSES /\ report.status \in LOCKED_STATUSES /\ UNCHANGED report
<1>1. ASSUME NEW c \in Callers, SaveSession(c)
      PROVE  session' \in LOCKED_STATUSES /\ report.status \in LOCKED_STATUSES /\ UNCHANGED report
  BY <1>1 DEF SaveSession, LockingInv, LOCKED_STATUSES
<1>2. ASSUME NEW l \in Lockers, LockSession(l)
      PROVE  session' \in LOCKED_STATUSES /\ report.status \in LOCKED_STATUSES /\ UNCHANGED report
  BY <1>2 DEF LockSession, LockingInv, LOCKED_STATUSES
<1>3. ASSUME NEW c \in Callers, Call(c) \/ CallRejects(c) \/ (Step(c) /\ ~SaveSession(c))
      PROVE  session' = session
  BY <1>3 DEF Call, Step, CallRejects, Load, SaveLock, GeneratePdf, StorePdf, SaveBundle, SendAnchor,
              Receipt, SaveAnchorError, SaveSealed, LoadSession
<1>4. ASSUME NEW l \in Lockers, LoadSessionToLock(l) \/ LockReport(l)
      PROVE  session' = session
  BY <1>4 DEF LoadSessionToLock, LockReport, server
<1>5. CASE Mine \/ Crash \/ UNCHANGED vars \/ \E u \in Uploads : SaveUpload(u)
  BY <1>5 DEF Mine, Crash, SaveUpload, vars, server
<1> QED
  BY <1>1, <1>2, <1>3, <1>4, <1>5 DEF Next, Lock

(* Behind an open report the attempts are refused.                          *)
LEMMA OpenIsQuiet ==
  ASSUME TypeOK, LockingInv, [Next]_vars,
         report.status \notin LOCKED_STATUSES, report'.status \notin LOCKED_STATUSES
  PROVE  /\ \A c \in Callers : pc'[c] \in {"idle", "load"}
         /\ \A l \in Lockers : locker'[l] # "session"
<1>1. \A c \in Callers : pc[c] \in {"idle", "load"}
  BY DEF LockingInv
<1>2. \A l \in Lockers : locker[l] # "session"
  BY DEF LockingInv
<1>3. /\ pc \in [Callers -> {"idle"} \cup PipelineSteps]
      /\ locker \in [Lockers -> {"load", "report", "session", "done"}]
  BY DEF TypeOK, RequestsOK, EnvironmentOK
<1>4. ASSUME NEW c \in Callers, Call(c) \/ Step(c) \/ CallRejects(c)
      PROVE  (\A d \in Callers : pc'[d] \in {"idle", "load"}) /\ UNCHANGED locker
  <2>1. CASE Call(c)
    BY <1>1, <1>3, <2>1 DEF Call, environment
  <2>2. CASE Load(c)
    BY <1>1, <1>3, <2>2 DEF Load, Finish, Goto, environment, LOCKED_STATUSES
  <2>3. CASE CallRejects(c)
    BY <1>1, <1>3, <2>3 DEF CallRejects, Finish, Goto
  <2>4. ~(SaveLock(c) \/ GeneratePdf(c) \/ StorePdf(c) \/ SaveBundle(c) \/ SendAnchor(c) \/ Receipt(c)
          \/ SaveAnchorError(c) \/ SaveSealed(c) \/ LoadSession(c) \/ SaveSession(c))
    BY <1>1 DEF SaveLock, GeneratePdf, StorePdf, SaveBundle, SendAnchor, Receipt, SaveAnchorError,
                SaveSealed, LoadSession, SaveSession
  <2> QED
    BY <1>4, <2>1, <2>2, <2>3, <2>4 DEF Step
<1>5. ASSUME NEW l \in Lockers, Lock(l)
      PROVE  (\A m \in Lockers : locker'[m] # "session") /\ UNCHANGED pc
  <2>1. CASE LoadSessionToLock(l)
    BY <1>2, <1>3, <2>1 DEF LoadSessionToLock, caller
  <2>2. ~LockReport(l)
    BY DEF TypeOK, StoredOK, Report, LockReport, LOCKED_STATUSES
  <2>3. ~LockSession(l)
    BY <1>2 DEF LockSession
  <2> QED
    BY <1>5, <2>1, <2>2, <2>3 DEF Lock
<1>6. CASE Mine \/ UNCHANGED vars \/ \E u \in Uploads : SaveUpload(u)
  BY <1>1, <1>2, <1>6 DEF Mine, SaveUpload, vars, caller, environment
<1>7. CASE Crash
  BY <1>7 DEF Crash
<1> QED
  BY <1>1, <1>2, <1>4, <1>5, <1>6, <1>7 DEF Next

LEMMA NextLocking == TypeOK /\ LockingInv /\ [Next]_vars => LockingInv' /\ LockingStep
<1> SUFFICES ASSUME TypeOK, LockingInv, [Next]_vars PROVE LockingInv' /\ LockingStep
  OBVIOUS
<1>1. report'.status \in LOCKED_STATUSES \/ report'.status = report.status
  BY StatusWritten
<1>2. \/ session' = session
      \/ session' \in LOCKED_STATUSES /\ report.status \in LOCKED_STATUSES /\ UNCHANGED report
  BY SessionWritten
<1>3. LockingInv'
  BY <1>1, <1>2, OpenIsQuiet DEF LockingInv
<1> SUFFICES LockingStep
  BY <1>3
<1>4. CASE session' = session
  <2>1. CASE report.status \in LOCKED_STATUSES
    <3>1. report'.status \in LOCKED_STATUSES
      BY <1>1, <2>1
    <3> QED
      BY <1>4, <2>1, <3>1 DEF LockingStep, Locking!lock
  <2>2. CASE report.status \notin LOCKED_STATUSES /\ report'.status \in LOCKED_STATUSES
    BY <1>4, <2>2 DEF LockingStep, Locking!Next, Locking!Lock
  <2>3. CASE report.status \notin LOCKED_STATUSES /\ report'.status \notin LOCKED_STATUSES
    BY <1>4, <2>3 DEF LockingStep, Locking!lock
  <2> QED
    BY <2>1, <2>2, <2>3
<1>5. CASE session' # session
  <2>1. session' \in LOCKED_STATUSES /\ report.status \in LOCKED_STATUSES /\ UNCHANGED report
    BY <1>2, <1>5
  <2>2. CASE session \in LOCKED_STATUSES
    BY <2>1, <2>2 DEF LockingStep, Locking!lock
  <2>3. CASE session \notin LOCKED_STATUSES
    BY <2>1, <2>3 DEF LockingStep, Locking!Next, Locking!LockSession
  <2> QED
    BY <2>2, <2>3
<1> QED
  BY <1>4, <1>5

(* No attempt, and no run of maybeLockReport however late, ever opens the   *)
(* report or its session again, and the session locks after the report:     *)
(* guards that have once refused a patch or an upload go on refusing.       *)
THEOREM PipelineKeepsLocked == Spec => Locking!Spec
<1>1. Init => LockingInv /\ Locking!Init
  BY DEF Init, Unlocked, LockingInv, Locking!Init, LOCKED_STATUSES
<1>2. TypeOK /\ LockingInv /\ [Next]_vars => LockingInv' /\ [Locking!Next]_(Locking!lock)
  BY NextLocking DEF LockingStep
<1> QED
  BY <1>1, <1>2, TypeCorrectness, PTL DEF Spec, Locking!Spec

=============================================================================
