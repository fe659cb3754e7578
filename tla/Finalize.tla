------------------------------ MODULE Finalize ------------------------------
(***************************************************************************)
(* The finalize pipeline of one report (services/finalize.service.js) with *)
(* the registry contract it anchors to.                                    *)
(*                                                                         *)
(* Node runs JavaScript on one thread, so the code between two awaits is   *)
(* atomic; every awaited call is a step of its own, after which any other  *)
(* request may run.  A caller is a client of POST /api/reports/:id/finalize*)
(* and may call again whenever its previous call has been answered.        *)
(*                                                                         *)
(* Two kinds of request that began before the report was locked may still  *)
(* be running and hold a stale copy of it: Lockers, runs of                *)
(* maybeLockReport, and Uploads, requests past requireUnsealedReport whose *)
(* body is still being received.                                           *)
(***************************************************************************)
EXTENDS Integers, Sequences, ReportStatus

CONSTANTS Callers,      \* clients that may ask for the report to be finalized
          Lockers,      \* runs of maybeLockReport that saw both parties signed
          Uploads,      \* uploads admitted while the report was still open
          MaxFaults,    \* bound: awaited calls that may reject
          MaxCrashes    \* bound: restarts of the server process

ASSUME BoundsAssumption == MaxFaults \in Nat /\ MaxCrashes \in Nat

VARIABLES report,    \* the Report document, as stored in MongoDB
          session,   \* status of the Session document
          files,     \* the PDFs stored in GridFS
          record,    \* the registry contract's entry for the report
          txs,       \* anchor transactions the chain accepted, in nonce order
          inFlight,  \* finalize.service.js: is the report in _inFlight?
          pc,        \* the next awaited call of each caller's request
          doc,       \* the Report document as each request holds it in memory
          draft,     \* the PDF each request generated
          tx,        \* the transaction each request waits for
          answer,    \* the last HTTP answer of each caller
          locker,    \* the next awaited call of each run of maybeLockReport
          seen,      \* the session status each of those runs loaded
          uploading, \* the uploads not yet saved
          pdfs,      \* PDFs generated so far (a PDF is known by its number)
          faults, crashes

memory == <<doc, draft, tx>>
caller == <<pc, memory, answer>>
server == <<report, session, files, inFlight>>
blockchain == <<record, txs>>
environment == <<locker, seen, uploading, faults, crashes>>
vars == <<server, blockchain, caller, environment, pdfs>>

-----------------------------------------------------------------------------
(* What is anchored: a PDF hash and the hash over all attachments.  Every   *)
(* generated PDF differs from the others, so its number stands for its hash;*)
(* a bundle hash is known by the set of attachments it covers.  NoPayload   *)
(* stands for a null pdf.fileId and bundleHash, which are set together.     *)
Payload == [pdf : Nat \ {0}, bundle : SUBSET Uploads]
NoPayload == [pdf |-> 0, bundle |-> {}]

Report == [status : STATUSES,
           payload : Payload \cup {NoPayload},
           lastError : BOOLEAN,        \* chain.lastError is set
           anchored : BOOLEAN,         \* chain.txHash is set
           attachments : SUBSET Uploads, \* late arrivals, beyond those present from the start
           v : Nat]                    \* Mongoose's __v

Tx == [payload : Payload, outcome : {"pending", "mined", "reverted"}]

PipelineSteps == {"load", "lock", "pdf", "store", "bundle", "anchor", "receipt",
                  "anchorError", "seal", "loadSession", "sealSession"}
Answers == {"none", "sealed", "busy", "refused", "failed"}

Running(c) == pc[c] \in PipelineSteps

Unlocked == [status |-> "waiting", payload |-> NoPayload, lastError |-> FALSE,
             anchored |-> FALSE, attachments |-> {}, v |-> 0]

(* The locals of a request that has ended are gone. *)
Forget(c) == /\ doc' = [doc EXCEPT ![c] = Unlocked]
             /\ draft' = [draft EXCEPT ![c] = 0]
             /\ tx' = [tx EXCEPT ![c] = 0]

(* Mutant: a request that ends forgets to leave _inFlight. *)
FinishStillInFlight(c, a) == /\ pc' = [pc EXCEPT ![c] = "idle"]
                             /\ answer' = [answer EXCEPT ![c] = a]
                             /\ Forget(c)
                             /\ UNCHANGED inFlight

(* The `finally` block: whatever ended the request, the report leaves       *)
(* _inFlight and the caller is answered.                                    *)
Finish(c, a) == /\ pc' = [pc EXCEPT ![c] = "idle"]
                /\ answer' = [answer EXCEPT ![c] = a]
                /\ Forget(c)
                /\ inFlight' = FALSE

Goto(c, step) == /\ pc' = [pc EXCEPT ![c] = step]
                 /\ UNCHANGED <<answer, inFlight>>

(* A report both parties have signed, about to be locked. *)
Init ==
  /\ report = Unlocked
  /\ session = "joined"
  /\ files = {}
  /\ record = NoPayload
  /\ txs = <<>>
  /\ inFlight = FALSE
  /\ pc = [c \in Callers |-> "idle"]
  /\ doc = [c \in Callers |-> Unlocked]
  /\ draft = [c \in Callers |-> 0]
  /\ tx = [c \in Callers |-> 0]
  /\ answer = [c \in Callers |-> "none"]
  /\ locker = [l \in Lockers |-> "load"]
  /\ seen = [l \in Lockers |-> "joined"]
  /\ uploading = Uploads
  /\ pdfs = 0
  /\ faults = 0
  /\ crashes = 0

-----------------------------------------------------------------------------
(* Mutant: no in-flight guard. *)
CallUnguarded(c) ==
  /\ pc[c] = "idle"
  /\ inFlight' = TRUE
  /\ pc' = [pc EXCEPT ![c] = "load"]
  /\ answer' = [answer EXCEPT ![c] = "none"]
  /\ UNCHANGED <<report, session, files, blockchain, memory, environment, pdfs>>

(* A request arrives: the loser of two concurrent calls is answered 202 and *)
(* touches nothing; the winner starts loading the report.                   *)
Call(c) ==
  /\ pc[c] = "idle"
  /\ IF inFlight
       THEN /\ answer' = [answer EXCEPT ![c] = "busy"]
            /\ UNCHANGED <<pc, inFlight>>
       ELSE /\ inFlight' = TRUE
            /\ pc' = [pc EXCEPT ![c] = "load"]
            /\ answer' = [answer EXCEPT ![c] = "none"]
  /\ UNCHANGED <<report, session, files, blockchain, memory, environment, pdfs>>

(* Mutant: every attempt runs the full pipeline. *)
IsNeverRetry(r) == FALSE

IsAnchorRetry(r) == r.status = "finalizing" /\ r.payload # NoPayload

(* Mutant: only "signing" is eligible. *)
LoadSigningOnly(c) ==
  /\ pc[c] = "load"
  /\ \/ report.status = "sealed" /\ Finish(c, "sealed")
     \/ report.status \notin {"signing", "sealed"} /\ Finish(c, "refused")
     \/ /\ report.status = "signing"
        /\ Goto(c, "lock")
        /\ doc' = [doc EXCEPT ![c] = report]
        /\ UNCHANGED <<draft, tx>>
  /\ UNCHANGED <<report, session, files, blockchain, environment, pdfs>>

(* Report.findById, and the choice between a no-op, a refusal, the full     *)
(* pipeline and a retry of the anchoring alone.  The other two refusals     *)
(* cannot happen here: no code deletes a report, and both parties have      *)
(* signed before Init and nothing unsigns them.                             *)
Load(c) ==
  /\ pc[c] = "load"
  /\ \/ report.status = "sealed" /\ Finish(c, "sealed")
     \/ report.status \notin LOCKED_STATUSES /\ Finish(c, "refused")
     \/ /\ report.status \in {"signing", "finalizing"}
        /\ IF IsAnchorRetry(report) THEN Goto(c, "anchor") ELSE Goto(c, "lock")
        /\ doc' = [doc EXCEPT ![c] = report]
        /\ UNCHANGED <<draft, tx>>
  /\ UNCHANGED <<report, session, files, blockchain, environment, pdfs>>

(* Step 2: status "finalizing" is saved before anything is generated. *)
SaveLock(c) ==
  /\ pc[c] = "lock"
  /\ LET locked(r) == [r EXCEPT !.status = "finalizing", !.lastError = FALSE]
     IN  /\ report' = IF doc[c].status = "finalizing"   \* not dirty: not sent
                        THEN [report EXCEPT !.lastError = FALSE]
                        ELSE locked(report)
         /\ doc' = [doc EXCEPT ![c] = locked(doc[c])]
  /\ Goto(c, "pdf")
  /\ UNCHANGED <<session, files, blockchain, draft, tx, environment, pdfs>>

(* Mutant: the hash of the generated PDF is not kept. *)
GeneratePdfUnhashed(c) ==
  /\ pc[c] = "pdf"
  /\ pdfs' = pdfs + 1
  /\ Goto(c, "store")
  /\ UNCHANGED <<report, session, files, blockchain, memory, environment>>

(* Steps 3 and 4: generate the PDF and hash it. *)
GeneratePdf(c) ==
  /\ pc[c] = "pdf"
  /\ pdfs' = pdfs + 1
  /\ draft' = [draft EXCEPT ![c] = pdfs + 1]
  /\ Goto(c, "store")
  /\ UNCHANGED <<report, session, files, blockchain, doc, tx, environment>>

(* Step 5: the PDF goes to GridFS. *)
StorePdf(c) ==
  /\ pc[c] = "store"
  /\ files' = files \cup {draft[c]}
  /\ Goto(c, "bundle")
  /\ UNCHANGED <<report, session, blockchain, memory, environment, pdfs>>

(* Steps 6 and 7: hash the attachments of the copy in memory and save the   *)
(* PDF and bundle hashes.  attachmentHashes is assigned as a whole: unless  *)
(* that assignment changes nothing, Mongoose makes the save conditional on  *)
(* the version it loaded, and increments it.                                *)
SaveBundle(c) ==
  /\ pc[c] = "bundle"
  /\ LET payload == [pdf |-> draft[c], bundle |-> doc[c].attachments]
     IN  \E reordered \in BOOLEAN :
           LET saved(r) == [r EXCEPT !.payload = payload,
                                     !.v = IF reordered THEN @ + 1 ELSE @]
           IN  IF reordered /\ report.v # doc[c].v
                 THEN Finish(c, "failed") /\ UNCHANGED report         \* VersionError
                 ELSE /\ report' = saved(report)
                      /\ doc' = [doc EXCEPT ![c] = saved(doc[c])]
                      /\ Goto(c, "anchor")
                      /\ UNCHANGED <<draft, tx>>
  /\ UNCHANGED <<session, files, blockchain, environment, pdfs>>

(* Mutant: the transaction is sent and its receipt not awaited. *)
SendAnchorUnawaited(c) ==
  /\ pc[c] = "anchor"
  /\ IF record # NoPayload
       THEN Goto(c, "anchorError") /\ UNCHANGED <<txs, tx>>
       ELSE /\ txs' = Append(txs, [payload |-> doc[c].payload, outcome |-> "pending"])
            /\ tx' = [tx EXCEPT ![c] = Len(txs) + 1]
            /\ Goto(c, "seal")
  /\ UNCHANGED <<report, session, files, record, doc, draft, environment, pdfs>>

(* Steps 8 and 9: send the anchor transaction.  The wallet estimates gas    *)
(* first, which reverts at once when the contract holds an entry.           *)
SendAnchor(c) ==
  /\ pc[c] = "anchor"
  /\ IF record # NoPayload
       THEN Goto(c, "anchorError") /\ UNCHANGED <<txs, tx>>
       ELSE /\ txs' = Append(txs, [payload |-> doc[c].payload, outcome |-> "pending"])
            /\ tx' = [tx EXCEPT ![c] = Len(txs) + 1]
            /\ Goto(c, "receipt")
  /\ UNCHANGED <<report, session, files, record, doc, draft, environment, pdfs>>

(* AccidentRegistry.anchor, executed when the transaction is mined: one     *)
(* account sends them all, so they are mined in nonce order.  No accepted   *)
(* transaction is dropped by the chain.                                     *)
Mine ==
  \E i \in 1..Len(txs) :
    /\ txs[i].outcome = "pending"
    /\ \A j \in 1..(i - 1) : txs[j].outcome # "pending"
    /\ IF record = NoPayload
         THEN record' = txs[i].payload /\ txs' = [txs EXCEPT ![i].outcome = "mined"]
         ELSE txs' = [txs EXCEPT ![i].outcome = "reverted"] /\ UNCHANGED record
    /\ UNCHANGED <<server, caller, environment, pdfs>>

(* tx.wait resolves with the receipt; the chain record and the sealed       *)
(* status are then set in memory.                                           *)
Receipt(c) ==
  /\ pc[c] = "receipt"
  /\ \/ txs[tx[c]].outcome = "mined" /\ Goto(c, "seal")
     \/ txs[tx[c]].outcome = "reverted" /\ Goto(c, "anchorError")
  /\ UNCHANGED <<report, session, files, blockchain, memory, environment, pdfs>>

(* Mutant: the anchor error is swallowed after being stored. *)
SaveAnchorErrorSwallowed(c) ==
  /\ pc[c] = "anchorError"
  /\ report' = [report EXCEPT !.lastError = TRUE]
  /\ Finish(c, "sealed")
  /\ UNCHANGED <<session, files, blockchain, environment, pdfs>>

(* The anchor call threw: its message is stored, the report stays           *)
(* "finalizing", and the caller gets ANCHOR_FAILED.                         *)
SaveAnchorError(c) ==
  /\ pc[c] = "anchorError"
  /\ report' = [report EXCEPT !.lastError = TRUE]
  /\ Finish(c, "failed")
  /\ UNCHANGED <<session, files, blockchain, environment, pdfs>>

(* Step 10: one save stores the chain record and seals the report. *)
SaveSealed(c) ==
  /\ pc[c] = "seal"
  /\ report' = [report EXCEPT !.status = "sealed", !.anchored = TRUE, !.lastError = FALSE]
  /\ Goto(c, "loadSession")
  /\ UNCHANGED <<session, files, blockchain, memory, environment, pdfs>>

(* The session follows: loaded, and saved unless it is sealed already. *)
LoadSession(c) ==
  /\ pc[c] = "loadSession"
  /\ IF session = "sealed" THEN Finish(c, "sealed")
                           ELSE Goto(c, "sealSession") /\ UNCHANGED memory
  /\ UNCHANGED <<report, session, files, blockchain, environment, pdfs>>

SaveSession(c) ==
  /\ pc[c] = "sealSession"
  /\ session' = "sealed"
  /\ Finish(c, "sealed")
  /\ UNCHANGED <<report, files, blockchain, environment, pdfs>>

(* An awaited call rejects.  A send or a wait that fails is an anchor       *)
(* failure even when the transaction is, or will be, mined; anything else   *)
(* leaves runFinalize through its finally block as a 500.                   *)
CallRejects(c) ==
  /\ Running(c)
  /\ faults < MaxFaults
  /\ faults' = faults + 1
  /\ IF pc[c] \in {"anchor", "receipt"} THEN Goto(c, "anchorError") /\ UNCHANGED memory
                                        ELSE Finish(c, "failed")
  /\ UNCHANGED <<report, session, files, blockchain, locker, seen, uploading, crashes, pdfs>>

-----------------------------------------------------------------------------
(* A request whose copy of the report predates the lock and sees both       *)
(* parties signed: it loads the session ...                                 *)
LoadSessionToLock(l) ==
  /\ locker[l] = "load"
  /\ seen' = [seen EXCEPT ![l] = session]
  /\ locker' = [locker EXCEPT ![l] = "report"]
  /\ UNCHANGED <<server, blockchain, caller, uploading, faults, crashes, pdfs>>

(* ... and runs maybeLockReport, whose LOCKED_STATUSES check passes on that *)
(* copy: the report is saved first,                                         *)
LockReport(l) ==
  /\ locker[l] = "report"
  /\ report' = [report EXCEPT !.status = "signing"]
  /\ locker' = [locker EXCEPT ![l] = IF seen[l] = "signing" THEN "done" ELSE "session"]
  /\ UNCHANGED <<session, files, inFlight, blockchain, caller, seen, uploading, faults, crashes, pdfs>>

(* then the session, if it was not seen locked. *)
LockSession(l) ==
  /\ locker[l] = "session"
  /\ session' = "signing"
  /\ locker' = [locker EXCEPT ![l] = "done"]
  /\ UNCHANGED <<report, files, inFlight, blockchain, caller, seen, uploading, faults, crashes, pdfs>>

Lock(l) == LoadSessionToLock(l) \/ LockReport(l) \/ LockSession(l)

(* POST photos (or a first sketch), admitted before the lock: report.save() *)
(* pushes the attachment with no condition on status or version.  Requests  *)
(* that take an attachment away are not among Uploads.                      *)
SaveUpload(u) ==
  /\ u \in uploading
  /\ report' = [report EXCEPT !.attachments = @ \cup {u}, !.v = @ + 1]
  /\ uploading' = uploading \ {u}
  /\ UNCHANGED <<session, files, inFlight, blockchain, caller, locker, seen, faults, crashes, pdfs>>

(* The server process restarts: every request is lost with _inFlight.  What *)
(* was sent to the chain stays sent.                                        *)
Crash ==
  /\ crashes < MaxCrashes
  /\ crashes' = crashes + 1
  /\ inFlight' = FALSE
  /\ pc' = [c \in Callers |-> "idle"]
  /\ answer' = [c \in Callers |-> IF Running(c) THEN "failed" ELSE answer[c]]
  /\ doc' = [c \in Callers |-> Unlocked]
  /\ draft' = [c \in Callers |-> 0]
  /\ tx' = [c \in Callers |-> 0]
  /\ locker' = [l \in Lockers |-> "done"]
  /\ uploading' = {}
  /\ UNCHANGED <<report, session, files, blockchain, seen, faults, pdfs>>

(* One step of the request that is running for caller c. *)
Step(c) == \/ Load(c) \/ SaveLock(c) \/ GeneratePdf(c) \/ StorePdf(c) \/ SaveBundle(c)
           \/ SendAnchor(c) \/ Receipt(c) \/ SaveAnchorError(c)
           \/ SaveSealed(c) \/ LoadSession(c) \/ SaveSession(c)

Next == \/ \E c \in Callers : Call(c) \/ Step(c) \/ CallRejects(c)
        \/ \E l \in Lockers : Lock(l)
        \/ \E u \in Uploads : SaveUpload(u)
        \/ Mine
        \/ Crash

Spec == Init /\ [][Next]_vars

(* The event loop keeps serving a started request, and the chain keeps      *)
(* mining.                                                                  *)
Served == /\ \A c \in Callers : WF_vars(Step(c))
          /\ \A l \in Lockers : WF_vars(Lock(l))
          /\ WF_vars(Mine)

FairSpec == Spec /\ Served

(* Moreover somebody calls again as long as the report is not sealed. *)
Retried == \A c \in Callers : WF_vars(report.status # "sealed" /\ Call(c))

RetrySpec == FairSpec /\ Retried

-----------------------------------------------------------------------------
StoredOK == /\ report \in Report
            /\ session \in STATUSES
            /\ files \subseteq Nat
            /\ record \in Payload \cup {NoPayload}
            /\ txs \in Seq(Tx)
            /\ pdfs \in Nat

RequestsOK == /\ inFlight \in BOOLEAN
              /\ pc \in [Callers -> PipelineSteps \cup {"idle"}]
              /\ answer \in [Callers -> Answers]

MemoryOK == /\ doc \in [Callers -> Report]
            /\ draft \in [Callers -> Nat]
            /\ tx \in [Callers -> Nat]

EnvironmentOK == /\ locker \in [Lockers -> {"load", "report", "session", "done"}]
                 /\ seen \in [Lockers -> STATUSES]
                 /\ uploading \subseteq Uploads
                 /\ faults \in Nat
                 /\ crashes \in Nat

TypeOK == StoredOK /\ RequestsOK /\ MemoryOK /\ EnvironmentOK

(* A sealed report's stored PDF and bundle hashes are the ones the contract *)
(* holds: whatever fails, restarts or is late, verification has something   *)
(* true to compare with.                                                    *)
SealedMatchesChain ==
  report.status = "sealed" => /\ report.payload # NoPayload
                              /\ record = report.payload

(* Nothing is ever sent to the chain before it is durable: the hashes of    *)
(* every transaction, mined or not, are those in the database, and the PDF  *)
(* is in GridFS, so a retry after a crash can only anchor the same thing.   *)
AnchoredIsStored ==
  \A i \in 1..Len(txs) : /\ txs[i].payload = report.payload
                         /\ txs[i].payload.pdf \in files

(* A caller told that the report is sealed has been told the truth. *)
AnswerIsTrue ==
  \A c \in Callers : answer[c] = "sealed" => report.status = "sealed" /\ report.anchored

(* finally: no attempt, failed or not, leaves the report in _inFlight, where *)
(* it would refuse every later attempt with 202.                            *)
PipelineEnds == inFlight ~> ~inFlight

(* Called again and again, the pipeline gets a locked report's hashes on    *)
(* the chain, whatever call failed and wherever the server restarted.       *)
LockedIsAnchored == report.status = "signing" ~> record # NoPayload

(* Called again and again, the pipeline seals a locked report.              *)
LockedIsSealed == report.status = "signing" ~> report.status = "sealed"

(* The pipeline implements the abstract life cycle of a sealed report. *)
Life == INSTANCE SealedReport WITH None <- NoPayload,
                                   stored <- report.payload,
                                   anchored <- record,
                                   sealed <- report.status = "sealed"

ImplementsLife == Life!Spec

=============================================================================
