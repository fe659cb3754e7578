---------------------------- MODULE Verification ----------------------------
(***************************************************************************)
(* GET /api/reports/:id/verify (services/verify.service.js) on a report    *)
(* that lives through module Evidence: a verification reads the report,    *)
(* the PDF, the attachments and the chain one awaited call after the other *)
(* and may start at any moment, in particular while scripts/tamper.js is   *)
(* replacing a file (storage.service.js, overwriteFile).                   *)
(*                                                                         *)
(* Verifications only read and do not see each other: following one is     *)
(* enough.                                                                 *)
(***************************************************************************)
EXTENDS Evidence

CONSTANTS Overwritten,   \* the bytes scripts/tamper.js writes
          MaxOverwrites  \* bound: the files it replaces

ASSUME OverwriteAssumption == /\ MaxOverwrites \in Nat
                              /\ Overwritten \notin Files \cup {None}

VARIABLES check,       \* the verification
          script,      \* the run of scripts/tamper.js
          hashed,      \* the bytes the pipeline last hashed of each file
          overwritten, \* ghost: the files the script has deleted so far
          away         \* ghost: did the pipeline look for one that the script had deleted?

tampering == <<script, overwritten>>
hashing == <<hashed, away>>
verifyVars == <<vars, check, tampering, hashing>>

Verdicts == {"none", "VERIFIED", "TAMPERED", "NOT_ANCHORED"}

Bytes == Files \cup {Overwritten}

Check == [step : {"idle", "pdf", "attachments", "done"},
          unread : SUBSET Attachments,        \* entries of attachmentHashes not hashed yet
          pdf : {Pdf, Overwritten, None},     \* the recomputed hashes
          bundle : SUBSET (Attachments \X Bytes),
          verdict : Verdicts,
          damaged : SUBSET Files,  \* ghost: files damaged ever since it began
          reliable : BOOLEAN]      \* ghost: no call of it has failed

Script == [step : {"idle", "delete", "upload"},
           file : Files \cup {None},
           bytes : {Pdf, Overwritten}]

Idle == [step |-> "idle", file |-> None, bytes |-> Overwritten]

VerifyInit ==
  /\ Init
  /\ check = [step |-> "idle", unread |-> {}, pdf |-> None, bundle |-> {},
              verdict |-> "none", damaged |-> {}, reliable |-> TRUE]
  /\ script = Idle
  /\ hashed = [f \in Files |-> f]
  /\ overwritten = {}
  /\ away = FALSE

(* A step of module Evidence.  What is collected of a file is the hash of    *)
(* the bytes it then has; module Evidence, which keeps the entry, may assign *)
(* the list or not when only such a hash is new in it.                       *)
EvidenceStep ==
  /\ Next
  /\ hashed' = [f \in Files |-> IF f \in collected' \ collected THEN blobs[f] ELSE hashed[f]]
  /\ away' = (away \/ (/\ attempt' = "collect" /\ script.step = "upload"
                       /\ script.file \in unread \ unread'))
  /\ UNCHANGED <<check, tampering>>

-----------------------------------------------------------------------------
(* The files the seal covers. *)
Covered == {Pdf} \cup (IF record = None THEN {} ELSE record)

(* Those with other bytes than were hashed, or none, and the files of which  *)
(* the seal knows nothing that the script has replaced.                      *)
Damaged == {f \in Files : IF f \in Covered THEN blobs[f] # hashed[f]
                                           ELSE f \in overwritten /\ blobs[f] # None}

(* Mutant: what the report lists is recomputed, not what was hashed. *)
LoadListed ==
  /\ check.step = "idle"
  /\ check' = IF report.status # "sealed"
                THEN [check EXCEPT !.step = "done", !.verdict = "NOT_ANCHORED"]
                ELSE [check EXCEPT !.step = "pdf", !.unread = Listed(report),
                                   !.damaged = Damaged]
  /\ UNCHANGED <<vars, tampering, hashing>>

(* The report is loaded.  chain.txHash is saved together with the sealed    *)
(* status; without it the chain is not asked and the verdict is known.      *)
LoadToVerify ==
  /\ check.step = "idle"
  /\ check' = IF report.status # "sealed"
                THEN [check EXCEPT !.step = "done", !.verdict = "NOT_ANCHORED"]
                ELSE [check EXCEPT !.step = "pdf", !.unread = report.hashes,
                                   !.damaged = Damaged]
  /\ UNCHANGED <<vars, tampering, hashing>>

(* Mutant: a file that cannot be read counts with the hash it is stored with. *)
RecomputeTrusting(f, hash, failed) ==
  \/ ~failed /\ hash = IF blobs[f] = None THEN f ELSE blobs[f]
  \/ failed /\ hash = f

(* recomputeFileHash: null for whatever getFileBuffer throws, a file that is *)
(* missing and a read that fails alike.                                      *)
Recompute(f, hash, failed) ==
  \/ ~failed /\ hash = blobs[f]
  \/ failed /\ hash = None

(* A call of the verification fails, within the bound, or does not. *)
Failing(failed) == IF failed THEN failures < MaxFailures /\ failures' = failures + 1
                             ELSE UNCHANGED failures

unverified == <<report, blobs, record, requests, pipeline, ghosts>>

(* Steps 1 and 2: the hash of the PDF. *)
VerifyPdf ==
  /\ check.step = "pdf"
  /\ \E failed \in BOOLEAN, hash \in {Pdf, Overwritten, None} :
       /\ Failing(failed)
       /\ Recompute(Pdf, hash, failed)
       /\ check' = [check EXCEPT !.step = "attachments", !.pdf = hash,
                                 !.reliable = @ /\ ~failed]
  /\ UNCHANGED <<unverified, tampering, hashing>>

(* Mutant: a file that could not be read adds its null. *)
VerifyAttachmentNull(f) ==
  /\ check.step = "attachments"
  /\ f \in check.unread
  /\ \E failed \in BOOLEAN, hash \in {f, Overwritten, None} :
       /\ Failing(failed)
       /\ Recompute(f, hash, failed)
       /\ check' = [check EXCEPT !.unread = @ \ {f}, !.bundle = @ \cup {<<f, hash>>},
                                 !.reliable = @ /\ ~failed]
  /\ UNCHANGED <<unverified, tampering, hashing>>

(* Step 4: the attachments are read concurrently, each at its own time; one  *)
(* that is null is folded as "" into the string that is hashed: it adds      *)
(* nothing.                                                                  *)
VerifyAttachment(f) ==
  /\ check.step = "attachments"
  /\ f \in check.unread
  /\ \E failed \in BOOLEAN, hash \in {f, Overwritten, None} :
       /\ Failing(failed)
       /\ Recompute(f, hash, failed)
       /\ check' = [check EXCEPT !.unread = @ \ {f},
                                 !.bundle = IF hash = None THEN @ ELSE @ \cup {<<f, hash>>},
                                 !.reliable = @ /\ ~failed]
  /\ UNCHANGED <<unverified, tampering, hashing>>

(* computeBundleHash sorts the hashes, whichever files they are of: the same *)
(* ones, each as often.                                                      *)
SameHashes(es, fs) ==
  \A h \in Bytes : Cardinality({e \in es : e[2] = h}) = Cardinality({e \in fs : e[2] = h})

(* Mutant: only the PDF is compared. *)
CompareOnlyPdf(onChain) ==
  IF onChain = None THEN "NOT_ANCHORED"
  ELSE IF check.pdf = Pdf THEN "VERIFIED" ELSE "TAMPERED"

(* Every generated PDF differs from the others: the one stored is Pdf, and   *)
(* so is the hash in the contract.                                           *)
Compare(onChain) ==
  IF onChain = None THEN "NOT_ANCHORED"
  ELSE IF check.pdf = Pdf /\ SameHashes(check.bundle, {<<f, hashed[f]>> : f \in onChain})
       THEN "VERIFIED" ELSE "TAMPERED"

(* Step 3 and the verdict.  getOnChainRecord answers null for a call that    *)
(* fails as it does for a report without an entry.                           *)
ReadChain ==
  /\ check.step = "attachments"
  /\ check.unread = {}
  /\ \E failed \in BOOLEAN :
       /\ Failing(failed)
       /\ check' = [check EXCEPT !.step = "done", !.reliable = @ /\ ~failed,
                                 !.verdict = Compare(IF failed THEN None ELSE record)]
  /\ UNCHANGED <<unverified, tampering, hashing>>

-----------------------------------------------------------------------------
(* scripts/tamper.js, on a report in any status.  It replaces the first      *)
(* photo the report lists by another image, or flips a byte of the PDF the   *)
(* report names, which it reads: flipping it twice restores the PDF.         *)
TamperLoads(f) ==
  /\ script.step = "idle"
  /\ Cardinality(overwritten \cup {f}) <= MaxOverwrites
  /\ \E bytes \in {Pdf, Overwritten} :
       /\ \/ f \in report.photos /\ bytes = Overwritten
          \/ f = Pdf /\ report.bundle # None /\ blobs[f] \notin {bytes, None}
       /\ script' = [step |-> "delete", file |-> f, bytes |-> bytes]
  /\ UNCHANGED <<vars, check, hashing, overwritten>>

unfiled == <<report, record, requests, pipeline, ghosts, failures>>

(* overwriteFile deletes the file, which throws if it is missing, ...        *)
TamperDeletes ==
  /\ script.step = "delete"
  /\ IF blobs[script.file] = None
       THEN script' = Idle /\ UNCHANGED <<blobs, overwritten>>
       ELSE /\ script' = [script EXCEPT !.step = "upload"]
            /\ blobs' = [blobs EXCEPT ![script.file] = None]
            /\ overwritten' = overwritten \cup {script.file}
  /\ UNCHANGED <<unfiled, check, hashing>>

(* ... and uploads it again under the same id.                               *)
TamperUploads ==
  /\ script.step = "upload"
  /\ blobs' = [blobs EXCEPT ![script.file] = script.bytes]
  /\ script' = Idle
  /\ check' = IF script.file \in Covered /\ script.bytes = hashed[script.file]
                THEN [check EXCEPT !.damaged = @ \ {script.file}]
                ELSE check
  /\ UNCHANGED <<unfiled, hashing, overwritten>>

(* A call of the script rejects, or it is interrupted. *)
TamperFails ==
  /\ script.step # "idle"
  /\ failures < MaxFailures
  /\ failures' = failures + 1
  /\ script' = Idle
  /\ UNCHANGED <<unverified, check, hashing, overwritten>>

VerifyNext ==
  \/ EvidenceStep
  \/ LoadToVerify \/ VerifyPdf \/ ReadChain
  \/ \E f \in Attachments : VerifyAttachment(f)
  \/ \E f \in Files : TamperLoads(f)
  \/ TamperDeletes \/ TamperUploads \/ TamperFails

VerifySpec == VerifyInit /\ [][VerifyNext]_verifyVars

-----------------------------------------------------------------------------
VerifyTypeOK ==
  /\ check \in Check
  /\ script \in Script
  /\ hashed \in [Files -> Bytes]
  /\ overwritten \subseteq Files
  /\ away \in BOOLEAN
  /\ blobs \in [Files -> Bytes \cup {None}]

(* VERIFIED is said only of a report whose anchored files held the bytes that *)
(* were anchored, when the verification began or, put back, since: no failing *)
(* read and no replacement in progress makes a damaged file pass.  Only bytes *)
(* that were replaced before they were anchored, which any other replaced     *)
(* photo has too, may be counted for it, if a request outlived the lock.      *)
VerifiedWasIntact ==
  check.verdict = "VERIFIED" =>
    \A f \in check.damaged \cap Covered : late /\ hashed[f] = Overwritten

(* Whoever replaces a photo the report lists, or the PDF, once the pipeline   *)
(* has hashed it is found out: if the pipeline could read what was stored,    *)
(* found no photo in the hands of the script and nothing outlived the lock,   *)
(* no later verification says VERIFIED.  (A photo replaced before that is     *)
(* anchored as it then is.)                                                   *)
ReplacedIsNotVerified ==
  check.verdict = "VERIFIED" /\ ~late /\ ~skipped /\ ~away =>
    check.damaged \cap (report.photos \cup {Pdf}) = {}

(* A verification of a sealed report says VERIFIED unless something outlived  *)
(* the lock, somebody replaced a file, or one of its own calls failed.        *)
SealedVerifies ==
  check.step = "done" /\ check.pdf # None /\ ~late /\ overwritten = {} /\ check.reliable =>
    check.verdict = "VERIFIED"

(* TAMPERED is said only of a report somebody tampered with, if every call of *)
(* the verification succeeds (verify.test.js: 'verdicts VERIFIED for an       *)
(* untouched sealed report').                                                 *)
UntamperedVerifies == check.verdict = "TAMPERED" /\ check.reliable => overwritten # {}

(* VERIFIED is never said of a report with a photo somebody has replaced, if  *)
(* it was not in the hands of the script, or replaced already, when it was    *)
(* anchored (scripts/tamper.js: 'expect verdict: TAMPERED').                  *)
ReplacedIsTampered ==
  check.verdict = "VERIFIED" /\ ~away => check.damaged \cap report.photos = {}

=============================================================================
