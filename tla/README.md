# Evropski izveštaj: a TLA+ verification of the joint accident report

Two drivers fill one European accident report on two phones, confirm it, sign
it, and have it sealed: a PDF is generated, everything is hashed, and the hashes
are anchored in an Ethereum contract, so that anybody can later verify that the
report is the one that was signed. This directory holds TLA+ models of the code
that makes this promise, the TLC runs that check them, and TLAPS proofs of the
results that matter most.

Contents: [the system](#1-the-system), [the plan](#2-the-plan),
[the modules](#3-modules-and-code), [the runs](#4-runs),
[findings](#5-what-the-runs-found), [proofs](#6-proofs),
[assumptions and limits](#7-assumptions-and-what-is-left-out).

## 1. The system

All paths below are under `src/`; `backend/src/` is abbreviated to `b/` and
`mobile/lib/` to `m/`.

### 1.1 Components

| component | code | state it keeps | operations |
|---|---|---|---|
| Report document | `b/models/Report.js`, `b/models/statuses.js` | one MongoDB document per accident: status (waiting, joined, signing, finalizing, sealed), `partyA`/`partyB` (form fields, `confirmedReview`, `signature`), `photos`, `sketch`, `attachmentHashes`, `pdf`, `bundleHash`, `chain`, Mongoose's `__v` | read and written by everything below |
| Session document | `b/models/Session.js`, `b/routes/sessions.js`, `b/services/session-code.service.js` | code, status, report id, expiry (TTL index) | create, join by code, look up |
| Socket handlers | `b/sockets/session.socket.js` | rooms; `socket.data` | `session:join`, `report:patch`, `party:ready` |
| Report mutex | `b/services/report-mutex.service.js` | `_queues`: one promise chain per report, in memory | `withReportLock` |
| Report guard | `b/services/report-guard.service.js` | none | `assertReportNotSealed`, `requireUnsealedReport` |
| Report lock | `b/services/report-lock.service.js` | none | `partySignedOff`, `maybeLockReport`: saves the report, then the session |
| Uploads | `b/routes/uploads.js` | none | POST and DELETE photos, POST sketch, POST signature |
| GridFS storage | `b/services/storage.service.js` | files in MongoDB | store, read, delete, overwrite |
| Finalize pipeline | `b/services/finalize.service.js`, `b/routes/reports.js` | `_inFlight`: the reports being finalized, in memory | `runFinalize`: ten steps, retry of the anchoring alone |
| Hashes and PDF | `b/services/hash.service.js`, `b/services/pdf.service.js` | none | SHA-256, bundle hash, PDF of a report |
| Chain service, contract | `b/services/chain.service.js`, `blockchain/contracts/AccidentRegistry.sol` | the contract's write-once map from report id to hashes; the wallet's nonce | `anchorReport`, `getRecord` |
| Verification, tamper script | `b/services/verify.service.js`, `backend/scripts/tamper.js` | none | verdict; overwrite a stored file |
| Mobile session state | `m/state/session_controller.dart`, `m/services/socket_client.dart`, `m/models/` | the phone's copy of the report, of the session and of the finalize progress | apply snapshots, patches, lock, progress and seal events; reconnect |
| Mobile flow | `m/screens/` | step of the wizard, uploads under way, finalize attempts | create, join, fill, confirm, sign, finalize, retry |
| Mobile forms, sketch | `m/widgets/patch_text_field.dart`, `m/screens/steps/` | debounce timers, the sketch's strokes | send patches; draw, undo |
| Mobile API client | `m/services/api_client.dart` | none | HTTP with timeouts |

### 1.2 How they interact

A phone talks to the server by HTTP (sessions, uploads, finalize, verify) and by
a socket (patches, presence; the server broadcasts patches, status, progress and
the seal to the session's room). All requests share the two documents. There is
one server process, and JavaScript between two `await`s is atomic, so the
interleavings that exist are those of awaited calls: every model below makes
each awaited call a step.

Four facts about shared state shape everything:

* A request works on the copy of the report it loaded. Mongoose's `save()`
  sends only what the request changed; a push to an array increments `__v`
  unconditionally; assigning an array makes the save conditional on the `__v`
  loaded (VersionError otherwise); setting a field of a subdocument the copy does
  not have yet sends the whole subdocument.
* `report:patch` is serialized per report by `withReportLock`; the upload routes
  and finalize are not.
* `requireUnsealedReport` looks at the status once, before the request's body is
  received.
* `maybeLockReport` decides on the copy its caller passes in.

### 1.3 What is hard, and what makes each part correct

| part | hard behaviour | correct when |
|---|---|---|
| Finalize | two phones call at once; any awaited call rejects; the process dies between any two steps; the receipt is lost although the transaction is mined | one attempt at a time; nothing is anchored before it is durable; a sealed report is the anchored one; answers are true; every attempt leaves `_inFlight`; repeated calls get the hashes on the chain |
| Sign-off | patches, signatures and `maybeLockReport` interleave, with stale copies | no saved patch is lost; a locked report has both sign-offs; both sign-offs lock it; the session never locks before the report; the promise chain always moves on; a signed-off part does not change |
| Evidence | uploads, DELETE and finalize interleave on unserialized copies; files are deleted before the save that drops them; uploads outlive the lock | accepted photos stay; everything listed is hashed; what is sealed is intact, covers what is listed and is what the PDF shows |
| Verification | it reads the report, each file and the chain at different moments, while a file is being replaced; a file may be replaced before, while or after the pipeline hashes it; any read fails | VERIFIED is never said of files that no longer are what was anchored; an untouched report is VERIFIED if its reads succeed |
| Sessions | concurrent joins and creations, creation in three saves, join in two, lost answers, expiry | a code leads to the session that shows it; one guest per session; who is inside finds the report in the history; a join never reopens a locked session |
| Clients' copies | snapshots, patches, photo lists and the answer of POST finalize in different orders, saves that reject between what is stored and what is told, reconnection | what a phone shows converges to the stored report, the lock and the seal included |
| Client flow | two finalizing screens, a join that overlaps the lock or the seal, lost requests and broadcasts, retries, apps that are closed | who missed an error is offered the retry all the same; while an app stays open the report is anchored |

`PROJECT.json` lists each hazard at its line with the properties that cover it, or the
reason why none does.

## 2. The plan

Done, in this order, the most important behaviour first:

1. `ReportStatus`, `Finalize`, with the abstract `SealedReport`; `FinalizeProofs`
   and `LifeProofs`.
2. `SignOff`, with the abstract `SignedLock`; `SignOffProofs`.
3. `Evidence`; `EvidenceProofs`.
4. `PatchSync`; `PatchSyncProofs`.
5. `Verification`, which extends `Evidence`; `VerificationProofs`.
6. `Sessions`; `SessionsProofs`.
7. `FinalizingScreens`, which extends `Finalize`; `FinalizingScreensProofs`.

Next:

8. `StepFlow`: the wizard's steps, the debounced field and the sketch's undo stack.

The abstract specifications are two. `SealedReport`: store hashes once, anchor what is
stored, seal what is anchored; `Finalize`, `Evidence` and `Verification` implement it.
`SignedLock`: parties sign off for good, the report locks for good when all have, the
session after it; `SignOff` implements it, and `Finalize` and `PatchSync`, which start
behind the sign-offs, implement its second half. Between a component and its
composition: `FinalizingScreens` implements `Finalize`. A register per field for
`SignOff`'s patches, and an eventually consistent copy for `PatchSync`, would say no
more than `LastWriteStands` and `FieldConverges` do. Bounds: two
clients, two requests of each racing kind, one rejected call and one restart in each
run, unless the module needs a third reader.

## 3. Modules and code

| module | models | lines that matter |
|---|---|---|
| `ReportStatus` | the report's statuses and `LOCKED_STATUSES` | `b/models/statuses.js` |
| `Finalize` | one report's finalize pipeline, `_inFlight`, the wallet's transactions, the contract, late runs of `maybeLockReport`, late uploads, faults, restarts | `finalize.service.js:74-231`, `chain.service.js:46-79`, `AccidentRegistry.sol:21-37` |
| `SealedReport` | abstract: what sealing promises | none: a specification |
| `SignedLock` | abstract: what locking promises | none: a specification |
| `FinalizeProofs`, `LifeProofs` | proofs about `Finalize` | |
| `SignOff` | `report:patch` with the mutex, POST signature, `maybeLockReport` | `session.socket.js:62-139`, `report-mutex.service.js:28-47`, `uploads.js:175-230`, `report-lock.service.js:11-48` |
| `SignOffProofs` | proofs about `SignOff` | |
| `Evidence` | photos and sketch: routes, the sketch's patch, GridFS files, what the PDF shows and what finalize collects and anchors | `uploads.js:63-172`, `sketch_step.dart:138-171`, `finalize.service.js:41-59`, `:122-214`, `pdf.service.js:76-95` |
| `EvidenceProofs` | proofs about `Evidence` | |
| `Verification` | `verifyReport` and the tamper script on a report that lives through `Evidence` | `verify.service.js:24-115`, `tamper.js:32-80`, `storage.service.js:54-78` |
| `VerificationProofs` | proofs about `Verification` | |
| `PatchSync` | `session:join`, the room, patches, POST and DELETE photos, lock and seal as saved and broadcast, the answer of POST finalize, the phones' copies | `session.socket.js:28-139`, `uploads.js:52-143`, `report-lock.service.js:31-48`, `finalize.service.js:196-227`, `session_controller.dart:96-185`, `finalizing_screen.dart:90-115`, `api_client.dart:261-284`, `socket_client.dart:158-228`, `session_shell_screen.dart:165-184` |
| `PatchSyncProofs` | proofs about `PatchSync` | |
| `Sessions` | creation of a session, its code, joining, joins the phone has given up, expiry, the history of a phone | `sessions.js:8-78`, `api_client.dart:112-146`, `session-code.service.js:10-28`, `Session.js:10-45`, `reports.js` (list by device) |
| `SessionsProofs` | proofs about `Sessions` | |
| `FinalizingScreens` | the phones around `Finalize`: automatic start, retry, timeout, `session:join`, what they hear | `finalizing_screen.dart:58-115`, `session.socket.js:28-60`, `session_controller.dart:96-171`, `session_shell_screen.dart:165-184`, `finalize.service.js:27-33` |
| `FinalizingScreensProofs` | proofs about `FinalizingScreens` | |
| `MCFinalize`, `MCSignOff`, `MCEvidence`, `MCVerification`, `MCPatchSync`, `MCSessions`, `MCFinalizingScreens` | instances for TLC | |

**Finalize.** `report` is the stored document, reduced to the status, the pair of
PDF and bundle hashes (`payload`), whether `chain.lastError` and `chain.txHash` are
set, the attachments that arrived late and `__v`. `doc[c]` is the document a
request holds in memory, `pc[c]` the next awaited call of its `runFinalize`, `tx[c]`
the transaction it waits for, `draft[c]` the PDF it generated; a request that ends forgets all three (`Forget`), as the
function's local variables are gone. `txs` are the
accepted transactions in nonce order, `record` the contract's entry. There is one
action per awaited call, from `Call` (the in-flight test) to `SaveSession`;
`CallRejects` is a rejected call, which goes to the anchor catch or to the outer
`finally`; `Crash` loses every request and `_inFlight` and keeps the database and
the chain. `Lockers` are runs of `maybeLockReport` on a copy that predates the lock
and shows both sign-offs; with one locker it is the lock itself, with two the
second one is late. `SaveUpload` is a photo admitted before the lock and saved after.

**SignOff.** `pc` is again the next awaited call. A patch is received (session
loaded, `queue` joined), then, at the head of its report's chain, loads the report,
saves it and may lock; a signature is guarded, receives its body, is saved, loads
the session and may lock. `Saved` is Mongoose's partial save, with the whole
subdocument when the copy had none. `Done` is the settled task: it pops the chain.
`stale` is a ghost: a sign-off was saved while another request that can complete
one held an older copy. `written` is a ghost: what was last saved for each vehicle
field. The vehicle has two leaves, enough to tell a leaf from its subdocument;
one accident field stands for those that belong to both parties. Saving a shared
field never completes a pair.

**Evidence.** A file is named after the request that uploads it and is its own
content (`blobs`). `Store`, `Drop` and the three saves are the
awaited calls of the routes; DELETE and a replaced sketch drop the old file first.
An uploaded sketch is then announced by a patch of its id (`LoadAnnounced`,
`SaveAnnounced`), serialized like any patch, or never (`SkipAnnounce`).
The pipeline is the success path of `Finalize`, save by save, with what reads the
files: `GeneratePdf` fetches what the document shows (`drawn`), `Collect` hashes one
attachment after the other. `Readable` is `getFileBuffer` for both of them: what is
missing, and what a failing read does not get, is left out alike; the ghost `skipped`
tells the two apart. The other ghosts: photos answered 201 and not deleted
(`accepted`), sketches set again by an announcement that found another one
(`revived`), and whether a request was past the guard when the report locked
(`late`).

**Verification.** `check` is one verification, from `LoadToVerify` over the PDF and
each attachment to `ReadChain`, interleaved with everything of `Evidence` and with
the tamper script. `Recompute` is `recomputeFileHash`: null for whatever is thrown.
A null is folded as `""` into the text that is hashed, that is, not at all: the
comment at `verify.service.js:59` that it forces a mismatch is not what the code does,
and `VerifyAttachment` does what the code does.
The script asks for no status: on any report it replaces the first photo listed
(`photos[0]`, in the model any listed one) or flips a byte of the PDF, if the report
names one; a second flip restores it (`TamperLoads`). `overwriteFile` deletes, then
uploads under the same id (`TamperDeletes`, `TamperUploads`), and a script may die in
between (`TamperFails`). One script runs at a time. `hashed` is what the pipeline
hashed of each file, which is not what was uploaded if the script came first: the
contract's entry is the set of files covered, each with its `hashed` bytes.
`computeBundleHash` sees the hashes only, not whose they are, so two replaced photos,
which have the same bytes, may stand for each other (`SameHashes`). When only such a
hash differs from what the document lists, `Evidence` may assign the list or not, where
the code does assign it: the model has both. Verifications only read, so
one is enough. The ghosts: `check.damaged`, the files that ever since the verification
began have not been what was anchored; `check.reliable`, whether its calls succeeded;
`overwritten`, the files the script has deleted; `away`, whether the pipeline looked
for a file just when the script had deleted it.

**Sessions.** A session, its report and the phone that shows its code have the name
of the request that creates them. A creation picks a code no live session has
(`PickCode`, at most `MaxAttempts` times), then saves the report, the session and the
report again; a failure leaves what it has created. A guest types the code some phone
shows; a join loads the session, saves it and adds the device to the report, and
any of these may fail. The phone gives up a join after 8 seconds, the server does not
(`JoinTimesOut`): it goes on with it as one of `late`, from the step it had reached, while
the phone may ask again. A creation whose phone has given up is one whose code nobody
types. `Live` is the condition
on `expiresAt` in every `findOne`; the TTL index removes the document some time later
(`Reap`). `Lock` is `maybeLockReport` in one step. Ghosts: `overlapped`, the
creations that chose a code which another one was about to save, and `raced`, the
sessions which two joins found waiting.

**FinalizingScreens.** The callers of `Finalize` are the phones. `phone[p]` is the
screen the shell shows, whether the socket is in the room, the POST under way, and
the two places an error is known from: the broadcast and the copy of the report.
`AutoStart`, `Retry`, `Arrive`, `Answered` and `Timeout` are the screen's. A step of an
attempt that emits progress reaches every phone in the room at once (`Heard`): messages
on their way are `PatchSync`'s matter. `session:join` is one step per awaited call
(`FindSession`, `EnterRoom`, `ReadReport`, `EmitState`), since the lock and the seal may
come between any two of them; when one rejects (`JoinFails`) the phone is left `outside` the
room, or in it and without a snapshot (`deaf`), until it connects anew. A request whose
screen is gone still arrives; of two requests of one phone the first is followed, the
other is answered 202. An app may be closed at any time, and then nothing leads back:
`home_screen.dart` creates and joins, and a second join is refused. The ghost `silent`
says that an attempt, or a request for one, ended without a word to the phones; `missed`
holds the phones whose session was loaded before the lock and whose socket entered the
room after it, `overtaken` those that heard of the seal before a snapshot from before it.
`lost` counts the requests lost or timed out and the joins that fail, `drops` the
connections that break without a restart; the server's pipeline does not notice, so
these steps leave all of `Finalize`'s variables alone.

**PatchSync.** The stored report is a status, one shared form field and the photo
list. `sock[p]` is how far the server is with the phone's `session:join` on the
current connection: the session is loaded (`found`), the socket enters the room, the
report is read (`snap`), `session:state` is emitted. `inbox[p]` is what is on its way
to the phone, in order; a broken connection loses it, and the phone joins anew.
`shown` and `isLocked` are `SessionController`'s; `Screen` is what the shell builds
from them. A patch is `sent`, received (refused if the socket has not joined),
loaded, saved and broadcast, one at a time. POST and DELETE photos keep the list they
loaded in `copy` and broadcast it with their own change (`Known`); a push is always
saved, a DELETE only under the version it loaded (`current`; saves that are not about
photos may raise the version too, so here some DELETEs succeed that the code refuses).
`lock` and `seal` are the last steps of `maybeLockReport` and `runFinalize`, the rejected
session save of either included (`LockFails`, `SealFails`): it stores nothing and nobody
is told. `post` is the attempt's own copy of the report, which becomes the answer of POST
finalize: the screen adopts it (`Adopt`), in no order with what the socket brings, or it
is lost. `Finalize` may be called whenever the screen is there, which covers the
automatic start and the retries; `AttemptFails` and `AnswerLost` are unbounded.
The server keeps nothing of a phone but its place in the room, and a phone's copy
depends on its inbox only: other phones matter as senders, and `OtherPatch` is their
patches, so following one phone is enough.

## 4. Runs

Every run is exhaustive for its bounds.

| run | instance | shows |
|---|---|---|
| `finalize_seal` | 2 callers, 1 locker, 1 late upload, 1 fault, 1 restart; `RetrySpec` (43 924 states) | `TypeOK`, `SealedMatchesChain`, `AnchoredIsStored` (only durable hashes are sent), `AnswerIsTrue`, `ImplementsLife` (refines `SealedReport`), `PipelineEnds` (`_inFlight` is always left), `LockedIsAnchored` |
| `finalize_limbo` | 2 callers, 1 locker, 1 fault; `RetrySpec` | violation of `LockedIsSealed` |
| `signoff` | 2 patches, 2 signatures, 1 fault, 1 restart (678 627) | `TypeOK`, `LastWriteStands`, `LockedIsSigned`, `CompletingWriteLocks`, `ChainMovesOn`, `ImplementsSignedLock` (refines `SignedLock`) |
| `signoff_lost_lock` | 2 signatures, nothing fails | violation of `SignedIsLocked` |
| `evidence` | 2 photos, 2 sketches, 1 DELETE, 1 failing call, failing read or restart (2 474 232) | `TypeOK`, `AcceptedPhotoStays`, `EvidenceIsHashed`, `SealedIsIntact`, `SealCoversWhatIsShown` |
| `verification` | 2 photos, 1 DELETE, 1 failure, 2 files overwritten (3 086 282) | `VerifyTypeOK`, `VerifiedWasIntact`, `ReplacedIsNotVerified`, `SealedVerifies`, `ImplementsLife` (`Evidence` with all that surrounds it refines `SealedReport`) |
| `verify_late` | 1 photo, nothing fails | violation of `UntamperedVerifies` |
| `verify_uncovered` | 1 photo, 1 failing read, 1 overwrite | violation of `ReplacedIsTampered` |
| `sessions` | 2 creations, 2 guests, 2 codes, 2 attempts at a code, 3 failures, timeouts or restarts (1 547 384) | `TypeOK`, `CodeNamesOneSession`, `JoinReachesShown`, `OnePartyB`, `InsideIsListed`, `JoinNeverUnlocks` |
| `sync` | 1 followed phone, 2 earlier photos, 2 requests out of 2 patches, 1 upload and 1 DELETE, 1 drop, rejection or restart (3 610 022) | `TypeOK`, `FieldConverges`, `PhotosConverge`, `LockIsShown`, `SealIsShown`, `NothingAhead` (a phone shows the lock and the seal only once they are stored), `CompleteStays` (a complete report stays complete on the screen) |
| `screens` | 2 phones, 1 locker, 1 fault, lost request or failed join, 1 broken connection or restart; `ScreenSpec` (556 881) | `ScreensOK`, `AnchorErrorIsOffered`, `SealedIsShown`, `AnchoredOrAbandoned` |
| `screens_stranded` | 2 phones, 1 fault; `ScreenSpec` | violation of `SealingGoesOn` |

**Bounds.** Two callers are the two phones; the in-flight test lets only one of
them past, so a third only repeats the second. One fault and one restart, at any
awaited call, in the same behaviour cover a failing attempt followed by an
interrupted retry; in `FinalizingScreens` a lost request or a failed join is spent from the same
budget as a failing call, and `MaxDrops` is the budget of broken connections and
restarts together; `Evidence`, `Verification` and `PatchSync` allow one failure in all,
since their requests are not retried; `Sessions` allows three, so that a guest may
give up, ask again and fail again. In `SignOff`, a lost update needs two patches, a lost lock two
sign-offs; the initial states range over every combination of confirmations, so
the two patches may be spent on data. In `Evidence`, a version conflict needs a
conditional save and one other save, and a replaced sketch two of them. In `Sessions`
two codes let one of them be taken and the other free; of two guests one is one too many
for a session, and a join that was given up is a third that still writes. Two photos are
needed in `Verification` so that one is covered by the seal and the other is late or
deleted, and so that two replaced files may be taken for each other. In `PatchSync` two requests
overlap, be they patches, an upload and a DELETE, or one of each; the two earlier photos
let a DELETE hit one and spare the other.

**Deadlock.** TLC reports a state without successor as an error unless the
configuration disables it. The `Finalize` runs keep the check: a caller can always
call. The others disable it, since they really stop: `SignOff`, `Evidence`,
`Verification`, `PatchSync` and `Sessions` when their finitely many requests are
answered, `FinalizingScreens` when every phone is closed or shows the complete report.
That nobody is left waiting in `SignOff`'s chain is `ChainMovesOn`.

**Fairness.** `FairSpec` gives weak fairness to each caller's running request, to
each locker and to mining: Node's event loop resumes a request whose awaited call
has settled, and the chain executes what it has accepted. A rejected call is a
settled one. No fairness is given to faults, restarts and late uploads.
`PipelineEnds` uses no more than that. `RetrySpec` adds `Retried`, weak fairness of a
new call while the report is not sealed: an assumption about the phones' users,
under which `LockedIsAnchored` holds. `LockedIsSealed` fails even under it.

`ScreenSpec` puts the phones in the place of `Retried`: weak fairness of the running
attempt, of the locker, of mining (`MineUnheard`), of what an open app does by itself and
the retry its user is offered (`Proceed`), and of its connection and the server's next
step of its `session:join` (`JoinGoesOn`). Nothing is said about closing an
app, losing a connection, a request or a call. `AnchoredOrAbandoned` needs no more,
and `SealingGoesOn` fails even under it.

## 5. What the runs found

* **A lost receipt is for ever** (`finalize_limbo`). If `tx.wait` rejects, or the
  process dies, after the transaction was accepted and before the sealing save,
  every retry sends `anchor` again and reverts with "already anchored": the report
  stays `finalizing`, though its hashes are on the chain. The comment promises
  "Safe to call repeatedly".
* **Both signed, nobody locks** (`signoff_lost_lock`). Two overlapping signature
  uploads each look at a copy without the other's signature.
* **An untampered report is TAMPERED** (`verify_late`). A photo admitted before the
  lock is pushed to `attachmentHashes` after the bundle was hashed.
* **A photo nobody vouches for** (`verify_uncovered`). One failing read while the
  pipeline collects leaves a stored, listed photo out of the bundle; replacing it later
  goes unnoticed, though `tamper.js` announces TAMPERED.
* **Sealing does not go on by itself** (`screens_stranded`). After a failed anchoring the
  finalizing screen tells the drivers that they may close the app; if both do, nothing
  retries, and no screen leads back to the report's finalizing screen.

The properties that hold name their exceptions, and these are real behaviours of the
code:

* `revived` (`EvidenceIsHashed`): the phone uploads a sketch, then patches the id that
  the upload has already stored; served after the next sketch's upload, that patch
  restores an id whose file and hash entry are gone, and finalize skips it.
* `late` and `skipped` (the properties of the seal): the two findings above about
  verification.
* `away` (`ReplacedIsNotVerified`): a photo the pipeline looked for between the script's
  delete and its upload is not covered by the seal.
* A photo replaced before the pipeline has hashed it is anchored as it then is:
  `runFinalize` rehashes what is stored (`finalize.service.js:46-47`). Such a report is
  VERIFIED, though `tamper.js:71` tells whoever replaced the photo to expect TAMPERED.
* `late` with such bytes (`VerifiedWasIntact`): two replaced photos have the same hash, so
  one that outlived the lock may be counted for one that was anchored and is gone.
* `overtaken` (`FieldConverges`, `PhotosConverge`, `SealIsShown`, `CompleteStays`): a
  broadcast made between the reading of a phone's snapshot and its emission is undone by
  the snapshot.
* `missed` (`LockIsShown`): a join loaded the session before the lock and entered the
  room after the broadcast; the phone goes on offering a form whose patches are all
  refused.
* A session save that rejects behind the report's lock (`LockIsShown` asks for a locked
  session): the report is locked, nobody is told, the session never locks, and the phones
  keep the form.
* `untold` (`SealIsShown`): the session's load or save rejects after the seal; the phones
  in the room are not told until they join again or ask themselves.
* `outdated` (`FieldConverges`, `PhotosConverge`): the answer of POST finalize is the copy
  its attempt loaded; adopted, it hides a patch or a photo that was stored while the
  attempt ran.
* `ahead` (`CompleteStays`): a sealed answer adopted before an older snapshot that is
  still on the socket; the phone goes back to the finalizing screen until the seal's
  broadcast comes.
* `PatchSync`'s `overlapped` (`PhotosConverge`): POST and DELETE photos broadcast the list of
  the copy they loaded, so after two that overlap the phones may lack a photo, or show
  a deleted one, until they join again. Other photos are not affected.
* `Sessions`' `overlapped` and `raced`: two creations take one code, or two guests
  become party B; the second save of the join also sets a locked session back to
  `joined`.
* `stale` (`CompletingWriteLocks`): the lost lock.
* `silent` (the screens' properties): an attempt that fails before the anchoring, or
  after the seal, when the session cannot be loaded or saved, tells the phones nothing.
* `FinalizingScreens`' `overtaken` (`SealedIsShown`): a phone that hears of the seal between
  the reading of its snapshot and its emission is taken back to the finalizing screen, or
  to the form if it has missed the lock as well. On the finalizing screen it asks by itself: a
  200 brings the complete report back; after a 202 or a lost request it stays
  until it joins again.
* `FinalizingScreens`' `missed`, and a join that failed (`AnchoredOrAbandoned`): such a phone
  is on its form, or hears nothing, and is no help in getting the report anchored.

Others were met while modelling and are not run: a second run of `maybeLockReport` on
a copy loaded before the lock writes `signing` over whatever the report has become, a
sealed one included (the proof of `SealInv` allows it, `LifeProofs` excludes it by
`LocksOnTime`; the report stays locked all the same, `PipelineKeepsLocked`); a patch of
a signed-off part that passed the freeze check is saved after the signature; DELETE
removes the file, then fails on the version, and the photo stays listed without its file
(`SealedIsIntact` shows that the seal survives this); a guest whose join was saved after it
had given up is answered 409 from then on; and an anchoring that is retried
alone runs with the previous `chain.lastError` still stored, though `Report.js:108` says
that every attempt clears it.

Positive results that are less obvious than they look: a late locker cannot make the
chain and the database disagree; stale copies cannot lock an unsigned report; earlier
upload races, whatever mess they leave in `attachmentHashes`, do not spoil the seal, since
finalize collects the files afresh; and although a vanished file adds nothing to the
recomputed bundle, no verification that starts after a file's hash was collected and the
file replaced says VERIFIED, with the exceptions above.

## 6. Proofs

`tlapm` proves, for every value of the constants:

| theorem | states |
|---|---|
| `FinalizeProofs!TypeCorrectness`, `SealInvariant`, `SealedReportMatchesChain` | `Spec => []TypeOK`, `[]SealInv`, `[]SealedMatchesChain` |
| `FinalizeProofs!PipelineKeepsLocked` | `Spec => Locking!Spec`: the second half of `SignedLock`, late lockers included |
| `LifeProofs!OnlyStoredHashesAreSent`, `SealedAnswersAreTrue` | `Spec /\ LocksOnTime => []AnchoredIsStored`, `[]AnswerIsTrue` |
| `LifeProofs!PipelineImplementsLife` | `Spec /\ LocksOnTime => ImplementsLife`: the refinement of `SealedReport` |
| `LifeProofs!OneLockerIsOnTime` | with one locker, `Spec => LocksOnTime` |
| `SignOffProofs!TypeCorrectness`, `LockedReportIsSigned`, `SessionFollowsReport` | `Spec => []TypeOK`, `[]LockedIsSigned`, `[]SessionLocksAfterReport` |
| `SignOffProofs!ChainKeepsMoving`, `LastWriteStaysPut`, `LastSignOffLocks` | `Spec => []ChainMovesOn`, `[]LastWriteStands`, `[]CompletingWriteLocks` |
| `SignOffProofs!SignOffImplementsLock` | `Spec => ImplementsSignedLock`: the refinement of `SignedLock` |
| `EvidenceProofs!TypeCorrectness`, `AcceptedPhotosStay`, `EvidenceHashed` | `Spec => []TypeOK`, `[]AcceptedPhotoStays`, `[]EvidenceIsHashed` |
| `EvidenceProofs!SealedReportsAreIntact`, `SealsCoverWhatIsShown` | `Spec => []SealedIsIntact`, `[]SealCoversWhatIsShown` |
| `EvidenceProofs!EvidenceImplementsLife`, `VerificationProofs!VerificationImplementsLife` | `Spec => ImplementsLife`, `VerifySpec => ImplementsLife`: the refinement of `SealedReport` |
| `VerificationProofs!VerificationTypes`, `VerifiedWasNotReplaced`, `ReplacementIsFound`, `UntouchedIsVerified` | `VerifySpec => []VerifyTypeOK`, `[]VerifiedWasIntact`, `[]ReplacedIsNotVerified`, `[]SealedVerifies` |
| `PatchSyncProofs!SyncTypeCorrectness`, `FieldIsShown`, `PhotosAreShown`, `LockReachesThePhones`, `SealReachesThePhones` | `Spec => []TypeOK`, `[]FieldConverges`, `[]PhotosConverge`, `[]LockIsShown`, `[]SealIsShown` |
| `PatchSyncProofs!PhonesFollowTheStore`, `CompleteIsForGood`, `SyncKeepsLocked` | `Spec => []NothingAhead`, `CompleteStays`, `Locking!Spec` |
| `FinalizingScreensProofs!ScreenTypes`, `FailedAnchorIsOffered`, `SealEndsTheScreens` | `ScreenSpec => []ScreensOK`, `[]AnchorErrorIsOffered`, `[]SealedIsShown` |
| `FinalizingScreensProofs!ScreensRunThePipeline`, `ScreensSealWhatIsAnchored`, `PhonesAskInTime` | `ScreenSpec => Spec` (of `Finalize`), `[]SealedMatchesChain`, `[]NeverRefused` |
| `SessionsProofs!TypeCorrectness`, `CodesNameSessions`, `JoinsReachShown`, `OneGuestPerSession`, `PartiesFindTheirReport`, `LockedStaysLocked` | `Spec => []TypeOK`, `[]CodeNamesOneSession`, `[]JoinReachesShown`, `[]OnePartyB`, `[]InsideIsListed`, `JoinNeverUnlocks` |

Assumptions: the bounds on faults, failures, restarts and overwrites are natural
numbers, and `MaxAttempts` is positive; requests of different kinds are different, and
`None` is none of them; `Photos` and `Sketches` are finite. The sets of callers, lockers,
uploads, patches, creators, guests and codes are arbitrary. Three theorems of
`LifeProofs` have a hypothesis on the behaviour: `LocksOnTime`, no run of
`maybeLockReport` saves the lock of a report that is already being finalized. It is
what the code takes for granted and does not enforce: without it the three are false.
`OneLockerIsOnTime` shows that it holds of the checked instances.

*A sealed report matches the chain.* `SealedMatchesChain` is not inductive: whether
the sealing save keeps it depends on who else runs. `SealInv` adds that only one
attempt runs (`OneAttempt`), hence nobody else changes the hashes under it
(`AttemptOK`: its copy of the hashes is the stored one from `anchor` on); that the
transaction it waits for carries these hashes; that a mined transaction is the
contract's entry (`MinedIsRecorded`, from the contract's write-once rule); and so
that at `seal` the entry is what is stored. Late lockers and uploads change the
status and the attachments only. After a crash all attempts are idle, and the
part of the invariant about running ones is empty.

*The pipeline implements the life of a report.* `LifeInv` adds to `SealInv` that hashes
are stored once and the contract holds nothing else (`HashedOnce`), and how far the
report is at each step of an attempt (`LifeOK`). Each action is then shown to be a step
of `SealedReport` or a stutter: `SaveBundle` stores, `Mine` anchors, `SaveSealed` seals,
the others stutter. A late locker is the only one to disturb `LifeOK`, and `LocksOnTime`
is the hypothesis that says it does not act.

`Evidence` and `Verification` lock an open report only (late lockers are `Finalize`'s
matter), so there the refinement has no hypothesis. `EvidenceInv` already says where the
pipeline stands; uploads, DELETEs, verifications and the tamper script touch neither the
bundle, nor the seal, nor the contract, and `LoadToFinalize` sends a retry straight to
the chain.

*A locked report is signed.* A copy can be arbitrarily old, but nothing is ever
taken back: no handler unconfirms or unsigns. `LockInv` says that each request's
copy is in the past of the stored report (every sign-off it shows is stored), and
that a request about to lock saw both. Whole-subdocument saves send vehicle fields
only and do not disturb this. The same invariant makes each save a step of `SignedLock`
or a stutter: a save of a sign-off adds its party and takes none away, and the lock finds
both.

*The chain moves on, and no update is lost.* `ChainInv`: the chain holds exactly
the patches being served, each once, and only its head is past the lock. Every end
of a patch (an answer, a refusal, a rejection) pops the head, and a restart drops
chain and patches together. From it, `WriteInv`: between the load and the save of
a patch nobody else writes vehicle fields, so that even a save that sends the
whole subdocument sends current values.

*The last sign-off locks.* `CompleteInv`: as long as no call failed, nothing restarted and no
two sign-offs overlapped, a copy about to be signed off shows every sign-off that is
stored. Whoever saves the last one therefore sees the pair complete in the copy it saved,
and is on its way to the lock until the report is locked.

*Photos stay, and the seal is whole.* The key of `EvidenceInv` is that the version names
the lists: a copy whose `__v` is the stored one has the stored photos and hashes
(`Current`), since every save that changes a list increments it. So a save that is
conditional on the version overwrites nothing it has not seen. Behind a lock that no
request outlived, no request is under way (`QuietRequests`); the pipeline's draft is then
the stored report (`DraftIsReport`), files neither come nor go, what has been
collected and what is left to read are the stored files of the listed attachments
(`CollectedOK`), and so is the bundle (`BundleOK`).

*A replaced file is found out.* The tamper script, which may run at any time, breaks the
part of `EvidenceInv` that says what stored files hold, so `VerifyInv` keeps what survives
it: a file holds its own bytes, the script's or none (`FilesOK`), and, behind a lock that
nothing outlived, what the pipeline has hashed stays as it was hashed until the script
replaces it (`Kept`), and what it has listed and not hashed is missing, unless a read failed
or the script was just holding it (`Missing`). What a verification reads of an anchored file
as it was hashed proves that file undamaged (`ReadOK`); so counting hashes tells the bundles
apart, but for files with the script's bytes, and those are all found among the listed ones
if nothing outlived the lock (`ScopeOK`). `Recomputed` is the other direction: of an untouched
report, what has been recomputed and what is left to read together are the anchored bundle.

*A phone shows what is stored.* The field, the status and each single photo reach a phone
in its snapshot, in the answer it adopts and in messages of their own. `SyncInv` makes one claim
for each of these attributes: the last message under way that carries it, or the phone's
copy if there is none, has the stored value, unless that value is still to be
broadcast (`Pending`) or one of the ghosts excuses the phone (`Excused`). It holds because one
patch at a time is between its save and its broadcast (`OneSaving`), and because two
requests of which neither overlapped the other agree on every photo but their own; which
is why the claim is made photo by photo. A message that finds no report to apply to is
dropped, so a phone that has joined must have a snapshot, or one ahead of every other
message that counts. The lock only ever gets set: report first, session second, broadcast
last (`LockOrder`), and each phone in the room has heard of it, will, or has loaded a
locked session.

*A phone is never ahead.* `Truthful` orders what can be known of the lock and of the seal:
a phone's copy, every message on its way, every snapshot being built and every answer is
at most what is stored. (Photos have no such order: a DELETE takes them back.) What a phone
shows as complete it can lose only to a snapshot older than the seal, and no such snapshot
comes behind the news that the report is sealed (`Rising`), unless a broadcast or an adopted
answer overtook it.

*The screens follow the pipeline.* Each step of `FinalizingScreens` is a step of `Finalize`
or leaves its variables alone (`ScreenStepIsPipelineStep`), so `ScreenSpec` implements
`Finalize`'s specification and every theorem about that one holds behind the screens.
That no phone is refused (`NeverRefused`) needs the converse, what the screens know of the
pipeline: a finalizing screen is shown to who has heard of the lock or has loaded it, and
a locked report never opens again (`NotAsked`). `ScreenInv` adds what a phone in the room
knows, at each step of its join: of a stored error that nobody is repairing (`Offers`), and of
a seal once no attempt is between the seal and its broadcast (`SealHeard`). While the join
is being served, that knowledge is in what the server has read for it, and once a phone
has been told it does not forget, whatever snapshot comes (`Remembers`, `NobodyForgets`), unless
it is `overtaken`. A step of an attempt either keeps the report in flight, speaks to the
phones, fails in silence, or leaves a report that is not finalizing.

*Two phones meet.* `MeetInv`: a code is held from its choice until the session
expires, and two holders of one code overlapped when they chose it (`CodesApart`); a
guest is at a session from the moment it was found waiting, which only the guest that
saves the join ends, unless two raced (`GuestOK`, `OneGuest`). So a guest about to save
its join finds the session as it was, still waiting or removed, unless it raced: no join
of its own reopens a locked one. A join the phone has given up obeys the same rules as the
one it was (`LateOK`).

Only model-checked: liveness under fairness (`PipelineEnds`, `LockedIsAnchored`,
`AnchoredOrAbandoned`: temporal proofs with `ENABLED` are outside the prover). The model
uses no recursive operators.

## 7. Assumptions and what is left out

* A rejected `save` or GridFS call has had no effect; the case of an effect whose
  answer is lost is modelled where the code must survive it: the anchor transaction,
  a creation, a join the phone has given up, and the POST of a finalizing screen.
* A transaction that the chain accepted is mined some day. `tx.wait` has no timeout,
  so without this an attempt could stay in `_inFlight` until a restart.
* Hashes are perfect: different contents have different hashes. Bytes, wording and
  layout are left out; of the PDF, which attachments it shows is kept. Two PDFs always
  differ, as their creation dates do.
* Each model follows one report, but for `Sessions`, where codes are shared. Reports
  share the wallet (nonces in order) and nothing else.
* Form fields other than those above behave as they do: they are set by patches
  under the same rules.
* In `Evidence` the signatures' files are left out (their route is in `SignOff`, and
  `collectAttachmentHashes` treats them as it treats a sketch), and the failures of the
  pipeline other than failing reads are left to `Finalize`. In `Verification` uploads
  have contents of their own and the script's images are all the same; the script has no
  switch to replace a sketch.
* In `FinalizingScreens` a phone's user who is offered the retry uses it or closes the app.

Not modelled: the wizard's steps with their local state, the debounced fields and the
sketch's strokes (item 8 of the plan); `party:ready` and presence, on which
nothing depends but a label; the layout of the PDF, themes and static screens; server
start-up and configuration; the platform folders of the mobile app.
