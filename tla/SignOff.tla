------------------------------- MODULE SignOff -------------------------------
(***************************************************************************)
(* Two parties fill, confirm and sign one report: the report:patch handler *)
(* (sockets/session.socket.js), serialized per report by withReportLock    *)
(* (services/report-mutex.service.js), the signature upload                *)
(* (routes/uploads.js), which is not, and maybeLockReport                  *)
(* (services/report-lock.service.js), which both call.                     *)
(*                                                                         *)
(* Every awaited call is a step.  A request works on the copy of the       *)
(* report it loaded; Mongoose's save() sends only what the request changed.*)
(***************************************************************************)
EXTENDS Naturals, Sequences, ReportStatus

CONSTANTS Patches,      \* report:patch messages the clients may send
          Uploads,      \* signature uploads the clients may send
          None,         \* no value, no file
          MaxFaults,    \* bound: awaited calls that may reject
          MaxCrashes    \* bound: restarts of the server process

ASSUME SignOffBounds == MaxFaults \in Nat /\ MaxCrashes \in Nat

ASSUME SignOffNames == Patches \cap Uploads = {} /\ None \notin Patches \cup Uploads

VARIABLES report,   \* the Report document, as stored
          session,  \* status of the Session document
          pc,       \* the next awaited call of each request
          what,     \* what each patch changes; whose signature an upload is
          copy,     \* the report as each request loaded it
          seen,     \* the session status each request loaded
          queue,    \* withReportLock: the promise chain of the report
          written,  \* ghost: the last patch saved for each vehicle field
          stale,    \* ghost: a sign-off was saved while another one held an older copy
          faults, crashes

requests == <<pc, what, copy, seen, queue>>
bounds == <<faults, crashes>>
vars == <<report, session, requests, written, stale, bounds>>

-----------------------------------------------------------------------------
Party == {"A", "B"}
Leaf == {"make", "model"}      \* two fields of partyX.vehicle
Requests == Patches \cup Uploads
Vehicle == [Leaf -> Patches \cup {None}]   \* a patch writes its own value

(* classifyPatchPath: a vehicle field and confirmedReview belong to one     *)
(* party, a field of the accident to both.  The Review screen only ever     *)
(* sends confirmedReview = true.                                            *)
Message == [party : Party, field : Leaf \cup {"confirmedReview", "accident"}]
PartyScoped(m) == m.field # "accident"

Report == [status : {"waiting", "signing"},
           vehicle : [Party -> Vehicle],
           accident : Patches \cup {None},
           confirmedReview : [Party -> BOOLEAN],
           signature : [Party -> Uploads \cup {None}],
           v : Nat]

(* Mutant: either half of the sign-off is enough. *)
HalfSignedOff(r, p) == r.confirmedReview[p] \/ r.signature[p] # None

partySignedOff(r, p) == r.confirmedReview[p] /\ r.signature[p] # None

bothPartiesSignedOff(r) == \A p \in Party : partySignedOff(r, p)

Locked(status) == status \in LOCKED_STATUSES

(* report.set on the copy in memory. *)
Set(r, m, p) ==
  IF m.field \in Leaf THEN [r EXCEPT !.vehicle[m.party][m.field] = p]
  ELSE IF m.field = "confirmedReview" THEN [r EXCEPT !.confirmedReview[m.party] = TRUE]
  ELSE [r EXCEPT !.accident = p]

(* report.save(): the field alone, unless it is the first of a subdocument  *)
(* the copy does not have yet: then the whole subdocument is sent.          *)
Saved(stored, loaded, m, p) ==
  IF m.field \in Leaf /\ loaded.vehicle[m.party] = [l \in Leaf |-> None]
    THEN [stored EXCEPT !.vehicle[m.party] = Set(loaded, m, p).vehicle[m.party]]
    ELSE Set(stored, m, p)

Init ==
  /\ report \in {[status |-> "waiting",
                  vehicle |-> [p \in Party |-> [l \in Leaf |-> None]],
                  accident |-> None,
                  confirmedReview |-> confirmed,
                  signature |-> [p \in Party |-> None],
                  v |-> 0] : confirmed \in [Party -> BOOLEAN]}
  /\ session = "joined"
  /\ pc = [r \in Requests |-> "new"]
  /\ what = [r \in Requests |-> None]
  /\ copy = [r \in Requests |-> None]
  /\ seen = [r \in Requests |-> None]
  /\ queue = <<>>
  /\ written = [p \in Party |-> [l \in Leaf |-> None]]
  /\ stale = FALSE
  /\ faults = 0
  /\ crashes = 0

(* A request goes on to its next awaited call, with copy c of the report.   *)
Goto(r, step, c) == /\ pc' = [pc EXCEPT ![r] = step]
                    /\ copy' = [copy EXCEPT ![r] = c]
                    /\ UNCHANGED <<what, seen>>

(* A request is over, and what it knew is gone with it.                     *)
Over(r) == /\ pc' = [pc EXCEPT ![r] = "done"]
           /\ what' = [what EXCEPT ![r] = None]
           /\ copy' = [copy EXCEPT ![r] = None]
           /\ seen' = [seen EXCEPT ![r] = None]

(* Rejected or not, the chain of the report goes on to its next task.       *)
Done(r) == /\ Over(r)
           /\ queue' = IF queue # <<>> /\ Head(queue) = r THEN Tail(queue) ELSE queue

-----------------------------------------------------------------------------
(* report:patch.  The session is loaded outside the lock; the message is    *)
(* refused if the session is locked, and queued otherwise.                  *)
ReceivePatch(p) ==
  /\ pc[p] = "new"
  /\ IF Locked(session)
       THEN Done(p)
       ELSE /\ \E m \in Message : what' = [what EXCEPT ![p] = m]
            /\ seen' = [seen EXCEPT ![p] = session]
            /\ pc' = [pc EXCEPT ![p] = "load"]
            /\ queue' = Append(queue, p)
            /\ UNCHANGED copy
  /\ UNCHANGED <<report, session, written, stale, bounds>>

(* Mutant: no per-report serialization. *)
AnyTurn(p) == TRUE

Turn(p) == Head(queue) = p

(* In the lock: the report is loaded; a locked report, and the subtree of a *)
(* party that has signed off, refuse the patch.                             *)
LoadReport(p) ==
  /\ pc[p] = "load"
  /\ Turn(p)
  /\ IF Locked(report.status)
        \/ (PartyScoped(what[p]) /\ partySignedOff(report, what[p].party))
       THEN Done(p)
       ELSE Goto(p, "save", report) /\ UNCHANGED queue
  /\ UNCHANGED <<report, session, written, stale, bounds>>

SignsOff(r) == r \in Uploads \/ what[r].field = "confirmedReview"

HoldsCopy(r) == pc[r] \in {"body", "save"} /\ SignsOff(r)

(* Ghost bookkeeping of a save that completes one party's sign-off. *)
NoteSignOff(r) == stale' = (stale \/ (SignsOff(r) /\ \E q \in Requests \ {r} : HoldsCopy(q)))

(* What maybeLockReport finds on copy c: nothing to do, or a lock to save.  *)
ToLock(c) == ~Locked(c.status) /\ bothPartiesSignedOff(c)

(* The patch is saved and broadcast, and maybeLockReport looks at the copy. *)
SavePatch(p) ==
  /\ p \in Patches
  /\ pc[p] = "save"
  /\ report' = Saved(report, copy[p], what[p], p)
  /\ written' = IF what[p].field \in Leaf
                  THEN [written EXCEPT ![what[p].party][what[p].field] = p]
                  ELSE written
  /\ NoteSignOff(p)
  /\ LET patched == Set(copy[p], what[p], p)
     IN  IF ToLock(patched) THEN Goto(p, "lockReport", patched) /\ UNCHANGED queue
                            ELSE Done(p)
  /\ UNCHANGED <<session, bounds>>

-----------------------------------------------------------------------------
(* Mutant: the party an upload names is not checked. *)
GuardUploadAnyParty(u) ==
  /\ pc[u] = "new"
  /\ IF Locked(report.status)
       THEN Done(u)
       ELSE /\ \E p \in Party \cup {None} : what' = [what EXCEPT ![u] = p]
            /\ copy' = [copy EXCEPT ![u] = report]
            /\ pc' = [pc EXCEPT ![u] = "body"]
            /\ UNCHANGED <<seen, queue>>
  /\ UNCHANGED <<report, session, written, stale, bounds>>

(* POST signature.  requireUnsealedReport loads the report and refuses a    *)
(* locked one before the body of the request is received.                   *)
GuardUpload(u) ==
  /\ pc[u] = "new"
  /\ IF Locked(report.status)
       THEN Done(u)
       ELSE /\ \E p \in Party : what' = [what EXCEPT ![u] = p]
            /\ copy' = [copy EXCEPT ![u] = report]
            /\ pc' = [pc EXCEPT ![u] = "body"]
            /\ UNCHANGED <<seen, queue>>
  /\ UNCHANGED <<report, session, written, stale, bounds>>

(* The body has arrived: PARTY_LOCKED is decided on the copy, then the file *)
(* is stored.                                                               *)
ReceiveBody(u) ==
  /\ pc[u] = "body"
  /\ IF partySignedOff(copy[u], what[u])
       THEN Done(u)
       ELSE Goto(u, "save", copy[u]) /\ UNCHANGED queue
  /\ UNCHANGED <<report, session, written, stale, bounds>>

(* The signature is saved.  A first one pushes to attachmentHashes; one     *)
(* that replaces another assigns that array, so the save is conditional on  *)
(* the version loaded.                                                      *)
SaveSignature(u) ==
  /\ u \in Uploads
  /\ pc[u] = "save"
  /\ LET signed(r) == [r EXCEPT !.signature[what[u]] = u, !.v = @ + 1]
     IN  IF copy[u].signature[what[u]] # None /\ copy[u].v # report.v
           THEN Done(u) /\ UNCHANGED <<report, stale>>      \* VersionError
           ELSE /\ report' = signed(report)
                /\ NoteSignOff(u)
                /\ Goto(u, "session", signed(copy[u]))
                /\ UNCHANGED queue
  /\ UNCHANGED <<session, written, bounds>>

(* Mutant: the upload route does not call maybeLockReport. *)
LoadSessionNeverLocks(u) ==
  /\ pc[u] = "session"
  /\ Done(u)
  /\ UNCHANGED <<report, session, written, stale, bounds>>

(* The session is loaded, and maybeLockReport looks at the copy. *)
LoadSession(u) ==
  /\ pc[u] = "session"
  /\ IF ToLock(copy[u])
       THEN /\ seen' = [seen EXCEPT ![u] = session]
            /\ pc' = [pc EXCEPT ![u] = "lockReport"]
            /\ UNCHANGED <<what, copy, queue>>
       ELSE Done(u)
  /\ UNCHANGED <<report, session, written, stale, bounds>>

-----------------------------------------------------------------------------
(* Mutant: the session is locked, and the report is not. *)
LockSessionOnly(r) ==
  /\ pc[r] = "lockReport"
  /\ session' = "signing"
  /\ Done(r)
  /\ UNCHANGED <<report, written, stale, bounds>>

(* maybeLockReport: the report is saved first,                              *)
LockReport(r) ==
  /\ pc[r] = "lockReport"
  /\ report' = [report EXCEPT !.status = "signing"]
  /\ IF seen[r] = "signing"
       THEN Done(r)
       ELSE Goto(r, "lockSession", copy[r]) /\ UNCHANGED queue
  /\ UNCHANGED <<session, written, stale, bounds>>

(* then the session.                                                        *)
LockSession(r) ==
  /\ pc[r] = "lockSession"
  /\ session' = "signing"
  /\ Done(r)
  /\ UNCHANGED <<report, written, stale, bounds>>

(* Mutant: a task that fails leaves the chain on a rejected promise. *)
CallRejectsWedges(r) ==
  /\ pc[r] \notin {"new", "done"}
  /\ pc[r] = "load" => Turn(r)
  /\ faults < MaxFaults
  /\ faults' = faults + 1
  /\ Over(r)
  /\ UNCHANGED <<report, session, queue, written, stale, crashes>>

(* An awaited call rejects: the request is answered with an error. *)
CallRejects(r) ==
  /\ pc[r] \notin {"new", "done"}
  /\ pc[r] = "load" => Turn(r)
  /\ faults < MaxFaults
  /\ faults' = faults + 1
  /\ Done(r)
  /\ UNCHANGED <<report, session, written, stale, crashes>>

(* The process restarts: the requests in flight and the chain are lost. *)
Crash ==
  /\ crashes < MaxCrashes
  /\ crashes' = crashes + 1
  /\ pc' = [r \in Requests |-> IF pc[r] = "new" THEN "new" ELSE "done"]
  /\ what' = [r \in Requests |-> None]
  /\ copy' = [r \in Requests |-> None]
  /\ seen' = [r \in Requests |-> None]
  /\ queue' = <<>>
  /\ UNCHANGED <<report, session, written, stale, faults>>

Next == \/ \E p \in Patches : ReceivePatch(p) \/ LoadReport(p) \/ SavePatch(p)
        \/ \E u \in Uploads : GuardUpload(u) \/ ReceiveBody(u) \/ SaveSignature(u) \/ LoadSession(u)
        \/ \E r \in Requests : LockReport(r) \/ LockSession(r) \/ CallRejects(r)
        \/ Crash

Spec == Init /\ [][Next]_vars

-----------------------------------------------------------------------------
Steps == {"new", "load", "body", "save", "session", "lockReport", "lockSession", "done"}

StoredOK == /\ report \in Report
            /\ session \in {"joined", "signing"}
            /\ written \in [Party -> Vehicle]
            /\ stale \in BOOLEAN

(* What a request knows depends on how far it is.                           *)
RequestOK(r) ==
  /\ copy[r] \in Report \cup {None}
  /\ seen[r] \in {"joined", "signing", None}
  /\ pc[r] \notin {"new", "done"} => what[r] \in (IF r \in Patches THEN Message ELSE Party)
  /\ pc[r] \notin {"new", "load", "done"} => copy[r] \in Report
  /\ r \in Patches => pc[r] \notin {"body", "session"}
  /\ r \in Uploads => pc[r] # "load"

RequestsOK == /\ pc \in [Requests -> Steps]
              /\ DOMAIN what = Requests /\ DOMAIN copy = Requests /\ DOMAIN seen = Requests
              /\ \A r \in Requests : RequestOK(r)
              /\ queue \in Seq(Patches)

TypeOK == StoredOK /\ RequestsOK

(* No accepted patch is undone by the save of another one: each field holds *)
(* what was last saved for it (the bug withReportLock was written for).     *)
LastWriteStands == report.vehicle = written

(* A report is locked only once both parties have confirmed and signed. *)
LockedIsSigned ==
  Locked(report.status) =>
    \A p \in Party : report.confirmedReview[p] /\ report.signature[p] # None

(* The session, which the socket guard reads, is never locked before the    *)
(* report, which the REST guard reads.                                      *)
SessionLocksAfterReport == Locked(session) => Locked(report.status)

Quiet == \A r \in Requests : pc[r] \in {"new", "done"}

(* Whoever completes the pair locks the report, unless two sign-offs        *)
(* overlapped, a call failed or the process restarted.                      *)
CompletingWriteLocks ==
  Quiet /\ bothPartiesSignedOff(report) /\ ~stale /\ faults = 0 /\ crashes = 0
    => Locked(report.status)

(* A failing task never wedges the chain: whoever holds the lock is still   *)
(* being served, and nobody else is past the lock.                          *)
ChainMovesOn ==
  /\ queue # <<>> => pc[Head(queue)] # "done"
  /\ \A p \in Patches : pc[p] \in {"save", "lockReport", "lockSession"} => Turn(p)

(* Whatever races, fails or restarts, the report locks as SignedLock says:   *)
(* no sign-off is taken back, no lock is undone, and the session, which the  *)
(* socket guard reads, is never locked before the report, which the REST     *)
(* guard reads.                                                              *)
Lock == INSTANCE SignedLock WITH Parties <- Party,
                                 signedOff <- {p \in Party : partySignedOff(report, p)},
                                 locked <- Locked(report.status),
                                 sessionLocked <- Locked(session)

ImplementsSignedLock == Lock!Spec

(* Once both parties have signed off and nothing is in flight, the report   *)
(* is locked.                                                               *)
SignedIsLocked == Quiet /\ bothPartiesSignedOff(report) => Locked(report.status)

=============================================================================
