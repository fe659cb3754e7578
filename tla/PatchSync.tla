----------------------------- MODULE PatchSync -----------------------------
(***************************************************************************)
(* What the phones show of one report: session:join and its snapshot, the  *)
(* broadcasts of patches, photo lists, the lock and the seal, the answer   *)
(* of POST /finalize (sockets/session.socket.js, routes/uploads.js,        *)
(* report-lock.service.js, finalize.service.js), and the copy each phone   *)
(* keeps (socket_client.dart, session_controller.dart,                     *)
(* session_shell_screen.dart, finalizing_screen.dart).                     *)
(*                                                                         *)
(* A socket delivers in order while it lives; what is under way when it    *)
(* dies is lost, and the phone joins again with a new one.  An answer over *)
(* HTTP keeps no order with it.  The form is one shared field, its values  *)
(* the patches that set it.  Who may patch what, and when the parties have *)
(* signed off, is module SignOff's; what sealing does, module Finalize's.  *)
(***************************************************************************)
EXTENDS Naturals, Sequences, FiniteSets, ReportStatus

CONSTANTS Phones,      \* the phones whose copies are followed
          Patches,     \* report:patch messages
          Photos,      \* POST photos requests, each named as its photo
          Deletes,     \* DELETE photos requests
          Earlier,     \* the photos the report has to begin with
          None,        \* no value, no report, no phone
          MaxRequests, \* bound: requests made in all
          MaxFailures  \* bound: broken connections, rejected calls, restarts

ASSUME SyncAssumption ==
  /\ MaxRequests \in Nat /\ MaxFailures \in Nat
  /\ Patches \cap Photos = {} /\ Patches \cap Deletes = {} /\ Photos \cap Deletes = {}

VARIABLES stored,      \* the Report document
          session,     \* the Session document's status
          sock,        \* the server's progress with each phone's session:join
          found,       \* the session status session:join loaded
          snap,        \* the report session:join loaded
          inbox,       \* what has been emitted to each phone
          shown,       \* SessionController.report
          isLocked,    \* SessionController.isLocked
          post,        \* the report runFinalize holds for a phone's request;
                       \*   once it is sealed, the answer
          pc,          \* the next step of each request
          by,          \* the followed phone that sent each patch
          copy,        \* the photo list each upload and DELETE loaded
          target,      \* the photo each DELETE names
          current,     \* the DELETEs whose copy has the version stored
          lock, seal,  \* the next awaited call of maybeLockReport, runFinalize
          overtaken,   \* ghost: phones a broadcast reached before an older snapshot
          missed,      \* ghost: phones that joined around the broadcast of the lock
          untold,      \* ghost: phones in the room when a seal went unannounced
          outdated,    \* ghost: phones that adopted an answer older than the store
          ahead,       \* ghost: phones that adopted an answer before an older snapshot
          overlapped,  \* ghost: the photos of requests that overlapped
          failures     \* bounded

phoneVars == <<inbox, shown, isLocked, post>>
joins == <<sock, found, snap>>
requests == <<pc, by, copy, target, current>>
ends == <<lock, seal>>
adopted == <<untold, outdated, ahead>>
ghosts == <<overtaken, missed, adopted, overlapped>>
vars == <<stored, session, joins, phoneVars, requests, ends, ghosts, failures>>

-----------------------------------------------------------------------------
Lists == Photos \cup Deletes

Requests == Patches \cup Lists

Files == Photos \cup Earlier

Report == [status : {"waiting", "signing", "sealed"},
           field : Patches \cup {None},
           photos : SUBSET Files]

ASSUME NoneIsNoReport == None \notin Report

Message == [type : {"state"}, report : Report, session : STATUSES]
             \cup [type : {"field"}, value : Patches]
             \cup [type : {"photos"}, value : SUBSET Files]
             \cup [type : {"locked", "sealed"}]

Locked == stored.status \in LOCKED_STATUSES

(* socket.join and socket.data are set, the connection is alive. *)
InRoom(p) == sock[p] \in {"entered", "read", "joined", "deaf"}

Init ==
  /\ stored = [status |-> "waiting", field |-> None, photos |-> Earlier]
  /\ session = "joined"
  /\ sock = [p \in Phones |-> "off"]
  /\ found = [p \in Phones |-> None]
  /\ snap = [p \in Phones |-> None]
  /\ inbox = [p \in Phones |-> <<>>]
  /\ shown = [p \in Phones |-> None]
  /\ isLocked = [p \in Phones |-> FALSE]
  /\ post = [p \in Phones |-> None]
  /\ pc = [r \in Requests |-> "new"]
  /\ by = [q \in Patches |-> None]
  /\ copy = [r \in Lists |-> {}]
  /\ target = [d \in Deletes |-> None]
  /\ current = {}
  /\ lock = "open"
  /\ seal = "open"
  /\ overtaken = {}
  /\ missed = {}
  /\ untold = {}
  /\ outdated = {}
  /\ ahead = {}
  /\ overlapped = {}
  /\ failures = 0

(* A request may still be made. *)
New(r) == pc[r] = "new" /\ Cardinality({x \in Requests : pc[x] # "new"}) < MaxRequests

Goto(r, step) == pc' = [pc EXCEPT ![r] = step]

Done(rs) ==
  /\ pc' = [r \in Requests |-> IF r \in rs THEN "done" ELSE pc[r]]
  /\ by' = [q \in Patches |-> IF q \in rs THEN None ELSE by[q]]
  /\ copy' = [r \in Lists |-> IF r \in rs THEN {} ELSE copy[r]]
  /\ target' = [d \in Deletes |-> IF d \in rs THEN None ELSE target[d]]
  /\ current' = current \ rs

(* io.to(sessionId).emit.  A phone whose snapshot has been read but not yet *)
(* emitted gets this message first.                                         *)
Broadcast(m) ==
  /\ inbox' = [p \in Phones |-> IF InRoom(p) THEN Append(inbox[p], m) ELSE inbox[p]]
  /\ overtaken' = overtaken \cup {p \in Phones : sock[p] = "read"}
  /\ UNCHANGED <<shown, isLocked>>

-----------------------------------------------------------------------------
(* onConnect: the phone's session:join is on its way. *)
Connect(p) ==
  /\ sock[p] = "off"
  /\ sock' = [sock EXCEPT ![p] = "open"]
  /\ overtaken' = overtaken \ {p}
  /\ missed' = missed \ {p}
  /\ untold' = untold \ {p}
  /\ outdated' = outdated \ {p}
  /\ ahead' = ahead \ {p}
  /\ UNCHANGED <<stored, session, found, snap, phoneVars, requests, ends, overlapped, failures>>

(* session:join: the session is loaded (and saved, its status untouched),    *)
LoadSession(p) ==
  /\ sock[p] = "open"
  /\ sock' = [sock EXCEPT ![p] = "found"]
  /\ found' = [found EXCEPT ![p] = session]
  /\ UNCHANGED <<stored, session, snap, phoneVars, requests, ends, ghosts, failures>>

(* the socket enters the room,                                              *)
EnterRoom(p) ==
  /\ sock[p] = "found"
  /\ sock' = [sock EXCEPT ![p] = "entered"]
  /\ missed' = IF lock = "done" /\ session \in LOCKED_STATUSES /\ found[p] \notin LOCKED_STATUSES
                  THEN missed \cup {p} ELSE missed
  /\ UNCHANGED <<stored, session, found, snap, phoneVars, requests, ends, overtaken, adopted,
                 overlapped, failures>>

(* Mutant: the report is not awaited. *)
ReadReportUnawaited(p) ==
  /\ sock[p] = "entered"
  /\ sock' = [sock EXCEPT ![p] = "read"]
  /\ UNCHANGED <<stored, session, found, snap, phoneVars, requests, ends, ghosts, failures>>

(* the report is read,                                                      *)
ReadReport(p) ==
  /\ sock[p] = "entered"
  /\ sock' = [sock EXCEPT ![p] = "read"]
  /\ snap' = [snap EXCEPT ![p] = stored]
  /\ UNCHANGED <<stored, session, found, phoneVars, requests, ends, ghosts, failures>>

(* and session:state is emitted.                                            *)
EmitState(p) ==
  /\ sock[p] = "read"
  /\ sock' = [sock EXCEPT ![p] = "joined"]
  /\ inbox' = [inbox EXCEPT ![p] = Append(@,
       [type |-> "state", report |-> snap[p], session |-> found[p]])]
  /\ found' = [found EXCEPT ![p] = None]
  /\ snap' = [snap EXCEPT ![p] = None]
  /\ UNCHANGED <<stored, session, shown, isLocked, post, requests, ends, ghosts, failures>>

(* INTERNAL_ERROR, before or after the socket has entered the room; the      *)
(* phone does not join again on this connection.                             *)
JoinFails(p) ==
  /\ failures < MaxFailures
  /\ failures' = failures + 1
  /\ \/ sock[p] \in {"open", "found"} /\ sock' = [sock EXCEPT ![p] = "outside"]
     \/ sock[p] = "entered" /\ sock' = [sock EXCEPT ![p] = "deaf"]
  /\ found' = [found EXCEPT ![p] = None]
  /\ UNCHANGED <<stored, session, snap, phoneVars, requests, ends, ghosts>>

(* The connections of ps are gone, with all that was under way on them; the  *)
(* phones' HTTP requests are not among it.                                   *)
Cut(ps) ==
  /\ sock' = [p \in Phones |-> IF p \in ps THEN "off" ELSE sock[p]]
  /\ found' = [p \in Phones |-> IF p \in ps THEN None ELSE found[p]]
  /\ snap' = [p \in Phones |-> IF p \in ps THEN None ELSE snap[p]]
  /\ inbox' = [p \in Phones |-> IF p \in ps THEN <<>> ELSE inbox[p]]
  /\ UNCHANGED <<shown, isLocked>>

(* One connection breaks; patches sent on it and not received are lost. *)
Drop(p) ==
  /\ failures < MaxFailures
  /\ failures' = failures + 1
  /\ sock[p] # "off"
  /\ Cut({p})
  /\ Done({q \in Patches : pc[q] = "sent" /\ by[q] = p})
  /\ UNCHANGED <<stored, session, post, ends, ghosts>>

(* The attempt under way ends without an answer.                             *)
Unanswered ==
  post' = [p \in Phones |-> IF post[p] # None /\ post[p].status # "sealed" THEN None ELSE post[p]]

(* The server restarts in the middle of whatever it was doing.  What it has  *)
(* answered already still arrives.                                           *)
Restart ==
  /\ failures < MaxFailures
  /\ failures' = failures + 1
  /\ Cut({p \in Phones : sock[p] # "off"})
  /\ Done({r \in Requests : pc[r] # "new"})
  /\ Unanswered
  /\ lock' = IF lock = "open" THEN "open" ELSE "done"
  /\ seal' = IF seal \in {"open", "running"} THEN "open" ELSE "done"
  /\ UNCHANGED <<stored, session, ghosts>>

-----------------------------------------------------------------------------
(* Mutant: the lock is taken from the snapshot alone. *)
OnStateUnlatched(p, m) ==
  /\ shown' = [shown EXCEPT ![p] = m.report]
  /\ isLocked' = [isLocked EXCEPT ![p] = m.session \in LOCKED_STATUSES]

(* _onSessionState: the copy is replaced, the lock only ever set.            *)
OnState(p, m) ==
  /\ shown' = [shown EXCEPT ![p] = m.report]
  /\ isLocked' = [isLocked EXCEPT ![p] = @ \/ m.session \in LOCKED_STATUSES]

(* A patch that finds no report to apply to is dropped, *)
OnPatched(p, m) ==
  /\ shown' = [shown EXCEPT ![p] =
       IF @ = None THEN None
       ELSE IF m.type = "field" THEN [@ EXCEPT !.field = m.value]
       ELSE [@ EXCEPT !.photos = m.value]]
  /\ UNCHANGED isLocked

OnLocked(p) == isLocked' = [isLocked EXCEPT ![p] = TRUE] /\ UNCHANGED shown

(* Mutant: the chain's fields are merged, the status is forgotten. *)
OnSealedFieldsOnly(p) == UNCHANGED <<shown, isLocked>>

(* and so is a seal. *)
OnSealed(p) ==
  /\ shown' = [shown EXCEPT ![p] = IF @ = None THEN None ELSE [@ EXCEPT !.status = "sealed"]]
  /\ UNCHANGED isLocked

(* What SessionShellScreen builds. *)
Screen(p) == IF shown[p] # None /\ shown[p].status = "sealed" THEN "complete"
             ELSE IF isLocked[p] THEN "finalizing" ELSE "form"

(* A finalizing screen that is taken away drops its request's answer.        *)
Deliver(p) ==
  /\ inbox[p] # <<>>
  /\ LET m == Head(inbox[p])
     IN  \/ m.type = "state" /\ OnState(p, m)
         \/ m.type \in {"field", "photos"} /\ OnPatched(p, m)
         \/ m.type = "locked" /\ OnLocked(p)
         \/ m.type = "sealed" /\ OnSealed(p)
  /\ inbox' = [inbox EXCEPT ![p] = Tail(@)]
  /\ post' = [post EXCEPT ![p] = IF Screen(p)' = "finalizing" THEN @ ELSE None]
  /\ UNCHANGED <<stored, session, joins, requests, ends, ghosts, failures>>

-----------------------------------------------------------------------------
(* The user edits the field.  Without a connection the socket buffers.      *)
SendPatch(p, q) ==
  /\ New(q)
  /\ Screen(p) = "form"
  /\ shown[p] # None
  /\ by' = [by EXCEPT ![q] = p]
  /\ Goto(q, "sent")
  /\ UNCHANGED <<stored, session, joins, phoneVars, copy, target, current, ends, ghosts, failures>>

(* A phone that is not followed has sent one, and it has been received. *)
OtherPatch(q) ==
  /\ New(q)
  /\ q \in Patches
  /\ session \notin LOCKED_STATUSES
  /\ Goto(q, "load")
  /\ UNCHANGED <<stored, session, joins, phoneVars, by, copy, target, current, ends, ghosts, failures>>

(* report:patch up to withReportLock: NOT_JOINED and SESSION_LOCKED refuse. *)
ReceivePatch(q) ==
  /\ pc[q] = "sent"
  /\ sock[by[q]] # "off"
  /\ IF InRoom(by[q]) /\ session \notin LOCKED_STATUSES
       THEN Goto(q, "load") /\ UNCHANGED <<by, copy, target, current>>
       ELSE Done({q})
  /\ UNCHANGED <<stored, session, joins, phoneVars, ends, ghosts, failures>>

(* Mutant: every patch is loaded at once, without withReportLock. *)
LoadReportAtOnce(q) ==
  /\ pc[q] = "load"
  /\ IF Locked THEN Done({q}) ELSE Goto(q, "save") /\ UNCHANGED <<by, copy, target, current>>
  /\ UNCHANGED <<stored, session, joins, phoneVars, ends, ghosts, failures>>

(* One patch at a time: the report is loaded and a locked one refuses,       *)
LoadReport(q) ==
  /\ pc[q] = "load"
  /\ \A r \in Patches : pc[r] \notin {"save", "saved"}
  /\ IF Locked THEN Done({q}) ELSE Goto(q, "save") /\ UNCHANGED <<by, copy, target, current>>
  /\ UNCHANGED <<stored, session, joins, phoneVars, ends, ghosts, failures>>

(* the field is saved,                                                       *)
SavePatch(q) ==
  /\ q \in Patches
  /\ pc[q] = "save"
  /\ stored' = [stored EXCEPT !.field = q]
  /\ Goto(q, "saved")
  /\ UNCHANGED <<session, joins, phoneVars, by, copy, target, current, ends, ghosts, failures>>

(* and everybody in the room gets it, its sender too.                        *)
BroadcastPatch(q) ==
  /\ q \in Patches
  /\ pc[q] = "saved"
  /\ Broadcast([type |-> "field", value |-> q])
  /\ Done({q})
  /\ UNCHANGED <<stored, session, joins, post, ends, missed, adopted, overlapped, failures>>

(* requireUnsealedReport loads the report for a request that will save its  *)
(* photo list.                                                              *)
Admit(r) ==
  /\ Goto(r, "save")
  /\ copy' = [copy EXCEPT ![r] = stored.photos]
  /\ UNCHANGED by

(* What photo a request is about. *)
Subject(r) == IF r \in Photos THEN r ELSE target[r]

(* Requests admitted before another one's broadcast overlap with it.        *)
Overlapping(r, subject) ==
  LET open == {w \in Lists : pc[w] \in {"save", "saved"}}
  IN  overlapped' = IF open = {} THEN overlapped
                    ELSE overlapped \cup {Subject(w) : w \in open} \cup {subject}

(* POST photos: the report is loaded,                                        *)
GuardPhoto(u) ==
  /\ New(u)
  /\ IF Locked
       THEN Done({u}) /\ UNCHANGED overlapped
       ELSE Admit(u) /\ Overlapping(u, u) /\ UNCHANGED <<target, current>>
  /\ UNCHANGED <<stored, session, joins, phoneVars, ends, overtaken, missed, adopted, failures>>

(* the photo is pushed to the stored list,                                   *)
SavePhoto(u) ==
  /\ pc[u] = "save"
  /\ stored' = [stored EXCEPT !.photos = @ \cup {u}]
  /\ Goto(u, "saved")
  /\ current' = {}
  /\ UNCHANGED <<session, joins, phoneVars, by, copy, target, ends, ghosts, failures>>

(* DELETE photos/:fileId: the report is loaded, a photo not in it is a 404,  *)
GuardDelete(d) ==
  /\ New(d)
  /\ IF Locked
       THEN Done({d}) /\ UNCHANGED overlapped
       ELSE \E f \in stored.photos :
              /\ Admit(d)
              /\ target' = [target EXCEPT ![d] = f]
              /\ current' = current \cup {d}
              /\ Overlapping(d, f)
  /\ UNCHANGED <<stored, session, joins, phoneVars, ends, overtaken, missed, adopted, failures>>

(* its own list without the photo is saved, under the version it loaded,     *)
SaveDelete(d) ==
  /\ pc[d] = "save"
  /\ IF d \in current
       THEN /\ stored' = [stored EXCEPT !.photos = copy[d] \ {target[d]}]
            /\ Goto(d, "saved")
            /\ current' = {}
            /\ UNCHANGED <<by, copy, target>>
       ELSE Done({d}) /\ UNCHANGED stored        \* VersionError
  /\ UNCHANGED <<session, joins, phoneVars, ends, ghosts, failures>>

(* The list a request broadcasts: the one it loaded, with its own change.    *)
Known(r) == IF r \in Photos THEN copy[r] \cup {r} ELSE copy[r] \ {target[r]}

(* Mutant: the list is sent as it was loaded. *)
BroadcastPhotosLoaded(r) ==
  /\ pc[r] = "saved"
  /\ Broadcast([type |-> "photos", value |-> copy[r]])
  /\ Done({r})
  /\ UNCHANGED <<stored, session, joins, post, ends, missed, adopted, overlapped, failures>>

(* and that list is sent to everybody.                                       *)
BroadcastPhotos(r) ==
  /\ pc[r] = "saved"
  /\ Broadcast([type |-> "photos", value |-> Known(r)])
  /\ Done({r})
  /\ UNCHANGED <<stored, session, joins, post, ends, missed, adopted, overlapped, failures>>

(* A load or a save rejects: nothing is stored, nothing is sent. *)
CallRejects(r) ==
  /\ pc[r] \in {"load", "save"}
  /\ failures < MaxFailures
  /\ failures' = failures + 1
  /\ Done({r})
  /\ UNCHANGED <<stored, session, joins, phoneVars, ends, ghosts>>

-----------------------------------------------------------------------------
(* Mutant: the report's new status is not saved. *)
LockReportUnsaved ==
  /\ lock = "open"
  /\ lock' = "session"
  /\ UNCHANGED <<stored, session, joins, phoneVars, requests, seal, ghosts, failures>>

(* maybeLockReport, once both parties have signed off: the report is saved, *)
LockReport ==
  /\ lock = "open"
  /\ lock' = "session"
  /\ stored' = [stored EXCEPT !.status = "signing"]
  /\ UNCHANGED <<session, joins, phoneVars, requests, seal, ghosts, failures>>

(* then the session (its copy is not locked yet),                           *)
LockSession ==
  /\ lock = "session"
  /\ lock' = "emit"
  /\ session' = "signing"
  /\ UNCHANGED <<stored, joins, phoneVars, requests, seal, ghosts, failures>>

(* or its save rejects, and that is the end of it,                          *)
LockFails ==
  /\ lock = "session"
  /\ failures < MaxFailures
  /\ failures' = failures + 1
  /\ lock' = "done"
  /\ UNCHANGED <<stored, session, joins, phoneVars, requests, seal, ghosts>>

(* then the phones are told.                                                *)
EmitLocked ==
  /\ lock = "emit"
  /\ lock' = "done"
  /\ Broadcast([type |-> "locked"])
  /\ UNCHANGED <<stored, session, joins, post, requests, seal, missed, adopted, overlapped, failures>>

-----------------------------------------------------------------------------
(* _start on a finalizing screen: POST /finalize runs an attempt on the     *)
(* report it loads, finds one in flight (202, no report), or finds the      *)
(* report sealed and answers with it.                                       *)
Finalize(p) ==
  /\ Screen(p) = "finalizing"
  /\ post[p] = None
  /\ seal \in {"open", "done"}
  /\ seal' = IF seal = "open" THEN "running" ELSE seal
  /\ post' = [post EXCEPT ![p] = stored]
  /\ UNCHANGED <<stored, session, joins, inbox, shown, isLocked, requests, lock, ghosts, failures>>

(* A phone that is not followed asks. *)
OtherFinalizes ==
  /\ seal = "open"
  /\ session \in LOCKED_STATUSES
  /\ seal' = "running"
  /\ UNCHANGED <<stored, session, joins, phoneVars, requests, lock, ghosts, failures>>

(* The attempt fails before the seal, for one of module Finalize's reasons. *)
AttemptFails ==
  /\ seal = "running"
  /\ seal' = "open"
  /\ Unanswered
  /\ UNCHANGED <<stored, session, joins, inbox, shown, isLocked, requests, lock, ghosts, failures>>

(* Mutant: the seal is not saved. *)
SealReportUnsaved ==
  /\ seal = "running"
  /\ seal' = "session"
  /\ UNCHANGED <<stored, session, joins, phoneVars, requests, lock, ghosts, failures>>

(* Its last steps: the report is sealed,                                    *)
SealReport ==
  /\ seal = "running"
  /\ seal' = "session"
  /\ stored' = [stored EXCEPT !.status = "sealed"]
  /\ UNCHANGED <<session, joins, phoneVars, requests, lock, ghosts, failures>>

(* the session is loaded and saved,                                         *)
SealSession ==
  /\ seal = "session"
  /\ seal' = "emit"
  /\ session' = "sealed"
  /\ UNCHANGED <<stored, joins, phoneVars, requests, lock, ghosts, failures>>

(* or one of the two rejects: the report is sealed and no phone is told,    *)
SealFails ==
  /\ seal = "session"
  /\ failures < MaxFailures
  /\ failures' = failures + 1
  /\ seal' = "done"
  /\ Unanswered
  /\ untold' = untold \cup {p \in Phones : sock[p] \in {"read", "joined"}}
  /\ UNCHANGED <<stored, session, joins, inbox, shown, isLocked, requests, lock, overtaken, missed,
                 outdated, ahead, overlapped>>

(* the phones are told, and the attempt's own copy of the report is the     *)
(* answer.                                                                  *)
EmitSealed ==
  /\ seal = "emit"
  /\ seal' = "done"
  /\ Broadcast([type |-> "sealed"])
  /\ post' = [p \in Phones |-> IF post[p] = None THEN None ELSE [post[p] EXCEPT !.status = "sealed"]]
  /\ UNCHANGED <<stored, session, joins, requests, lock, missed, adopted, overlapped, failures>>

(* A snapshot from before the seal is on its way to the phone. *)
OlderSnapshot(p) ==
  \/ sock[p] = "read" /\ snap[p].status # "sealed"
  \/ \E i \in DOMAIN inbox[p] : inbox[p][i].type = "state" /\ inbox[p][i].report.status # "sealed"

(* adoptReport: the screen takes the answer for its copy.                   *)
Adopt(p) ==
  /\ post[p] # None
  /\ post[p].status = "sealed"
  /\ shown' = [shown EXCEPT ![p] = post[p]]
  /\ post' = [post EXCEPT ![p] = None]
  /\ untold' = IF OlderSnapshot(p) THEN untold ELSE untold \ {p}
  /\ outdated' = IF post[p] = stored THEN outdated ELSE outdated \cup {p}
  /\ ahead' = IF OlderSnapshot(p) THEN ahead \cup {p} ELSE ahead
  /\ UNCHANGED <<stored, session, joins, inbox, isLocked, requests, ends, overtaken, missed, overlapped,
                 failures>>

(* The request times out, or its answer is lost. *)
AnswerLost(p) ==
  /\ post[p] # None
  /\ post' = [post EXCEPT ![p] = None]
  /\ UNCHANGED <<stored, session, joins, inbox, shown, isLocked, requests, ends, ghosts, failures>>

Next == \/ \E p \in Phones : \/ Connect(p) \/ LoadSession(p) \/ EnterRoom(p)
                             \/ ReadReport(p) \/ EmitState(p) \/ JoinFails(p)
                             \/ Drop(p) \/ Deliver(p)
                             \/ Finalize(p) \/ Adopt(p) \/ AnswerLost(p)
                             \/ \E q \in Patches : SendPatch(p, q)
        \/ \E q \in Patches : \/ OtherPatch(q) \/ ReceivePatch(q) \/ LoadReport(q)
                              \/ SavePatch(q) \/ BroadcastPatch(q)
        \/ \E u \in Photos : GuardPhoto(u) \/ SavePhoto(u)
        \/ \E d \in Deletes : GuardDelete(d) \/ SaveDelete(d)
        \/ \E r \in Lists : BroadcastPhotos(r)
        \/ \E r \in Requests : CallRejects(r)
        \/ LockReport \/ LockSession \/ LockFails \/ EmitLocked
        \/ OtherFinalizes \/ AttemptFails
        \/ SealReport \/ SealSession \/ SealFails \/ EmitSealed
        \/ Restart

Spec == Init /\ [][Next]_vars

-----------------------------------------------------------------------------
TypeOK ==
  /\ stored \in Report
  /\ session \in STATUSES
  /\ sock \in [Phones -> {"off", "open", "found", "entered", "read", "joined",
                          "outside", "deaf"}]
  /\ found \in [Phones -> STATUSES \cup {None}]
  /\ snap \in [Phones -> Report \cup {None}]
  /\ \A p \in Phones : \A i \in DOMAIN inbox[p] : inbox[p][i] \in Message
  /\ shown \in [Phones -> Report \cup {None}]
  /\ isLocked \in [Phones -> BOOLEAN]
  /\ post \in [Phones -> Report \cup {None}]
  /\ pc \in [Requests -> {"new", "sent", "load", "save", "saved", "done"}]
  /\ by \in [Patches -> Phones \cup {None}]
  /\ copy \in [Lists -> SUBSET Files]
  /\ target \in [Deletes -> Files \cup {None}]
  /\ current \subseteq Deletes
  /\ lock \in {"open", "session", "emit", "done"}
  /\ seal \in {"open", "running", "session", "emit", "done"}

(* Nothing is under way between the server and a phone that has joined. *)
Settled(p) ==
  /\ sock[p] = "joined"
  /\ inbox[p] = <<>>
  /\ post[p] = None
  /\ \A r \in Requests : pc[r] \in {"new", "sent", "done"}
  /\ {lock, seal} \subseteq {"open", "done"}

(* A phone that has joined shows the field as it is stored, whatever         *)
(* connections, joins and patches did before, unless its snapshot was        *)
(* overtaken by a broadcast, or it adopted an answer of POST /finalize that  *)
(* lacks a patch or a photo stored while the attempt ran.                    *)
FieldConverges ==
  \A p \in Phones \ (overtaken \cup outdated) : Settled(p) => shown[p].field = stored.field

(* The same of every photo that is not the subject of POST photos or DELETE  *)
(* requests that overlapped: whatever such requests broadcast, they neither  *)
(* hide another photo from a phone nor bring one back.                       *)
PhotosConverge ==
  \A p \in Phones \ (overtaken \cup outdated) :
    Settled(p) => \A f \in Files \ overlapped : f \in shown[p].photos <=> f \in stored.photos

(* Once the lock is over and the session is locked, no phone that has joined *)
(* offers the form, unless it joined around the broadcast of the lock (its   *)
(* session was loaded before, its room entered after).  When the session's   *)
(* save rejects the lock stops at the report: the phones keep the form.      *)
LockIsShown ==
  \A p \in Phones \ missed :
    Settled(p) /\ session \in LOCKED_STATUSES => Screen(p) # "form"

(* A phone that has joined shows a sealed report as complete, even one whose *)
(* connection missed the seal.  The exceptions are a snapshot a broadcast    *)
(* overtook, and a session save that rejected after the seal: the phones in  *)
(* the room are not told, until they join again or ask themselves.           *)
SealIsShown ==
  \A p \in Phones \ (overtaken \cup untold) :
    Settled(p) /\ stored.status = "sealed" => Screen(p) = "complete"

(* At no moment, settled or not, is a phone ahead of what is stored: it      *)
(* leaves the form only when report and session are both locked, and shows   *)
(* the report as complete only when it is sealed.                            *)
NothingAhead ==
  \A p \in Phones :
    /\ Screen(p) # "form" => Locked /\ session \in LOCKED_STATUSES
    /\ Screen(p) = "complete" => stored.status = "sealed"

(* A phone that shows the report as complete goes on doing so, through lost  *)
(* connections and late snapshots, unless a broadcast or the answer of its   *)
(* own POST /finalize overtook its snapshot.                                 *)
CompleteStays ==
  [][\A p \in Phones \ (overtaken \cup ahead)' :
       Screen(p) = "complete" => Screen(p)' = "complete"]_vars

=============================================================================
