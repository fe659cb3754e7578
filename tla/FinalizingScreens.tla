------------------------- MODULE FinalizingScreens -------------------------
(***************************************************************************)
(* The phones around the pipeline of module Finalize: when they ask for a  *)
(* report to be finalized, what the server tells them of it, and when they *)
(* offer to try again (screens/finalizing_screen.dart,                     *)
(* screens/session_shell_screen.dart, state/session_controller.dart,       *)
(* session:join in sockets/session.socket.js, emitProgress and             *)
(* report:sealed in services/finalize.service.js, POST /:id/finalize in    *)
(* routes/reports.js).  The callers are the phones.                        *)
(*                                                                         *)
(* session:join is served one awaited call at a time, so a broadcast may   *)
(* come before the snapshot it is newer than.  What is sent on a socket    *)
(* arrives at once: how long it takes is module PatchSync's.               *)
(***************************************************************************)
EXTENDS Finalize

CONSTANT MaxDrops   \* bound: restarts, and connections that break without one

ASSUME DropsAssumption == MaxDrops \in Nat

VARIABLES phone,     \* each phone's screen and what it knows
          join,      \* its session:join and what the server has read for it
          silent,    \* ghost: has an attempt, or a request for one, ended without
                     \* a word to the phones since their last word from the server?
          missed,    \* ghost: phones that joined around the broadcast of the lock
          overtaken, \* ghost: phones told of the seal before an older snapshot
          lost,      \* bounded: requests and joins that fail
          drops      \* bounded

screenVars == <<vars, phone, join, silent, missed, overtaken, lost, drops>>

(* The shell's body: the form until the lock, then the finalizing screen     *)
(* (opened: its first frame is not drawn yet), then the complete report.     *)
Screens == {"form", "opened", "finalizing", "complete", "closed"}

Phone == [screen : Screens,
          isLocked : BOOLEAN,                     \* SessionController.isLocked
          request : {"none", "sending", "sent"},  \* its POST, _requesting
          liveError : BOOLEAN,                    \* finalizeErrorMessage
          copyError : BOOLEAN]                    \* report.chain.lastError in its copy

(* outside: the join failed before the room was entered; deaf: after it.     *)
JoinSteps == {"off", "found", "entered", "read", "joined", "outside", "deaf"}

Join == [step : JoinSteps,
         session : STATUSES,  \* of the session as it was loaded, ...
         sealed : BOOLEAN,    \* ... and of the report as it was read
         error : BOOLEAN]

Filling == [screen |-> "form", isLocked |-> FALSE, request |-> "none",
            liveError |-> FALSE, copyError |-> FALSE]
Closed == [Filling EXCEPT !.screen = "closed"]

At(step) == [step |-> step, session |-> "joined", sealed |-> FALSE, error |-> FALSE]

Open(p) == phone[p].screen # "closed"

InRoom(p) == join[p].step \in {"entered", "read", "joined", "deaf"}

Set(p, ph) == phone' = [phone EXCEPT ![p] = ph]

SetJoin(p, j) == join' = [join EXCEPT ![p] = j]

(* A broadcast reaches the phones that are in the room. *)
Heard(news) ==
  phone' = [p \in Callers |-> IF Open(p) /\ InRoom(p) THEN news[p] ELSE phone[p]]

(* What SessionShellScreen builds.  A screen that is taken away drops the    *)
(* answer of its request, not a request that is still on its way.            *)
Shell(ph, sealed) ==
  LET screen == IF sealed THEN "complete"
                ELSE IF ~ph.isLocked THEN "form"
                ELSE IF ph.screen \in {"opened", "finalizing"} THEN ph.screen
                ELSE "opened"
  IN  [ph EXCEPT !.screen = screen,
                 !.request = IF @ = "sent" /\ screen # "finalizing" THEN "none" ELSE @]

IsComplete(ph) == ph.screen = "complete"

-----------------------------------------------------------------------------
KnowsError(ph) == ph.liveError \/ ph.copyError

(* The registry row is in error, and nothing is being requested. *)
OffersRetry(ph) == ph.screen = "finalizing" /\ ph.request = "none" /\ KnowsError(ph)

(* Mutant: the screen waits for the other phone's request. *)
AutoStartOnlyOnce(p) ==
  /\ phone[p].screen = "opened"
  /\ Set(p, [phone[p] EXCEPT !.screen = "finalizing"])
  /\ UNCHANGED <<vars, join, silent, missed, overtaken, lost, drops>>

(* _maybeAutoStart, after the first frame. *)
AutoStart(p) ==
  /\ phone[p].screen = "opened"
  /\ Set(p, [phone[p] EXCEPT !.screen = "finalizing",
                             !.request = IF KnowsError(phone[p]) THEN @ ELSE "sending"])
  /\ UNCHANGED <<vars, join, silent, missed, overtaken, lost, drops>>

Retry(p) ==
  /\ OffersRetry(phone[p])
  /\ Set(p, [phone[p] EXCEPT !.request = "sending"])
  /\ UNCHANGED <<vars, join, silent, missed, overtaken, lost, drops>>

(* The POST arrives.  If an earlier request of the same phone is still being *)
(* served, the new one is answered 202; if the screen is gone, nobody waits  *)
(* for the answer.                                                           *)
Arrive(p) ==
  /\ phone[p].request = "sending"
  /\ \/ /\ pc[p] = "idle"
        /\ Call(p)
        /\ Set(p, [phone[p] EXCEPT !.request = IF phone[p].screen = "finalizing" THEN "sent"
                                                                               ELSE "none"])
     \/ /\ pc[p] # "idle"
        /\ Set(p, [phone[p] EXCEPT !.request = "none"])
        /\ UNCHANGED vars
  /\ UNCHANGED <<join, silent, missed, overtaken, lost, drops>>

(* The POST does not reach the server: the screen shows the error below its *)
(* rows.                                                                     *)
RequestLost(p) ==
  /\ phone[p].request = "sending"
  /\ faults + lost < MaxFaults
  /\ lost' = lost + 1
  /\ Set(p, [phone[p] EXCEPT !.request = "none"])
  /\ silent' = TRUE
  /\ UNCHANGED <<vars, join, missed, overtaken, drops>>

(* The answer arrives: a sealed report is adopted, an error is shown, a 202  *)
(* changes nothing.                                                          *)
Answered(p) ==
  /\ phone[p].request = "sent"
  /\ pc[p] = "idle"
  /\ IF answer[p] = "sealed"
       THEN /\ Set(p, Shell([phone[p] EXCEPT !.copyError = FALSE], TRUE))
            /\ overtaken' = IF join[p].step = "joined" THEN overtaken \ {p} ELSE overtaken
       ELSE /\ Set(p, [phone[p] EXCEPT !.request = "none"])
            /\ UNCHANGED overtaken
  /\ UNCHANGED <<vars, join, silent, missed, lost, drops>>

(* 90 seconds have passed; the server goes on. *)
Timeout(p) ==
  /\ phone[p].request = "sent"
  /\ faults + lost < MaxFaults
  /\ lost' = lost + 1
  /\ Set(p, [phone[p] EXCEPT !.request = "none"])
  /\ UNCHANGED <<vars, join, silent, missed, overtaken, drops>>

-----------------------------------------------------------------------------
Disconnect(p) ==
  /\ Open(p)
  /\ join[p].step # "off"
  /\ crashes + drops < MaxDrops
  /\ drops' = drops + 1
  /\ SetJoin(p, At("off"))
  /\ missed' = missed \ {p}
  /\ overtaken' = overtaken \ {p}
  /\ UNCHANGED <<vars, phone, silent, lost>>

(* The phone has connected: session:join loads the session,                  *)
FindSession(p) ==
  /\ Open(p)
  /\ join[p].step = "off"
  /\ SetJoin(p, [At("found") EXCEPT !.session = session])
  /\ UNCHANGED <<vars, phone, silent, missed, overtaken, lost, drops>>

(* saves it, its status untouched, and enters the room,                      *)
EnterRoom(p) ==
  /\ join[p].step = "found"
  /\ SetJoin(p, [join[p] EXCEPT !.step = "entered"])
  /\ missed' = IF session \in LOCKED_STATUSES /\ join[p].session \notin LOCKED_STATUSES
                 THEN missed \cup {p} ELSE missed
  /\ UNCHANGED <<vars, phone, silent, overtaken, lost, drops>>

(* reads the report,                                                         *)
ReadReport(p) ==
  /\ join[p].step = "entered"
  /\ SetJoin(p, [join[p] EXCEPT !.step = "read",
                                !.sealed = report.status = "sealed",
                                !.error = report.lastError])
  /\ UNCHANGED <<vars, phone, silent, missed, overtaken, lost, drops>>

(* Mutant: a reconnecting phone keeps the copy of the report it has. *)
SnapshotLockOnly(ph, j) ==
  Shell([ph EXCEPT !.isLocked = @ \/ j.session \in LOCKED_STATUSES], j.sealed)

(* Mutant: a reconnecting phone goes by the status of the session. *)
SnapshotOfSession(ph, j) ==
  Shell([ph EXCEPT !.isLocked = @ \/ j.session \in LOCKED_STATUSES, !.copyError = j.error],
        j.session = "sealed")

(* Mutant: the screen is named after the status. *)
SnapshotNamed(ph, j) ==
  [Shell([ph EXCEPT !.copyError = j.error], j.sealed) EXCEPT !.screen = j.session]

(* _onSessionState: the copy of the report is replaced, the lock only ever   *)
(* set; finalizeErrorMessage stays.                                          *)
Snapshot(ph, j) ==
  Shell([ph EXCEPT !.isLocked = @ \/ j.session \in LOCKED_STATUSES, !.copyError = j.error],
        j.sealed)

(* and answers with session:state: the session as it was loaded, the report  *)
(* as it was read.                                                           *)
EmitState(p) ==
  /\ join[p].step = "read"
  /\ SetJoin(p, At("joined"))
  /\ Set(p, Snapshot(phone[p], join[p]))
  /\ UNCHANGED <<vars, silent, missed, overtaken, lost, drops>>

JoinGoesOn(p) == FindSession(p) \/ EnterRoom(p) \/ ReadReport(p) \/ EmitState(p)

(* SESSION_NOT_FOUND or INTERNAL_ERROR: the phone does not join again on     *)
(* this connection.                                                          *)
JoinFails(p) ==
  /\ Open(p)
  /\ faults + lost < MaxFaults
  /\ lost' = lost + 1
  /\ \/ join[p].step \in {"off", "found"} /\ SetJoin(p, At("outside"))
     \/ join[p].step = "entered" /\ SetJoin(p, At("deaf"))
  /\ UNCHANGED <<vars, phone, silent, missed, overtaken, drops>>

(* The app is closed.  Nothing in it leads back to a session: the home       *)
(* screen creates and joins, and a second join is refused.                   *)
Close(p) ==
  /\ Open(p)
  /\ Set(p, Closed)
  /\ SetJoin(p, At("off"))
  /\ missed' = missed \ {p}
  /\ overtaken' = overtaken \ {p}
  /\ UNCHANGED <<vars, silent, lost, drops>>

-----------------------------------------------------------------------------
HearLocked ==
  [p \in Callers |-> Shell([phone[p] EXCEPT !.isLocked = TRUE], IsComplete(phone[p]))]
HearAnchoring == [p \in Callers |-> [phone[p] EXCEPT !.liveError = FALSE]]
HearAnchorError == [p \in Callers |-> [phone[p] EXCEPT !.liveError = TRUE]]
HearSealed == [p \in Callers |-> Shell(phone[p], TRUE)]

(* Phones whose snapshot is still to come, and is older than the seal. *)
Overtaking == {p \in Callers : join[p].step = "read" /\ ~join[p].sealed}

(* What the steps of an attempt emit: `anchor active` on the way to the      *)
(* chain, its error once that is stored, and report:sealed at the end.       *)
Anchors(c) == pc[c] \in {"load", "bundle"} /\ pc'[c] = "anchor"
FailsToAnchor(c) == pc[c] = "anchorError"
Seals(c) == pc[c] \in {"loadSession", "sealSession"} /\ pc'[c] = "idle"

(* Everything else about progress is only shown. *)
StepOfAttempt(c) ==
  /\ Step(c)
  /\ \/ Anchors(c) /\ Heard(HearAnchoring) /\ UNCHANGED <<silent, overtaken>>
     \/ FailsToAnchor(c) /\ Heard(HearAnchorError) /\ silent' = FALSE /\ UNCHANGED overtaken
     \/ Seals(c) /\ Heard(HearSealed) /\ silent' = FALSE /\ overtaken' = overtaken \cup Overtaking
     \/ /\ ~ (Anchors(c) \/ FailsToAnchor(c) \/ Seals(c))
        /\ silent' = (silent \/ answer'[c] = "failed")
        /\ UNCHANGED <<phone, overtaken>>
  /\ UNCHANGED <<join, missed, lost, drops>>

(* A rejected call: only a failing anchor call goes on to tell the phones.   *)
AttemptRejects(c) ==
  /\ faults + lost < MaxFaults
  /\ CallRejects(c)
  /\ silent' = (silent \/ ~inFlight')
  /\ UNCHANGED <<phone, join, missed, overtaken, lost, drops>>

(* maybeLockReport broadcasts report:locked once both documents are saved.   *)
LockStep(l) ==
  /\ Lock(l)
  /\ IF locker'[l] = "done" THEN Heard(HearLocked) ELSE UNCHANGED phone
  /\ UNCHANGED <<join, silent, missed, overtaken, lost, drops>>

(* A restart breaks every connection. *)
Restart ==
  /\ crashes + drops < MaxDrops
  /\ Crash
  /\ join' = [p \in Callers |-> At("off")]
  /\ missed' = {}
  /\ overtaken' = {}
  /\ UNCHANGED <<phone, silent, lost, drops>>

ScreenInit == /\ Init
              /\ phone = [p \in Callers |-> Filling]
              /\ join = [p \in Callers |-> At("joined")]
              /\ silent = FALSE
              /\ missed = {}
              /\ overtaken = {}
              /\ lost = 0
              /\ drops = 0

(* What a phone does by itself, and the retry its user is offered: never two *)
(* of them at once.                                                          *)
Proceed(p) == AutoStart(p) \/ Arrive(p) \/ Answered(p) \/ Retry(p)

MineUnheard == Mine /\ UNCHANGED <<phone, join, silent, missed, overtaken, lost, drops>>

ScreenNext ==
  \/ \E p \in Callers : \/ Proceed(p) \/ RequestLost(p) \/ Timeout(p)
                        \/ Disconnect(p) \/ JoinGoesOn(p) \/ JoinFails(p) \/ Close(p)
                        \/ StepOfAttempt(p) \/ AttemptRejects(p)
  \/ \E l \in Lockers : LockStep(l)
  \/ MineUnheard
  \/ Restart

(* Fairness: the server serves the attempt it runs and a join it has         *)
(* received, the chain mines, an open app draws, sends and reconnects, and   *)
(* somebody who is offered to try again does.  Nothing says that an app is   *)
(* not closed.                                                               *)
ScreenSpec ==
  /\ ScreenInit /\ [][ScreenNext]_screenVars
  /\ WF_screenVars(\E c \in Callers : StepOfAttempt(c))
  /\ WF_screenVars(\E l \in Lockers : LockStep(l))
  /\ WF_screenVars(MineUnheard)
  /\ \A p \in Callers : WF_screenVars(Proceed(p)) /\ WF_screenVars(JoinGoesOn(p))

-----------------------------------------------------------------------------
ScreensOK == /\ phone \in [Callers -> Phone]
             /\ join \in [Callers -> Join]
             /\ silent \in BOOLEAN
             /\ missed \subseteq Callers
             /\ overtaken \subseteq Callers
             /\ lost \in Nat
             /\ drops \in Nat

Joined(p) == Open(p) /\ join[p].step = "joined"

(* Once an anchor failure is stored and nobody is finalizing, every phone    *)
(* that has joined and shows the finalizing screen offers to try again,      *)
(* whatever it has missed, unless a later attempt ended without a word.  (A  *)
(* report that was sealed once and reopened has a transaction to show: its   *)
(* registry row is done and offers nothing.)                                 *)
AnchorErrorIsOffered ==
  report.status = "finalizing" /\ report.lastError /\ ~report.anchored /\ ~inFlight /\ ~silent =>
    \A p \in Callers :
      LET ph == phone[p]
      IN  Joined(p) /\ ph.screen = "finalizing" /\ ph.request = "none" => OffersRetry(ph)

(* Once a report is sealed and the attempt that sealed it is over, every     *)
(* phone that has joined shows the complete report, whether it was connected *)
(* then, had asked, or came back later.  Two kinds of phone are left on the  *)
(* finalizing screen or the form: one told of the seal between the server's  *)
(* read of the report for it and its snapshot, which it then takes for the   *)
(* newer (overtaken, until it adopts the answer to a request of its own or   *)
(* joins again); and all of them when the attempt failed after the seal, as  *)
(* the session could not be loaded or saved: nobody is told (silent).        *)
SealedIsShown ==
  report.status = "sealed" /\ ~inFlight /\ ~silent =>
    \A p \in Callers \ overtaken : Joined(p) => IsComplete(phone[p])

(* A phone that cannot help to get the report anchored: closed, not joined   *)
(* after a failed session:join, or left on its form because its session was  *)
(* loaded before the lock and its socket in the room only after report:locked. *)
Excluded(p) == \/ ~Open(p)
               \/ join[p].step \in {"outside", "deaf"}
               \/ p \in missed /\ phone[p].screen = "form"

(* A locked report gets anchored as long as somebody keeps the app open,     *)
(* through lost connections, expired requests and failing anchor calls.      *)
(* Only these stop it: a restart of the server, an attempt or a request that *)
(* ended without a word, and every phone left being excluded.                *)
AnchoredOrAbandoned ==
  session = "signing" ~> \/ record # NoPayload
                         \/ \A p \in Callers : Excluded(p)
                         \/ silent
                         \/ crashes > 0

(* Sealing goes on once the finalizing screen says so, whoever closes the     *)
(* app ('Zapecacivanje se nastavlja').                                        *)
SealingGoesOn == (\E p \in Callers : phone[p].screen = "finalizing") ~> record # NoPayload

=============================================================================
