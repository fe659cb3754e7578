------------------------------ MODULE Sessions ------------------------------
(***************************************************************************)
(* How two phones meet: POST /api/sessions and POST /api/sessions/:code/   *)
(* join (routes/sessions.js), the choice of a code                         *)
(* (services/session-code.service.js), the expiry of a session             *)
(* (models/Session.js) and the devices of a report (models/Report.js), by  *)
(* which GET /api/reports (routes/reports.js) lists it in the history of   *)
(* each phone.                                                             *)
(*                                                                         *)
(* Every awaited call is a step.  A session, its report and the phone that *)
(* asked for them are named after the request that creates them.           *)
(***************************************************************************)
EXTENDS Naturals, FiniteSets

CONSTANTS Creators,     \* POST sessions requests, each of its own phone
          Guests,       \* phones that join; one may ask again and again
          Codes,        \* session codes
          None,         \* no session, no code
          MaxAttempts,  \* session-code.service.js: MAX_ATTEMPTS
          MaxFailures   \* bound: calls that reject, lost answers, restarts

ASSUME SessionsAssumption == /\ MaxAttempts \in Nat \ {0}
                             /\ MaxFailures \in Nat
                             /\ None \notin Creators
                             /\ None \notin Codes

VARIABLES session,   \* status of each Session document, "none" if there is none
          code,      \* its sessionCode, from the moment it is chosen
          expired,   \* sessions whose expiresAt has passed
          devices,   \* deviceIds of each Report document, {} if there is none
          linked,    \* reports with a sessionId
          pc,        \* the next awaited call of each creation
          attempts,  \* codes each creation has tried in vain
          joining,   \* the next awaited call of each join
          asked,     \* the creator whose code each guest typed or scanned
          target,    \* the session each join has loaded
          inside,    \* the session each guest was let into
          overlapped,\* ghost: creations that chose a code another one was about to save
          late,      \* joins the server goes on with after the phone has given up
          raced,     \* ghost: sessions two joins have found waiting
          failures

creation == <<pc, attempts, code, overlapped>>
join == <<joining, asked, target, inside, late, raced>>
stored == <<session, expired, devices, linked>>
vars == <<stored, creation, join, failures>>

-----------------------------------------------------------------------------
Devices == Creators \cup Guests

Statuses == {"none", "waiting", "joined", "signing"}

(* GET /api/reports?deviceId=: the reports in the history of a phone. *)
History(d) == {c \in Creators : d \in devices[c]}

(* A document findOne may return for a code: not expired. *)
Live(c) == session[c] # "none" /\ c \notin expired

Init ==
  /\ session = [c \in Creators |-> "none"]
  /\ code = [c \in Creators |-> None]
  /\ expired = {}
  /\ devices = [c \in Creators |-> {}]
  /\ linked = {}
  /\ pc = [c \in Creators |-> "pick"]
  /\ attempts = [c \in Creators |-> 0]
  /\ joining = [g \in Guests |-> "idle"]
  /\ asked = [g \in Guests |-> None]
  /\ target = [g \in Guests |-> None]
  /\ inside = [g \in Guests |-> None]
  /\ late = {}
  /\ overlapped = {}
  /\ raced = {}
  /\ failures = 0

Goto(c, step) == pc' = [pc EXCEPT ![c] = step]

GuestGoto(g, step) == joining' = [joining EXCEPT ![g] = step]

-----------------------------------------------------------------------------
(* Creations that have chosen a code and not saved the session yet. *)
Choosing(k) == {d \in Creators : pc[d] \in {"report", "session"} /\ code[d] = k}

Choose(c, k) ==
  /\ Goto(c, "report")
  /\ code' = [code EXCEPT ![c] = k]
  /\ overlapped' = IF Choosing(k) = {} THEN overlapped ELSE overlapped \cup {c}
  /\ UNCHANGED attempts

(* Mutant: after the last attempt the code at hand is taken. *)
PickCodeAnyway(c) ==
  /\ pc[c] = "pick"
  /\ \E k \in Codes :
       IF attempts[c] + 1 < MaxAttempts /\ \E d \in Creators : Live(d) /\ code[d] = k
         THEN /\ attempts' = [attempts EXCEPT ![c] = @ + 1]
              /\ UNCHANGED <<pc, code, overlapped>>
         ELSE Choose(c, k)
  /\ UNCHANGED <<stored, join, failures>>

(* Mutant: one attempt too many. *)
PickCodeOnceMore(c) ==
  /\ pc[c] = "pick"
  /\ \E k \in Codes :
       \/ /\ ~ \E d \in Creators : Live(d) /\ code[d] = k
          /\ Choose(c, k)
       \/ /\ \E d \in Creators : Live(d) /\ code[d] = k
          /\ attempts' = [attempts EXCEPT ![c] = @ + 1]
          /\ IF attempts[c] = MaxAttempts THEN Goto(c, "failed") ELSE UNCHANGED pc
          /\ UNCHANGED <<code, overlapped>>
  /\ UNCHANGED <<stored, join, failures>>

(* generateUniqueSessionCode: a random code that no live session has, or an *)
(* error after the last attempt.                                            *)
PickCode(c) ==
  /\ pc[c] = "pick"
  /\ \E k \in Codes :
       \/ /\ ~ \E d \in Creators : Live(d) /\ code[d] = k
          /\ Choose(c, k)
       \/ /\ \E d \in Creators : Live(d) /\ code[d] = k
          /\ attempts' = [attempts EXCEPT ![c] = @ + 1]
          /\ IF attempts'[c] = MaxAttempts THEN Goto(c, "failed") ELSE UNCHANGED pc
          /\ UNCHANGED <<code, overlapped>>
  /\ UNCHANGED <<stored, join, failures>>

CreateReport(c) ==
  /\ pc[c] = "report"
  /\ devices' = [devices EXCEPT ![c] = {c}]
  /\ Goto(c, "session")
  /\ UNCHANGED <<session, expired, linked, attempts, code, overlapped, join, failures>>

CreateSession(c) ==
  /\ pc[c] = "session"
  /\ session' = [session EXCEPT ![c] = "waiting"]
  /\ Goto(c, "link")
  /\ UNCHANGED <<expired, devices, linked, attempts, code, overlapped, join, failures>>

(* report.save() sends the session's id; the phone is answered and shows the *)
(* code.                                                                     *)
LinkReport(c) ==
  /\ pc[c] = "link"
  /\ linked' = linked \cup {c}
  /\ Goto(c, "shown")
  /\ UNCHANGED <<session, expired, devices, attempts, code, overlapped, join, failures>>

(* One of the creation's calls rejects, or the answer is lost: the phone shows *)
(* an error.  Nothing takes back what was created.  (A creation the server    *)
(* goes on with after its phone gave up is one whose code nobody asks for.)   *)
CreationFails(c) ==
  /\ pc[c] \in {"pick", "report", "session", "link"}
  /\ failures < MaxFailures
  /\ failures' = failures + 1
  /\ linked' \in IF pc[c] = "link" THEN {linked, linked \cup {c}} ELSE {linked}
  /\ Goto(c, "failed")
  /\ UNCHANGED <<session, expired, devices, attempts, code, overlapped, join>>

-----------------------------------------------------------------------------
(* Mutant: findOne without the condition on expiresAt. *)
MatchingExpired(k) == {d \in Creators : session[d] # "none" /\ code[d] = k}

(* The sessions findOne may return. *)
Matching(k) == {d \in Creators : Live(d) /\ code[d] = k}

(* Mutant: any session found may be joined. *)
AdmitAny(g, d) ==
  /\ GuestGoto(g, "save")
  /\ target' = [target EXCEPT ![g] = d]
  /\ UNCHANGED raced

(* Joins that have found session d waiting and not saved it yet. *)
Saving(d) == {g \in Guests : joining[g] = "save" /\ target[g] = d}
               \cup {r \in late : r.step = "save" /\ r.at = d}

(* The status check on the session loaded: 409, or on with the join. *)
Admit(g, d) ==
  \/ session[d] # "waiting" /\ UNCHANGED <<joining, target, raced>>
  \/ /\ session[d] = "waiting"
     /\ GuestGoto(g, "save")
     /\ target' = [target EXCEPT ![g] = d]
     /\ raced' = IF Saving(d) = {} THEN raced ELSE raced \cup {d}

(* A guest types or scans the code another phone shows.  404 and 409 leave    *)
(* it where it was.                                                           *)
FindSession(g) ==
  /\ joining[g] = "idle"
  /\ inside[g] = None
  /\ \E c \in Creators :
       /\ pc[c] = "shown"
       /\ asked' = [asked EXCEPT ![g] = c]
       /\ \/ Matching(code[c]) = {} /\ UNCHANGED <<joining, target, raced>>
          \/ \E d \in Matching(code[c]) : Admit(g, d)
  /\ UNCHANGED <<stored, creation, inside, late, failures>>

Leave(g) == /\ GuestGoto(g, "idle")
            /\ target' = [target EXCEPT ![g] = None]

Enter(g) == /\ Leave(g)
            /\ inside' = [inside EXCEPT ![g] = target[g]]

(* Mutant: the answer does not wait for the device to be stored. *)
SaveJoinedAnswered(g) ==
  /\ joining[g] = "save"
  /\ session[target[g]] # "none"
  /\ session' = [session EXCEPT ![target[g]] = "joined"]
  /\ Enter(g)
  /\ UNCHANGED <<expired, devices, linked, creation, asked, late, raced, failures>>

(* session.save() sends the status, whatever it has become; it rejects if the *)
(* TTL index has removed the document.                                        *)
SaveJoined(g) ==
  /\ joining[g] = "save"
  /\ \/ /\ session[target[g]] = "none"
        /\ Leave(g)
        /\ UNCHANGED session
     \/ /\ session[target[g]] # "none"
        /\ session' = [session EXCEPT ![target[g]] = "joined"]
        /\ GuestGoto(g, "device")
        /\ UNCHANGED target
  /\ UNCHANGED <<expired, devices, linked, creation, asked, inside, late, raced, failures>>

(* Report.updateOne adds the device to the set, and the guest is let in. *)
AddDevice(g) ==
  /\ joining[g] = "device"
  /\ devices' = [devices EXCEPT ![target[g]] = @ \cup {g}]
  /\ Enter(g)
  /\ UNCHANGED <<session, expired, linked, creation, asked, late, raced, failures>>

(* One of the join's calls rejects.  Nothing takes back the status saved.     *)
JoinFails(g) ==
  /\ joining[g] \in {"save", "device"}
  /\ failures < MaxFailures
  /\ failures' = failures + 1
  /\ Leave(g)
  /\ UNCHANGED <<stored, creation, asked, inside, late, raced>>

(* No answer arrives within the phone's 8 seconds, or it is lost: the phone   *)
(* shows an error and may ask again; the server goes on with the request.     *)
JoinTimesOut(g) ==
  /\ joining[g] \in {"save", "device"}
  /\ failures < MaxFailures
  /\ failures' = failures + 1
  /\ late' = late \cup {[phone |-> g, at |-> target[g], step |-> joining[g]]}
  /\ Leave(g)
  /\ UNCHANGED <<stored, creation, asked, inside, raced>>

(* The calls of such a request: SaveJoined and AddDevice, for nobody. *)
LateSave(r) ==
  /\ r.step = "save"
  /\ \/ /\ session[r.at] = "none"
        /\ late' = late \ {r}
        /\ UNCHANGED session
     \/ /\ session[r.at] # "none"
        /\ session' = [session EXCEPT ![r.at] = "joined"]
        /\ late' = (late \ {r}) \cup {[r EXCEPT !.step = "device"]}
  /\ UNCHANGED <<expired, devices, linked, creation, joining, asked, target, inside, raced, failures>>

LateDevice(r) ==
  /\ r.step = "device"
  /\ devices' = [devices EXCEPT ![r.at] = @ \cup {r.phone}]
  /\ late' = late \ {r}
  /\ UNCHANGED <<session, expired, linked, creation, joining, asked, target, inside, raced, failures>>

LateFails(r) ==
  /\ failures < MaxFailures
  /\ failures' = failures + 1
  /\ late' = late \ {r}
  /\ UNCHANGED <<stored, creation, joining, asked, target, inside, raced>>

-----------------------------------------------------------------------------
(* maybeLockReport (module SignOff): both parties, who are inside, have signed. *)
Lock(c) ==
  /\ session[c] = "joined"
  /\ c \in linked
  /\ \E g \in Guests : inside[g] = c
  /\ session' = [session EXCEPT ![c] = "signing"]
  /\ UNCHANGED <<expired, devices, linked, creation, join, failures>>

(* SESSION_TTL_MS passes, long after the creation, ... *)
Expire(c) ==
  /\ Live(c)
  /\ pc[c] \in {"shown", "failed"}
  /\ expired' = expired \cup {c}
  /\ UNCHANGED <<session, devices, linked, creation, join, failures>>

(* ... and MongoDB removes the document some time later. *)
Reap(c) ==
  /\ c \in expired
  /\ session[c] # "none"
  /\ session' = [session EXCEPT ![c] = "none"]
  /\ UNCHANGED <<expired, devices, linked, creation, join, failures>>

(* The server restarts: requests are lost. *)
Crash ==
  /\ failures < MaxFailures
  /\ failures' = failures + 1
  /\ pc' = [c \in Creators |-> IF pc[c] = "shown" THEN "shown" ELSE "failed"]
  /\ joining' = [g \in Guests |-> "idle"]
  /\ target' = [g \in Guests |-> None]
  /\ late' = {}
  /\ UNCHANGED <<stored, attempts, code, overlapped, asked, inside, raced>>

Next ==
  \/ \E c \in Creators : \/ PickCode(c) \/ CreateReport(c) \/ CreateSession(c)
                         \/ LinkReport(c) \/ CreationFails(c)
                         \/ Lock(c) \/ Expire(c) \/ Reap(c)
  \/ \E g \in Guests : \/ FindSession(g) \/ SaveJoined(g) \/ AddDevice(g)
                       \/ JoinFails(g) \/ JoinTimesOut(g)
  \/ \E r \in late : LateSave(r) \/ LateDevice(r) \/ LateFails(r)
  \/ Crash

Spec == Init /\ [][Next]_vars

-----------------------------------------------------------------------------
TypeOK ==
  /\ session \in [Creators -> Statuses]
  /\ code \in [Creators -> Codes \cup {None}]
  /\ expired \subseteq Creators
  /\ devices \in [Creators -> SUBSET Devices]
  /\ linked \subseteq Creators
  /\ pc \in [Creators -> {"pick", "report", "session", "link", "shown", "failed"}]
  /\ attempts \in [Creators -> 0..MaxAttempts]
  /\ joining \in [Guests -> {"idle", "save", "device"}]
  /\ asked \in [Guests -> Creators \cup {None}]
  /\ target \in [Guests -> Creators \cup {None}]
  /\ inside \in [Guests -> Creators \cup {None}]
  /\ late \subseteq [phone : Guests, at : Creators, step : {"save", "device"}]
  /\ overlapped \subseteq Creators
  /\ raced \subseteq Creators
  /\ failures \in Nat

(* A code names one live session, unless the creations of two overlapped:    *)
(* codes are reused only after the session that had them has expired.        *)
CodeNamesOneSession ==
  \A c, d \in Creators :
    c # d /\ Live(c) /\ Live(d) /\ code[c] = code[d] => {c, d} \cap overlapped # {}

(* A guest is let into the session whose code it was shown, unless two        *)
(* creations overlapped or that session has expired, after which its code may *)
(* name another one.                                                          *)
JoinReachesShown ==
  \A g \in Guests :
    inside[g] # None =>
      \/ inside[g] = asked[g]
      \/ {inside[g], asked[g]} \cap overlapped # {}
      \/ asked[g] \in expired

(* A session lets one guest in, however many ask, retry, fail or crash,       *)
(* unless two joins found it waiting.                                         *)
OnePartyB ==
  \A g, h \in Guests :
    inside[g] # None /\ inside[g] = inside[h] => g = h \/ inside[g] \in raced

(* The report of a session is in the history of whoever is in the session:    *)
(* of the phone that shows the code, and of the guest that was let in.        *)
InsideIsListed ==
  /\ \A c \in Creators : pc[c] = "shown" => c \in History(c) \cap linked
  /\ \A g \in Guests : inside[g] # None => inside[g] \in History(g)

(* No join sets a locked session back to joined, unless two joins found it    *)
(* waiting.                                                                   *)
JoinNeverUnlocks ==
  [][\A c \in Creators \ raced : session[c] = "signing" => session'[c] # "joined"]_vars

=============================================================================
