---------------------- MODULE FinalizingScreensProofs ----------------------
(***************************************************************************)
(* For any number of phones, late lockers, faults, lost connections and    *)
(* restarts: a phone that has joined knows of an anchor failure that nobody*)
(* is repairing, and of a seal, unless an attempt ended without a word to  *)
(* the phones or the word came before an older snapshot.                   *)
(***************************************************************************)
EXTENDS FinalizingScreens, FinalizeProofs

(* A phone knows of the stored error, live or from its copy, or is about   *)
(* to: its snapshot carries it, or will be read from the store.            *)
KnowsOfError(p) ==
  /\ join[p].step = "joined" => IsComplete(phone[p]) \/ KnowsError(phone[p])
  /\ join[p].step = "read" => phone[p].liveError \/ join[p].error

(* The same for the seal, but for phones told of it too early.             *)
KnowsOfSeal(p) ==
  \/ p \in overtaken
  \/ /\ join[p].step = "joined" => IsComplete(phone[p])
     /\ join[p].step = "read" => join[p].sealed

(* Every open phone knows of the stored error once nobody is finalizing,   *)
Offers ==
  report.status = "finalizing" /\ report.lastError /\ ~inFlight /\ ~silent =>
    \A p \in Callers : Open(p) => KnowsOfError(p)

(* and of the seal, as soon as the attempt that sealed is over,            *)
SealHeard ==
  report.status = "sealed" /\ ~silent =>
    \/ \A p \in Callers : Open(p) => KnowsOfSeal(p)
    \/ \E c \in Callers : pc[c] \in {"loadSession", "sealSession"}

(* which nobody else takes for a report that is being finalized.           *)
SealingIsQuiet ==
  \A c \in Callers : pc[c] \in {"loadSession", "sealSession"} => report.status # "finalizing"

(* Only the finalizing screen waits for an answer, and a closed app has no *)
(* connection.                                                             *)
Coherent(p) == /\ phone[p].request = "sent" => phone[p].screen = "finalizing"
               /\ phone[p].screen = "closed" => join[p].step = "off"

ScreenInv == /\ SealInv
             /\ ScreensOK
             /\ \A p \in Callers : Coherent(p)
             /\ SealingIsQuiet
             /\ Offers
             /\ SealHeard

(* A step that leaves no phone knowing less.                               *)
Remembers(p) ==
  /\ Coherent(p)'
  /\ Open(p)' => /\ Open(p)
                 /\ report.lastError /\ KnowsOfError(p) => KnowsOfError(p)'
                 /\ report.status = "sealed" /\ KnowsOfSeal(p) => KnowsOfSeal(p)'

NobodyForgets == \A p \in Callers : Remembers(p)

-----------------------------------------------------------------------------
LEMMA StartingPlaces ==
  /\ \A s \in JoinSteps : At(s) \in Join /\ At(s).step = s
  /\ \A s \in JoinSteps : At(s).session \notin LOCKED_STATUSES /\ ~At(s).sealed
  BY DEF At, Join, STATUSES, LOCKED_STATUSES

LEMMA ScreensInitially == ScreenInit => ScreenInv
<1> SUFFICES ASSUME ScreenInit PROVE ScreenInv
  OBVIOUS
<1>1. SealInv
  BY InitSeals DEF ScreenInit
<1>2. ScreensOK
  <2>1. Filling \in Phone
    BY DEF Phone, Screens, Filling
  <2>2. At("joined") \in Join
    BY StartingPlaces DEF JoinSteps
  <2> QED
    BY <2>1, <2>2 DEF ScreenInit, ScreensOK
<1>3. Offers /\ SealHeard /\ SealingIsQuiet
  BY DEF ScreenInit, Init, Unlocked, Offers, SealHeard, SealingIsQuiet
<1>4. \A p \in Callers : Coherent(p)
  BY DEF ScreenInit, Coherent, Filling
<1> QED
  BY <1>1, <1>2, <1>3, <1>4 DEF ScreenInv

(* The fields of a phone, and what updates leave of them.                  *)
LEMMA PhoneFields ==
  ASSUME NEW ph \in Phone
  PROVE  /\ ph.screen \in Screens
         /\ ph.isLocked \in BOOLEAN
         /\ ph.request \in {"none", "sending", "sent"}
         /\ ph.liveError \in BOOLEAN
         /\ ph.copyError \in BOOLEAN
  BY DEF Phone

LEMMA RequestUpdates ==
  ASSUME NEW ph \in Phone, NEW r \in {"none", "sending", "sent"}
  PROVE  /\ [ph EXCEPT !.request = r] \in Phone
         /\ [ph EXCEPT !.request = r].screen = ph.screen
         /\ [ph EXCEPT !.request = r].liveError = ph.liveError
         /\ (KnowsError([ph EXCEPT !.request = r]) <=> KnowsError(ph))
  BY DEF Phone, KnowsError

LEMMA CopyUpdates ==
  ASSUME NEW ph \in Phone, NEW b \in BOOLEAN
  PROVE  /\ [ph EXCEPT !.copyError = b] \in Phone
         /\ [ph EXCEPT !.copyError = b].liveError = ph.liveError
  BY DEF Phone

(* The shell decides on the screen and on what becomes of the request.     *)
LEMMA ShellFields ==
  ASSUME NEW ph \in Phone, NEW sealed \in BOOLEAN
  PROVE  /\ Shell(ph, sealed) \in Phone
         /\ Shell(ph, sealed).liveError = ph.liveError
         /\ Shell(ph, sealed).copyError = ph.copyError
         /\ Shell(ph, sealed).isLocked = ph.isLocked
         /\ IsComplete(Shell(ph, sealed)) <=> sealed
         /\ ~sealed /\ ~ph.isLocked => Shell(ph, sealed).screen = "form"
         /\ ph.request = "none" => Shell(ph, sealed).request = "none"
         /\ Shell(ph, sealed).screen # "closed"
         /\ Shell(ph, sealed).request = "sent" => Shell(ph, sealed).screen = "finalizing"
<1> DEFINE screen == IF sealed THEN "complete"
                     ELSE IF ~ph.isLocked THEN "form"
                     ELSE IF ph.screen \in {"opened", "finalizing"} THEN ph.screen
                     ELSE "opened"
           request == IF ph.request = "sent" /\ screen # "finalizing" THEN "none" ELSE ph.request
<1>1. screen \in Screens
  BY DEF Screens
<1>2. request \in {"none", "sending", "sent"}
  BY PhoneFields
<1>3. Shell(ph, sealed) = [ph EXCEPT !.screen = screen, !.request = request]
  BY DEF Shell
<1>4. screen = "complete" <=> sealed
  OBVIOUS
<1>5. ~sealed /\ ~ph.isLocked => screen = "form"
  OBVIOUS
<1>6. ph.request = "none" => request = "none"
  OBVIOUS
<1>7. screen # "closed" /\ (request = "sent" => screen = "finalizing")
  OBVIOUS
<1> HIDE DEF screen, request
<1> QED
  BY <1>1, <1>2, <1>3, <1>4, <1>5, <1>6, <1>7 DEF Phone, IsComplete

LEMMA ClosedIsPhone == Closed \in Phone /\ Closed.screen = "closed"
  BY DEF Closed, Filling, Phone, Screens

(* A phone that changes while all others stay as they are.                 *)
LEMMA OnePhoneForgetsNothing ==
  ASSUME NEW p \in Callers, \A q \in Callers : Coherent(q), Remembers(p),
         \A q \in Callers : q # p => /\ phone'[q] = phone[q]
                                     /\ join'[q] = join[q]
                                     /\ (q \in overtaken => q \in overtaken')
  PROVE  NobodyForgets
<1> SUFFICES ASSUME NEW q \in Callers, q # p PROVE Remembers(q)
  BY DEF NobodyForgets
<1>1. phone'[q] = phone[q] /\ join'[q] = join[q] /\ (q \in overtaken => q \in overtaken')
  OBVIOUS
<1>2. Open(q)' => Open(q)
  BY <1>1 DEF Open
<1>3. KnowsOfError(q) => KnowsOfError(q)'
  BY <1>1 DEF KnowsOfError
<1>4. KnowsOfSeal(q) => KnowsOfSeal(q)'
  BY <1>1 DEF KnowsOfSeal
<1>5. Coherent(q)'
  BY <1>1 DEF Coherent
<1> QED
  BY <1>2, <1>3, <1>4, <1>5 DEF Remembers

LEMMA StayingForgetsNothing ==
  ASSUME UNCHANGED <<phone, join, overtaken>>, \A p \in Callers : Coherent(p)
  PROVE  NobodyForgets
  BY DEF NobodyForgets, Remembers, Coherent, Open, KnowsOfError, KnowsOfSeal

(* What is said of the stored report then stays true, ...                  *)
LEMMA OfferedStill ==
  ASSUME Offers, NobodyForgets,
         UNCHANGED <<report, inFlight>>, ~silent' => ~silent
  PROVE  Offers'
  BY DEF Offers, NobodyForgets, Remembers

LEMMA HeardStill ==
  ASSUME SealHeard, NobodyForgets,
         UNCHANGED <<report, pc>>, ~silent' => ~silent
  PROVE  SealHeard'
  BY DEF SealHeard, NobodyForgets, Remembers

(* ... so a step outside the server keeps the invariant.                   *)
LEMMA PhoneStepKeeps ==
  ASSUME ScreenInv, NobodyForgets, ScreensOK', UNCHANGED vars, ~silent' => ~silent
  PROVE  ScreenInv'
<1>1. SealInv'
  BY NextKeeps DEF ScreenInv
<1>2. UNCHANGED <<report, inFlight, pc>>
  BY DEF vars, server, caller
<1>3. Offers' /\ SealHeard'
  BY <1>2, OfferedStill, HeardStill DEF ScreenInv
<1>4. SealingIsQuiet'
  BY <1>2 DEF ScreenInv, SealingIsQuiet
<1> QED
  BY <1>1, <1>3, <1>4 DEF ScreenInv, NobodyForgets, Remembers

-----------------------------------------------------------------------------
(* The phones' own steps.  A phone whose request or whose finalizing screen *)
(* changes knows what it knew.                                             *)
LEMMA PhoneForgetsNothing ==
  ASSUME ScreenInv, NEW p \in Callers, NEW ph \in Phone, Set(p, ph), UNCHANGED <<join, overtaken>>,
         ph.screen # "closed" => Open(p),
         ph.screen = "closed" => phone[p].screen = "closed",
         ph.request = "sent" => ph.screen = "finalizing",
         ph.liveError = phone[p].liveError, (KnowsError(ph) <=> KnowsError(phone[p])),
         IsComplete(phone[p]) => IsComplete(ph)
  PROVE  NobodyForgets /\ phone' \in [Callers -> Phone]
<1>1. phone' \in [Callers -> Phone] /\ phone'[p] = ph
  BY DEF Set, ScreenInv, ScreensOK
<1>2. \A q \in Callers : q # p => phone'[q] = phone[q]
  BY DEF Set, ScreenInv, ScreensOK
<1>3. KnowsOfError(p) => KnowsOfError(p)'
  BY <1>1 DEF KnowsOfError
<1>4. KnowsOfSeal(p) => KnowsOfSeal(p)'
  BY <1>1 DEF KnowsOfSeal
<1>5. Coherent(p)' /\ \A q \in Callers : Coherent(q)
  BY <1>1 DEF ScreenInv, Coherent
<1>6. Remembers(p)
  BY <1>1, <1>3, <1>4, <1>5 DEF Remembers, Open
<1> QED
  BY <1>1, <1>2, <1>5, <1>6, OnePhoneForgetsNothing

LEMMA RequestForgetsNothing ==
  ASSUME ScreenInv, NEW p \in Callers, NEW r \in {"none", "sending", "sent"},
         r = "sent" => phone[p].screen = "finalizing",
         Set(p, [phone[p] EXCEPT !.request = r]), UNCHANGED <<join, overtaken>>
  PROVE  NobodyForgets /\ phone' \in [Callers -> Phone]
<1>1. phone[p] \in Phone /\ phone[p].screen \in Screens
  BY PhoneFields DEF ScreenInv, ScreensOK
<1>2. PICK ph : ph = [phone[p] EXCEPT !.request = r]
  OBVIOUS
<1>3. /\ ph \in Phone
      /\ ph.screen = phone[p].screen
      /\ ph.liveError = phone[p].liveError
      /\ (KnowsError(ph) <=> KnowsError(phone[p]))
  <2>1. LET x == [phone[p] EXCEPT !.request = r]
        IN  /\ x \in Phone
            /\ x.screen = phone[p].screen
            /\ x.liveError = phone[p].liveError
            /\ (KnowsError(x) <=> KnowsError(phone[p]))
    BY <1>1, RequestUpdates
  <2> QED
    BY <1>2, <2>1
<1>4. ph.request = r
  BY <1>1, <1>2 DEF Phone
<1>5. Set(p, ph)
  BY <1>2
<1>6. ph.screen # "closed" => Open(p)
  BY <1>3 DEF Open
<1> QED
  BY <1>3, <1>4, <1>5, <1>6, PhoneForgetsNothing DEF IsComplete

LEMMA AutoStartKeeps ==
  ASSUME ScreenInv, NEW p \in Callers, AutoStart(p)
  PROVE  ScreenInv'
<1>1. ScreensOK /\ phone[p] \in Phone
  BY DEF ScreenInv, ScreensOK
<1>2. PICK r \in {"none", "sending", "sent"} :
        Set(p, [phone[p] EXCEPT !.screen = "finalizing", !.request = r])
  <2>1. CASE KnowsError(phone[p])
    <3>1. phone[p].request \in {"none", "sending", "sent"}
      BY <1>1, PhoneFields
    <3> QED
      BY <2>1, <3>1 DEF AutoStart
  <2>2. CASE ~KnowsError(phone[p])
    BY <2>2 DEF AutoStart
  <2> QED
    BY <2>1, <2>2
<1>3. PICK ph : ph = [phone[p] EXCEPT !.screen = "finalizing", !.request = r]
  OBVIOUS
<1>4. "finalizing" \in Screens
  BY DEF Screens
<1>5. /\ ph \in Phone
      /\ ph.screen = "finalizing"
      /\ ph.liveError = phone[p].liveError
      /\ (KnowsError(ph) <=> KnowsError(phone[p]))
  <2>1. LET x == [phone[p] EXCEPT !.screen = "finalizing", !.request = r]
        IN  /\ x \in Phone
            /\ x.screen = "finalizing"
            /\ x.liveError = phone[p].liveError
            /\ (KnowsError(x) <=> KnowsError(phone[p]))
    BY <1>1, <1>2, <1>4 DEF Phone, KnowsError
  <2> QED
    BY <1>3, <2>1
<1>6. Set(p, ph)
  BY <1>2, <1>3
<1>7. /\ UNCHANGED <<vars, join, silent, missed, overtaken, lost, drops>>
      /\ phone[p].screen = "opened"
  BY DEF AutoStart
<1>8. Open(p) /\ ~IsComplete(phone[p])
  BY <1>7 DEF Open, IsComplete
<1>9. NobodyForgets /\ phone' \in [Callers -> Phone]
  BY <1>5, <1>6, <1>7, <1>8, PhoneForgetsNothing
<1>10. ScreensOK'
  BY <1>1, <1>7, <1>9 DEF ScreensOK
<1> QED
  BY <1>7, <1>9, <1>10, PhoneStepKeeps

LEMMA RetryKeeps ==
  ASSUME ScreenInv, NEW p \in Callers, Retry(p)
  PROVE  ScreenInv'
<1>1. ScreensOK
  BY DEF ScreenInv
<1>2. /\ UNCHANGED <<vars, join, silent, missed, overtaken, lost, drops>>
      /\ Set(p, [phone[p] EXCEPT !.request = "sending"])
  BY DEF Retry
<1>3. NobodyForgets /\ phone' \in [Callers -> Phone]
  BY <1>2, RequestForgetsNothing
<1>4. ScreensOK'
  BY <1>1, <1>2, <1>3 DEF ScreensOK
<1> QED
  BY <1>2, <1>3, <1>4, PhoneStepKeeps

(* A request that is lost on its way changes nothing on the server.        *)
LEMMA LostOnTheWayKeeps ==
  ASSUME ScreenInv, NEW p \in Callers, RequestLost(p) \/ Timeout(p)
  PROVE  ScreenInv'
<1>1. ScreensOK
  BY DEF ScreenInv
<1>2. /\ UNCHANGED <<vars, join, missed, overtaken, drops>>
      /\ lost' = lost + 1
      /\ silent' \in BOOLEAN
      /\ ~silent' => ~silent
      /\ Set(p, [phone[p] EXCEPT !.request = "none"])
  BY <1>1 DEF RequestLost, Timeout, ScreensOK
<1>3. NobodyForgets /\ phone' \in [Callers -> Phone]
  BY <1>2, RequestForgetsNothing
<1>4. ScreensOK'
  BY <1>1, <1>2, <1>3 DEF ScreensOK
<1> QED
  BY <1>2, <1>3, <1>4, PhoneStepKeeps

(* An adopted answer makes the screen the complete report's.               *)
LEMMA AnsweredKeeps ==
  ASSUME ScreenInv, NEW p \in Callers, Answered(p)
  PROVE  ScreenInv'
<1>1. ScreensOK /\ phone[p] \in Phone
  BY DEF ScreenInv, ScreensOK
<1>2. UNCHANGED <<vars, join, silent, missed, lost, drops>>
  BY DEF Answered
<1>3. CASE answer[p] # "sealed"
  <2>1. Set(p, [phone[p] EXCEPT !.request = "none"]) /\ UNCHANGED overtaken
    BY <1>3 DEF Answered
  <2>2. NobodyForgets /\ phone' \in [Callers -> Phone]
    BY <1>2, <2>1, RequestForgetsNothing
  <2>3. ScreensOK'
    BY <1>1, <1>2, <2>1, <2>2 DEF ScreensOK
  <2> QED
    BY <1>2, <2>2, <2>3, PhoneStepKeeps
<1>4. CASE answer[p] = "sealed"
  <2>1. PICK ph : ph = Shell([phone[p] EXCEPT !.copyError = FALSE], TRUE)
    OBVIOUS
  <2>2. [phone[p] EXCEPT !.copyError = FALSE] \in Phone
    BY <1>1, CopyUpdates
  <2>3. /\ ph \in Phone /\ IsComplete(ph) /\ ph.screen # "closed"
        /\ ph.request = "sent" => ph.screen = "finalizing"
    BY <2>1, <2>2, ShellFields
  <2>4. ph.liveError = phone[p].liveError
    <3>1. [phone[p] EXCEPT !.copyError = FALSE].liveError = phone[p].liveError
      BY <1>1, CopyUpdates
    <3> QED
      BY <2>1, <2>2, <3>1, ShellFields
  <2>5. Set(p, ph) /\ overtaken' = IF join[p].step = "joined" THEN overtaken \ {p} ELSE overtaken
    BY <1>4, <2>1 DEF Answered
  <2>6. /\ phone' \in [Callers -> Phone]
        /\ phone'[p] = ph
        /\ \A q \in Callers : q # p => phone'[q] = phone[q] /\ (q \in overtaken => q \in overtaken')
    BY <1>1, <2>3, <2>5 DEF Set, ScreensOK
  <2>7. \A q \in Callers : Coherent(q)
    BY DEF ScreenInv
  <2>8. Open(p)
    BY <2>7 DEF Answered, Coherent, Open
  <2>9. KnowsOfError(p) => KnowsOfError(p)'
    BY <1>2, <2>3, <2>4, <2>6 DEF KnowsOfError
  <2>10. KnowsOfSeal(p) => KnowsOfSeal(p)'
    BY <1>2, <2>3, <2>5, <2>6 DEF KnowsOfSeal
  <2>11. Coherent(p)'
    BY <1>2, <2>3, <2>6 DEF Coherent
  <2>12. NobodyForgets
    BY <1>2, <2>6, <2>7, <2>8, <2>9, <2>10, <2>11, OnePhoneForgetsNothing DEF Remembers
  <2>13. ScreensOK'
    BY <1>1, <1>2, <2>5, <2>6 DEF ScreensOK
  <2> QED
    BY <1>2, <2>12, <2>13, PhoneStepKeeps
<1> QED
  BY <1>3, <1>4

LEMMA CloseKeeps ==
  ASSUME ScreenInv, NEW p \in Callers, Close(p)
  PROVE  ScreenInv'
<1>1. ScreensOK /\ \A q \in Callers : Coherent(q)
  BY DEF ScreenInv
<1>2. At("off") \in Join /\ At("off").step = "off"
  BY StartingPlaces DEF JoinSteps
<1>3. Closed \in Phone /\ Closed.screen = "closed" /\ Closed.request = "none"
  BY ClosedIsPhone DEF Closed, Filling
<1>4. /\ phone' \in [Callers -> Phone] /\ phone'[p] = Closed
      /\ join' \in [Callers -> Join] /\ join'[p].step = "off"
      /\ \A q \in Callers : q # p => phone'[q] = phone[q] /\ join'[q] = join[q]
  BY <1>1, <1>2, <1>3 DEF Close, Set, SetJoin, ScreensOK
<1>5. /\ \A q \in Callers : q # p => (q \in overtaken => q \in overtaken')
      /\ overtaken' \subseteq Callers /\ missed' \subseteq Callers
      /\ UNCHANGED <<vars, silent, lost, drops>>
  BY <1>1 DEF Close, ScreensOK
<1>6. Remembers(p)
  BY <1>3, <1>4 DEF Remembers, Coherent, Open
<1>7. NobodyForgets
  BY <1>1, <1>4, <1>5, <1>6, OnePhoneForgetsNothing
<1>8. ScreensOK'
  BY <1>1, <1>4, <1>5 DEF ScreensOK
<1> QED
  BY <1>5, <1>7, <1>8, PhoneStepKeeps

-----------------------------------------------------------------------------
(* A join that is not answered yet, or that fails, takes nothing from what *)
(* the phone knows: what is read for it is what is stored.                 *)
LEMMA JoiningForgetsNothing ==
  ASSUME ScreenInv, NEW p \in Callers, NEW j \in Join, SetJoin(p, j), UNCHANGED phone,
         Open(p), j.step # "joined",
         j.step = "read" => /\ report.lastError => j.error
                            /\ report.status = "sealed" => j.sealed,
         \A q \in Callers : q # p => (q \in overtaken => q \in overtaken')
  PROVE  NobodyForgets /\ join' \in [Callers -> Join]
<1>1. join' \in [Callers -> Join] /\ join'[p] = j
  BY DEF SetJoin, ScreenInv, ScreensOK
<1>2. \A q \in Callers : q # p => join'[q] = join[q]
  BY DEF SetJoin, ScreenInv, ScreensOK
<1>3. report.lastError => KnowsOfError(p)'
  BY <1>1 DEF KnowsOfError
<1>4. report.status = "sealed" => KnowsOfSeal(p)'
  BY <1>1 DEF KnowsOfSeal
<1>5. Coherent(p)' /\ \A q \in Callers : Coherent(q)
  BY <1>1 DEF ScreenInv, Coherent, Open
<1>6. Remembers(p)
  BY <1>3, <1>4, <1>5 DEF Remembers
<1> QED
  BY <1>1, <1>2, <1>5, <1>6, OnePhoneForgetsNothing

LEMMA DisconnectKeeps ==
  ASSUME ScreenInv, NEW p \in Callers, Disconnect(p)
  PROVE  ScreenInv'
<1>1. ScreensOK
  BY DEF ScreenInv
<1>2. At("off") \in Join /\ At("off").step = "off"
  BY StartingPlaces DEF JoinSteps
<1>3. /\ SetJoin(p, At("off")) /\ Open(p)
      /\ UNCHANGED <<vars, phone, silent, lost>>
      /\ drops' = drops + 1
      /\ missed' \subseteq Callers /\ overtaken' \subseteq Callers
      /\ \A q \in Callers : q # p => (q \in overtaken => q \in overtaken')
  BY <1>1 DEF Disconnect, ScreensOK
<1>4. PICK j : j = At("off")
  OBVIOUS
<1>5. NobodyForgets /\ join' \in [Callers -> Join]
  BY <1>2, <1>3, <1>4, JoiningForgetsNothing
<1>6. ScreensOK'
  BY <1>1, <1>3, <1>5 DEF ScreensOK
<1> QED
  BY <1>3, <1>5, <1>6, PhoneStepKeeps

LEMMA JoinFailsKeeps ==
  ASSUME ScreenInv, NEW p \in Callers, JoinFails(p)
  PROVE  ScreenInv'
<1>1. ScreensOK
  BY DEF ScreenInv
<1>2. PICK s \in {"outside", "deaf"} : SetJoin(p, At(s))
  BY DEF JoinFails
<1>3. At(s) \in Join /\ At(s).step = s
  BY <1>2, StartingPlaces DEF JoinSteps
<1>4. /\ Open(p)
      /\ UNCHANGED <<vars, phone, silent, missed, overtaken, drops>>
      /\ lost' = lost + 1
  BY DEF JoinFails
<1>5. PICK j : j = At(s)
  OBVIOUS
<1>6. NobodyForgets /\ join' \in [Callers -> Join]
  BY <1>2, <1>3, <1>4, <1>5, JoiningForgetsNothing
<1>7. ScreensOK'
  BY <1>1, <1>4, <1>6 DEF ScreensOK
<1> QED
  BY <1>4, <1>6, <1>7, PhoneStepKeeps

(* What the steps of a join read.                                          *)
LEMMA JoinReads ==
  ASSUME ScreenInv, NEW p \in Callers, FindSession(p) \/ EnterRoom(p) \/ ReadReport(p)
  PROVE  \E j \in Join : /\ SetJoin(p, j)
                         /\ j.step # "joined"
                         /\ j.step = "read" => /\ report.lastError => j.error
                                               /\ report.status = "sealed" => j.sealed
<1>1. /\ join[p] \in Join
      /\ session \in STATUSES
      /\ report.lastError \in BOOLEAN
  BY DEF ScreenInv, ScreensOK, SealInv, TypeOK, StoredOK, Report
<1>2. CASE FindSession(p)
  <2>1. PICK j : j = [At("found") EXCEPT !.session = session]
    OBVIOUS
  <2>2. j \in Join /\ j.step = "found"
    BY <1>1, <2>1 DEF At, Join, JoinSteps, STATUSES
  <2>3. SetJoin(p, j)
    BY <1>2, <2>1 DEF FindSession
  <2> QED
    BY <2>2, <2>3
<1>3. CASE EnterRoom(p)
  <2>1. PICK j : j = [join[p] EXCEPT !.step = "entered"]
    OBVIOUS
  <2>2. j \in Join /\ j.step = "entered"
    BY <1>1, <2>1 DEF Join, JoinSteps
  <2>3. SetJoin(p, j)
    BY <1>3, <2>1 DEF EnterRoom
  <2> QED
    BY <2>2, <2>3
<1>4. CASE ReadReport(p)
  <2>1. PICK sealed \in BOOLEAN : sealed = (report.status = "sealed")
    OBVIOUS
  <2>2. PICK j : j = [join[p] EXCEPT !.step = "read", !.sealed = sealed, !.error = report.lastError]
    OBVIOUS
  <2>3. j \in Join /\ j.step = "read" /\ j.sealed = sealed /\ j.error = report.lastError
    BY <1>1, <2>1, <2>2 DEF Join, JoinSteps
  <2>4. SetJoin(p, j)
    BY <1>4, <2>1, <2>2 DEF ReadReport
  <2> QED
    BY <2>1, <2>3, <2>4
<1> QED
  BY <1>2, <1>3, <1>4

LEMMA JoinReadsKeeps ==
  ASSUME ScreenInv, NEW p \in Callers, FindSession(p) \/ EnterRoom(p) \/ ReadReport(p)
  PROVE  ScreenInv'
<1>1. ScreensOK /\ Coherent(p)
  BY DEF ScreenInv
<1>2. PICK j \in Join : /\ SetJoin(p, j)
                        /\ j.step # "joined"
                        /\ j.step = "read" => /\ report.lastError => j.error
                                              /\ report.status = "sealed" => j.sealed
  BY JoinReads
<1>3. /\ Open(p)
      /\ UNCHANGED <<vars, phone, silent, overtaken, lost, drops>>
      /\ missed' \subseteq Callers
  BY <1>1 DEF FindSession, EnterRoom, ReadReport, ScreensOK, Coherent, Open
<1>4. NobodyForgets /\ join' \in [Callers -> Join]
  BY <1>2, <1>3, JoiningForgetsNothing
<1>5. ScreensOK'
  BY <1>1, <1>3, <1>4 DEF ScreensOK
<1> QED
  BY <1>3, <1>4, <1>5, PhoneStepKeeps

(* The snapshot brings what was read for it.                               *)
LEMMA SnapshotFields ==
  ASSUME NEW ph \in Phone, NEW j \in Join
  PROVE  /\ Snapshot(ph, j) \in Phone
         /\ Snapshot(ph, j).liveError = ph.liveError
         /\ Snapshot(ph, j).copyError = j.error
         /\ Snapshot(ph, j).screen # "closed"
         /\ Snapshot(ph, j).request = "sent" => Snapshot(ph, j).screen = "finalizing"
         /\ IsComplete(Snapshot(ph, j)) <=> j.sealed
         /\ ph.request = "none" => Snapshot(ph, j).request = "none"
         /\ ~ph.isLocked /\ j.session \notin LOCKED_STATUSES => ~Snapshot(ph, j).isLocked
         /\ ~ph.isLocked /\ j.session \notin LOCKED_STATUSES /\ ~j.sealed => Snapshot(ph, j).screen = "form"
<1>1. PICK l \in BOOLEAN : l = (ph.isLocked \/ j.session \in LOCKED_STATUSES)
  OBVIOUS
<1>2. PICK x : x = [ph EXCEPT !.isLocked = l, !.copyError = j.error]
  OBVIOUS
<1>3. /\ j.error \in BOOLEAN /\ j.sealed \in BOOLEAN
      /\ x \in Phone /\ x.liveError = ph.liveError /\ x.copyError = j.error
      /\ x.isLocked = l /\ x.request = ph.request
  BY <1>1, <1>2 DEF Phone, Join
<1>4. Snapshot(ph, j) = Shell(x, j.sealed)
  BY <1>1, <1>2 DEF Snapshot
<1>5. ~ph.isLocked /\ j.session \notin LOCKED_STATUSES => ~l
  BY <1>1
<1>6. PICK y : y = Shell(x, j.sealed)
  OBVIOUS
<1>7. /\ y \in Phone /\ y.liveError = ph.liveError /\ y.copyError = j.error
      /\ y.screen # "closed" /\ y.isLocked = l
      /\ y.request = "sent" => y.screen = "finalizing"
      /\ IsComplete(y) <=> j.sealed
      /\ ph.request = "none" => y.request = "none"
      /\ ~j.sealed /\ ~l => y.screen = "form"
  <2>1. /\ Shell(x, j.sealed) \in Phone
        /\ Shell(x, j.sealed).liveError = x.liveError
        /\ Shell(x, j.sealed).copyError = x.copyError
        /\ Shell(x, j.sealed).isLocked = x.isLocked
        /\ IsComplete(Shell(x, j.sealed)) <=> j.sealed
        /\ ~j.sealed /\ ~x.isLocked => Shell(x, j.sealed).screen = "form"
        /\ x.request = "none" => Shell(x, j.sealed).request = "none"
        /\ Shell(x, j.sealed).screen # "closed"
        /\ Shell(x, j.sealed).request = "sent" => Shell(x, j.sealed).screen = "finalizing"
    BY <1>3, ShellFields
  <2> QED
    BY <1>3, <1>6, <2>1
<1> QED
  BY <1>4, <1>5, <1>6, <1>7

LEMMA EmitStateKeeps ==
  ASSUME ScreenInv, NEW p \in Callers, EmitState(p)
  PROVE  ScreenInv'
<1>1. ScreensOK /\ phone[p] \in Phone /\ join[p] \in Join /\ \A q \in Callers : Coherent(q)
  BY DEF ScreenInv, ScreensOK
<1>2. PICK ph : ph = Snapshot(phone[p], join[p])
  OBVIOUS
<1>3. At("joined") \in Join /\ At("joined").step = "joined"
  BY StartingPlaces DEF JoinSteps
<1>4. /\ ph \in Phone /\ ph.screen # "closed"
      /\ ph.liveError = phone[p].liveError /\ ph.copyError = join[p].error
      /\ ph.request = "sent" => ph.screen = "finalizing"
      /\ IsComplete(ph) <=> join[p].sealed
  BY <1>1, <1>2, SnapshotFields
<1>5. /\ phone' \in [Callers -> Phone] /\ phone'[p] = ph
      /\ join' \in [Callers -> Join] /\ join'[p].step = "joined"
      /\ \A q \in Callers : q # p => phone'[q] = phone[q] /\ join'[q] = join[q]
  BY <1>1, <1>2, <1>3, <1>4 DEF EmitState, Set, SetJoin, ScreensOK
<1>6. join[p].step = "read" /\ UNCHANGED <<vars, silent, missed, overtaken, lost, drops>>
  BY DEF EmitState
<1>7. Open(p)
  BY <1>1, <1>6 DEF Coherent, Open
<1>8. KnowsOfError(p) => KnowsOfError(p)'
  BY <1>4, <1>5, <1>6 DEF KnowsOfError, KnowsError
<1>9. KnowsOfSeal(p) => KnowsOfSeal(p)'
  BY <1>4, <1>5, <1>6 DEF KnowsOfSeal
<1>10. Coherent(p)'
  BY <1>4, <1>5 DEF Coherent
<1>11. NobodyForgets
  BY <1>1, <1>5, <1>6, <1>7, <1>8, <1>9, <1>10, OnePhoneForgetsNothing DEF Remembers
<1>12. ScreensOK'
  BY <1>1, <1>5, <1>6 DEF ScreensOK
<1> QED
  BY <1>6, <1>11, <1>12, PhoneStepKeeps

-----------------------------------------------------------------------------
(* A request that arrives: it starts an attempt or is answered 202.        *)
LEMMA ArriveKeeps ==
  ASSUME ScreenInv, NEW p \in Callers, Arrive(p)
  PROVE  ScreenInv'
<1>1. ScreensOK /\ UNCHANGED <<join, silent, missed, overtaken, lost, drops>>
  BY DEF Arrive, ScreenInv
<1>2. PICK r \in {"none", "sent"} : /\ Set(p, [phone[p] EXCEPT !.request = r])
                                    /\ r = "sent" => phone[p].screen = "finalizing"
  BY DEF Arrive
<1>3. NobodyForgets /\ phone' \in [Callers -> Phone]
  BY <1>1, <1>2, RequestForgetsNothing
<1>4. ScreensOK'
  BY <1>1, <1>3 DEF ScreensOK
<1>5. CASE UNCHANGED vars
  BY <1>1, <1>3, <1>4, <1>5, PhoneStepKeeps
<1>6. CASE pc[p] = "idle" /\ Call(p)
  <2>1. SealInv'
    BY <1>6, NextKeeps DEF Next, ScreenInv
  <2>2. UNCHANGED report /\ (inFlight' \/ UNCHANGED inFlight)
    BY <1>6 DEF Call
  <2>3. Offers'
    BY <1>1, <1>3, <2>2, OfferedStill DEF ScreenInv, Offers
  <2>4. \A c \in Callers : pc[c] \in {"loadSession", "sealSession"} <=> pc'[c] \in {"loadSession", "sealSession"}
    BY <1>6 DEF Call, ScreenInv, SealInv, TypeOK, RequestsOK
  <2>5. SealHeard' /\ SealingIsQuiet'
    BY <1>1, <1>3, <2>2, <2>4 DEF ScreenInv, SealHeard, SealingIsQuiet, NobodyForgets, Remembers
  <2> QED
    BY <1>3, <1>4, <2>1, <2>3, <2>5 DEF ScreenInv, NobodyForgets, Remembers
<1> QED
  BY <1>5, <1>6 DEF Arrive

-----------------------------------------------------------------------------
(* A broadcast says the same to all who hear it, and closes nothing.       *)
LEMMA WhoHears ==
  ASSUME ScreenInv, NEW news \in [Callers -> Phone], Heard(news), UNCHANGED join,
         \A p \in Callers : Open(p) => /\ news[p].screen # "closed"
                                       /\ news[p].request = "sent" => news[p].screen = "finalizing"
  PROVE  /\ phone' \in [Callers -> Phone]
         /\ \A p \in Callers : /\ Coherent(p)'
                               /\ Open(p)' => Open(p)
                               /\ Open(p) /\ InRoom(p) => phone'[p] = news[p]
                               /\ ~InRoom(p) => phone'[p] = phone[p]
<1>1. phone \in [Callers -> Phone] /\ \A p \in Callers : Coherent(p)
  BY DEF ScreenInv, ScreensOK
<1>2. /\ phone' \in [Callers -> Phone]
      /\ \A p \in Callers : phone'[p] = IF Open(p) /\ InRoom(p) THEN news[p] ELSE phone[p]
  BY <1>1 DEF Heard
<1>3. ASSUME NEW p \in Callers
      PROVE  Coherent(p)' /\ (Open(p)' => Open(p))
  <2>1. CASE Open(p) /\ InRoom(p)
    BY <1>2, <2>1 DEF Coherent, Open
  <2>2. CASE ~ (Open(p) /\ InRoom(p))
    BY <1>1, <1>2, <2>2 DEF Coherent, Open
  <2> QED
    BY <2>1, <2>2
<1> QED
  BY <1>2, <1>3

(* A phone whose screen is kept still waits only on the finalizing screen. *)
LEMMA WhatIsHeard ==
  ASSUME ScreenInv, NEW b \in BOOLEAN, NEW news,
         news = [p \in Callers |-> [phone[p] EXCEPT !.liveError = b]]
  PROVE  /\ news \in [Callers -> Phone]
         /\ \A p \in Callers : /\ news[p].screen = phone[p].screen
                               /\ news[p].liveError = b
                               /\ Open(p) => news[p].screen # "closed"
                               /\ news[p].request = "sent" => news[p].screen = "finalizing"
<1>1. \A p \in Callers : phone[p] \in Phone /\ Coherent(p)
  BY DEF ScreenInv, ScreensOK
<1>2. ASSUME NEW p \in Callers
      PROVE  /\ news[p] \in Phone
             /\ news[p].screen = phone[p].screen
             /\ news[p].liveError = b
             /\ news[p].request = phone[p].request
  BY <1>1 DEF Phone
<1> QED
  BY <1>1, <1>2 DEF Coherent, Open

LEMMA WhatIsShown ==
  ASSUME ScreenInv
  PROVE  /\ HearLocked \in [Callers -> Phone]
         /\ HearSealed \in [Callers -> Phone]
         /\ \A p \in Callers :
              /\ HearLocked[p].liveError = phone[p].liveError
              /\ HearLocked[p].copyError = phone[p].copyError
              /\ IsComplete(HearLocked[p]) <=> IsComplete(phone[p])
              /\ HearLocked[p].screen # "closed"
              /\ HearLocked[p].request = "sent" => HearLocked[p].screen = "finalizing"
              /\ IsComplete(HearSealed[p])
              /\ HearSealed[p].screen # "closed"
              /\ HearSealed[p].request = "sent" => HearSealed[p].screen = "finalizing"
<1>1. \A p \in Callers : phone[p] \in Phone
  BY DEF ScreenInv, ScreensOK
<1>2. ASSUME NEW p \in Callers
      PROVE  LET x == Shell([phone[p] EXCEPT !.isLocked = TRUE], IsComplete(phone[p]))
             IN  /\ x \in Phone
                 /\ x.liveError = phone[p].liveError
                 /\ x.copyError = phone[p].copyError
                 /\ IsComplete(x) <=> IsComplete(phone[p])
                 /\ x.screen # "closed"
                 /\ x.request = "sent" => x.screen = "finalizing"
  <2>1. PICK ph : ph = [phone[p] EXCEPT !.isLocked = TRUE]
    OBVIOUS
  <2>2. ph \in Phone /\ ph.liveError = phone[p].liveError /\ ph.copyError = phone[p].copyError
    BY <1>1, <2>1 DEF Phone
  <2>3. PICK sealed \in BOOLEAN : sealed = IsComplete(phone[p])
    BY DEF IsComplete
  <2>4. PICK x : x = Shell(ph, sealed)
    OBVIOUS
  <2>5. /\ x \in Phone /\ x.liveError = ph.liveError /\ x.copyError = ph.copyError
        /\ IsComplete(x) <=> sealed
        /\ x.screen # "closed"
        /\ x.request = "sent" => x.screen = "finalizing"
    BY <2>2, <2>4, ShellFields
  <2>6. x = Shell([phone[p] EXCEPT !.isLocked = TRUE], IsComplete(phone[p]))
    BY <2>1, <2>3, <2>4
  <2> QED
    BY <2>2, <2>3, <2>5, <2>6
<1>3. ASSUME NEW p \in Callers
      PROVE  /\ HearLocked[p] \in Phone
             /\ HearLocked[p].liveError = phone[p].liveError
             /\ HearLocked[p].copyError = phone[p].copyError
             /\ IsComplete(HearLocked[p]) <=> IsComplete(phone[p])
             /\ HearLocked[p].screen # "closed"
             /\ HearLocked[p].request = "sent" => HearLocked[p].screen = "finalizing"
  BY <1>2 DEF HearLocked
<1>4. ASSUME NEW p \in Callers
      PROVE  /\ HearSealed[p] \in Phone
             /\ IsComplete(HearSealed[p])
             /\ HearSealed[p].screen # "closed"
             /\ HearSealed[p].request = "sent" => HearSealed[p].screen = "finalizing"
  <2>1. PICK x : x = Shell(phone[p], TRUE)
    OBVIOUS
  <2>2. /\ x \in Phone /\ IsComplete(x) /\ x.screen # "closed"
        /\ x.request = "sent" => x.screen = "finalizing"
    BY <1>1, <2>1, ShellFields
  <2>3. HearSealed[p] = x
    BY <2>1 DEF HearSealed
  <2> QED
    BY <2>2, <2>3
<1>5. HearLocked \in [Callers -> Phone]
  BY <1>3 DEF HearLocked
<1>6. HearSealed \in [Callers -> Phone]
  BY <1>4 DEF HearSealed
<1> QED
  BY <1>3, <1>4, <1>5, <1>6

(* What a step of an attempt can do to the flag, the status and the places *)
(* of the attempts: one that ends without a failure and without a word to  *)
(* the phones leaves no report in "finalizing", and the only way past the  *)
(* seal ends in a word to the phones.                                      *)
StepIsPlain(c) ==
  /\ \A d \in Callers : d # c => pc'[d] = pc[d]
  /\ report'.status = "sealed" => report.status = "sealed" \/ pc'[c] = "loadSession"
  /\ pc[c] \in {"loadSession", "sealSession"} => Seals(c) \/ pc'[c] = "sealSession"
  /\ \/ inFlight' = inFlight
     \/ FailsToAnchor(c)
     \/ Seals(c)
     \/ answer'[c] = "failed"
     \/ report'.status # "finalizing"

LEMMA GotoIsPlain ==
  ASSUME SealInv, NEW c \in Callers, NEW s, Goto(c, s),
         report'.status = "sealed" => report.status = "sealed" \/ s = "loadSession",
         pc[c] \in {"loadSession", "sealSession"} => s = "sealSession"
  PROVE  StepIsPlain(c)
  BY DEF SealInv, TypeOK, RequestsOK, Goto, StepIsPlain

LEMMA FinishIsPlain ==
  ASSUME SealInv, NEW c \in Callers, NEW a, Finish(c, a),
         report'.status = "sealed" => report.status = "sealed",
         FailsToAnchor(c) \/ pc[c] \in {"loadSession", "sealSession"} \/ a = "failed"
           \/ report'.status # "finalizing"
  PROVE  StepIsPlain(c)
<1>1. pc \in [Callers -> PipelineSteps \cup {"idle"}] /\ answer \in [Callers -> Answers]
  BY DEF SealInv, TypeOK, RequestsOK
<1>2. /\ pc'[c] = "idle" /\ answer'[c] = a
      /\ \A d \in Callers : d # c => pc'[d] = pc[d]
  BY <1>1 DEF Finish
<1> QED
  BY <1>2 DEF StepIsPlain, Seals

LEMMA StepsArePlain ==
  ASSUME SealInv, NEW c \in Callers, Step(c)
  PROVE  StepIsPlain(c)
<1>1. report \in Report
  BY DEF SealInv, TypeOK, StoredOK
<1>2. CASE Load(c)
  BY <1>2, GotoIsPlain, FinishIsPlain DEF Load, LOCKED_STATUSES
<1>3. CASE SaveLock(c)
  <2>1. report'.status = "finalizing" \/ report'.status = report.status
    BY <1>1, <1>3 DEF SaveLock, Report
  <2> QED
    BY <1>3, <2>1, GotoIsPlain DEF SaveLock
<1>4. CASE GeneratePdf(c) \/ StorePdf(c) \/ SendAnchor(c) \/ Receipt(c)
  BY <1>4, GotoIsPlain DEF GeneratePdf, StorePdf, SendAnchor, Receipt
<1>5. CASE SaveBundle(c)
  <2>1. report'.status = report.status
    BY <1>1, <1>5 DEF SaveBundle, Report
  <2>2. Finish(c, "failed") \/ Goto(c, "anchor")
    BY <1>5 DEF SaveBundle
  <2> QED
    BY <1>5, <2>1, <2>2, GotoIsPlain, FinishIsPlain DEF SaveBundle
<1>6. CASE SaveAnchorError(c)
  <2>1. report'.status = report.status
    BY <1>1, <1>6 DEF SaveAnchorError, Report
  <2> QED
    BY <1>6, <2>1, FinishIsPlain DEF SaveAnchorError, FailsToAnchor
<1>7. CASE SaveSealed(c)
  BY <1>7, GotoIsPlain DEF SaveSealed
<1>8. CASE LoadSession(c) \/ SaveSession(c)
  BY <1>8, GotoIsPlain, FinishIsPlain DEF LoadSession, SaveSession
<1> QED
  BY <1>2, <1>3, <1>4, <1>5, <1>6, <1>7, <1>8 DEF Step

(* The attempt that has sealed a report is the only one, so nobody saves   *)
(* "finalizing" before it has ended.                                       *)
LEMMA QuietStill ==
  ASSUME SealInv, SealingIsQuiet, [Next]_vars
  PROVE  SealingIsQuiet'
<1>1. /\ pc \in [Callers -> PipelineSteps \cup {"idle"}] /\ report \in Report /\ OneAttempt
      /\ \A c \in Callers : pc[c] \in {"loadSession", "sealSession"} => report.status # "finalizing"
  BY DEF SealInv, TypeOK, RequestsOK, StoredOK, SealingIsQuiet
<1>2. ASSUME NEW c \in Callers, Step(c)
      PROVE  SealingIsQuiet'
  <2>1. Running(c)
    BY <1>2 DEF Running, PipelineSteps, Step, Load, SaveLock, GeneratePdf, StorePdf, SaveBundle,
                SendAnchor, Receipt, SaveAnchorError, SaveSealed, LoadSession, SaveSession
  <2>2. \A d \in Callers : d # c => pc'[d] = pc[d] /\ pc[d] \notin {"loadSession", "sealSession"}
    <3>1. \A d \in Callers : d # c => pc'[d] = pc[d]
      BY <1>2, StepsArePlain DEF StepIsPlain
    <3> QED
      BY <1>1, <2>1, <3>1 DEF OneAttempt, Running, PipelineSteps
  <2>3. pc'[c] \in {"loadSession", "sealSession"} => SaveSealed(c) \/ LoadSession(c)
    BY <1>1, <1>2 DEF Step, Load, SaveLock, GeneratePdf, StorePdf, SaveBundle, SendAnchor, Receipt,
                      SaveAnchorError, SaveSession, Goto, Finish
  <2>4. SaveSealed(c) => report'.status = "sealed"
    BY <1>1 DEF SaveSealed, Report
  <2>5. LoadSession(c) => report' = report /\ pc[c] = "loadSession"
    BY DEF LoadSession
  <2> QED
    BY <1>1, <2>2, <2>3, <2>4, <2>5 DEF SealingIsQuiet
<1>3. ASSUME NEW c \in Callers, Call(c) \/ CallRejects(c)
      PROVE  SealingIsQuiet'
  BY <1>1, <1>3 DEF Call, CallRejects, Goto, Finish, SealingIsQuiet
<1>4. ASSUME NEW l \in Lockers, Lock(l)
      PROVE  SealingIsQuiet'
  BY <1>1, <1>4 DEF Lock, LoadSessionToLock, LockReport, LockSession, SealingIsQuiet, Report, server, caller
<1>5. ASSUME NEW u \in Uploads, SaveUpload(u)
      PROVE  SealingIsQuiet'
  BY <1>1, <1>5 DEF SaveUpload, SealingIsQuiet, Report, caller
<1>6. CASE Crash
  BY <1>6 DEF Crash, SealingIsQuiet
<1>7. CASE Mine \/ UNCHANGED vars
  BY <1>1, <1>7 DEF Mine, vars, server, caller, SealingIsQuiet
<1> QED
  BY <1>2, <1>3, <1>4, <1>5, <1>6, <1>7 DEF Next

(* If the phones hear what an attempt has to say, they know of its seal.   *)
LEMMA SealHeardStill ==
  ASSUME ScreenInv, NEW c \in Callers, StepIsPlain(c), ~Seals(c), ~silent' => ~silent,
         \A p \in Callers : Open(p)' => Open(p) /\ (KnowsOfSeal(p) => KnowsOfSeal(p)')
  PROVE  SealHeard'
<1> SUFFICES ASSUME report'.status = "sealed", ~silent'
             PROVE  \/ \A p \in Callers : Open(p)' => KnowsOfSeal(p)'
                    \/ \E d \in Callers : pc'[d] \in {"loadSession", "sealSession"}
  BY DEF SealHeard
<1>1. CASE pc'[c] = "loadSession"
  BY <1>1
<1>2. CASE report.status = "sealed"
  <2>1. CASE \A p \in Callers : Open(p) => KnowsOfSeal(p)
    BY <2>1
  <2>2. CASE \E d \in Callers : pc[d] \in {"loadSession", "sealSession"}
    BY <2>2 DEF StepIsPlain
  <2> QED
    BY <1>2, <2>1, <2>2 DEF ScreenInv, SealHeard
<1> QED
  BY <1>1, <1>2 DEF StepIsPlain

LEMMA StepOfAttemptKeeps ==
  ASSUME ScreenInv, NEW c \in Callers, StepOfAttempt(c)
  PROVE  ScreenInv'
<1>1. /\ SealInv /\ ScreensOK /\ Step(c) /\ UNCHANGED <<join, missed, lost, drops>>
      /\ \A p \in Callers : Coherent(p)
  BY DEF ScreenInv, StepOfAttempt
<1>2. SealInv' /\ SealingIsQuiet'
  BY <1>1, NextKeeps, QuietStill DEF Next, ScreenInv
<1>3. StepIsPlain(c)
  BY <1>1, StepsArePlain
<1>4. CASE Anchors(c) /\ Heard(HearAnchoring) /\ UNCHANGED <<silent, overtaken>>
  <2>1. /\ HearAnchoring \in [Callers -> Phone]
        /\ \A p \in Callers : /\ HearAnchoring[p].screen = phone[p].screen
                              /\ Open(p) => HearAnchoring[p].screen # "closed"
                              /\ HearAnchoring[p].request = "sent" => HearAnchoring[p].screen = "finalizing"
    BY WhatIsHeard DEF HearAnchoring
  <2>2. /\ phone' \in [Callers -> Phone]
        /\ \A p \in Callers : /\ Coherent(p)'
                              /\ Open(p)' => Open(p)
                              /\ Open(p) /\ InRoom(p) => phone'[p] = HearAnchoring[p]
                              /\ ~InRoom(p) => phone'[p] = phone[p]
    BY <1>1, <1>4, <2>1, WhoHears
  <2>3. inFlight'
    BY <1>2, <1>4 DEF Anchors, SealInv, OneAttempt, Running, PipelineSteps
  <2>4. ScreensOK' /\ Offers'
    BY <1>1, <1>4, <2>2, <2>3 DEF ScreensOK, Offers
  <2>5. \A p \in Callers : Open(p)' => Open(p) /\ (KnowsOfSeal(p) => KnowsOfSeal(p)')
    BY <1>1, <1>4, <2>1, <2>2 DEF KnowsOfSeal, IsComplete
  <2>6. SealHeard'
    BY <1>3, <1>4, <2>5, SealHeardStill DEF Anchors, Seals
  <2> QED
    BY <1>2, <2>2, <2>4, <2>6 DEF ScreenInv
<1>5. CASE FailsToAnchor(c) /\ Heard(HearAnchorError) /\ silent' = FALSE /\ UNCHANGED overtaken
  <2>1. /\ HearAnchorError \in [Callers -> Phone]
        /\ \A p \in Callers : /\ HearAnchorError[p].liveError
                              /\ Open(p) => HearAnchorError[p].screen # "closed"
                              /\ HearAnchorError[p].request = "sent" => HearAnchorError[p].screen = "finalizing"
    BY WhatIsHeard DEF HearAnchorError
  <2>2. /\ phone' \in [Callers -> Phone]
        /\ \A p \in Callers : /\ Coherent(p)'
                              /\ Open(p)' => Open(p)
                              /\ Open(p) /\ InRoom(p) => phone'[p] = HearAnchorError[p]
    BY <1>1, <1>5, <2>1, WhoHears
  <2>3. ScreensOK'
    BY <1>1, <1>5, <2>2 DEF ScreensOK
  <2>4. Offers'
    BY <1>1, <2>1, <2>2 DEF Offers, KnowsOfError, KnowsError, InRoom
  <2>5. report'.status # "sealed"
    <3>1. report.status # "sealed"
      BY <1>1, <1>5 DEF SealInv, AttemptOK, BeforeSeal, FailsToAnchor
    <3>2. SaveAnchorError(c)
      BY <1>1, <1>5 DEF Step, FailsToAnchor, Load, SaveLock, GeneratePdf, StorePdf, SaveBundle,
                        SendAnchor, Receipt, SaveSealed, LoadSession, SaveSession
    <3> QED
      BY <1>1, <3>1, <3>2 DEF SaveAnchorError, SealInv, TypeOK, StoredOK, Report
  <2> QED
    BY <1>2, <2>2, <2>3, <2>4, <2>5 DEF ScreenInv, SealHeard
<1>6. CASE Seals(c) /\ Heard(HearSealed) /\ silent' = FALSE /\ overtaken' = overtaken \cup Overtaking
  <2>1. /\ phone' \in [Callers -> Phone]
        /\ \A p \in Callers : /\ Coherent(p)'
                              /\ Open(p)' => Open(p)
                              /\ Open(p) /\ InRoom(p) => phone'[p] = HearSealed[p]
    BY <1>1, <1>6, WhatIsShown, WhoHears
  <2>2. ScreensOK'
    BY <1>1, <1>6, <2>1 DEF ScreensOK, Overtaking
  <2>3. \A p \in Callers : Open(p)' => KnowsOfSeal(p)'
    BY <1>1, <1>6, <2>1, WhatIsShown DEF KnowsOfSeal, InRoom, Overtaking
  <2>4. report'.status # "finalizing"
    <3>1. report.status # "finalizing"
      BY <1>6 DEF Seals, ScreenInv, SealingIsQuiet
    <3>2. UNCHANGED report
      BY <1>1, <1>6 DEF Step, Seals, Load, SaveLock, GeneratePdf, StorePdf, SaveBundle,
                        SendAnchor, Receipt, SaveAnchorError, SaveSealed, LoadSession, SaveSession
    <3> QED
      BY <3>1, <3>2
  <2>5. Offers' /\ SealHeard'
    BY <2>3, <2>4 DEF Offers, SealHeard
  <2> QED
    BY <1>2, <2>1, <2>2, <2>5 DEF ScreenInv
<1>7. CASE /\ ~ (Anchors(c) \/ FailsToAnchor(c) \/ Seals(c))
           /\ silent' = (silent \/ answer'[c] = "failed")
           /\ UNCHANGED <<phone, overtaken>>
  <2>1. ScreensOK'
    BY <1>1, <1>7 DEF ScreensOK
  <2>2. inFlight
    BY <1>1 DEF SealInv, OneAttempt, Running, PipelineSteps, Step, Load, SaveLock, GeneratePdf,
                StorePdf, SaveBundle, SendAnchor, Receipt, SaveAnchorError, SaveSealed,
                LoadSession, SaveSession
  <2>3. Offers'
    BY <1>3, <1>7, <2>2 DEF Offers, StepIsPlain
  <2>4. NobodyForgets
    BY <1>1, <1>7, StayingForgetsNothing
  <2>5. \A p \in Callers : Open(p)' => Open(p) /\ (KnowsOfSeal(p) => KnowsOfSeal(p)')
    BY <1>1, <1>7 DEF Open, KnowsOfSeal
  <2>6. SealHeard'
    BY <1>3, <1>7, <2>5, SealHeardStill
  <2> QED
    BY <1>2, <2>1, <2>3, <2>4, <2>6 DEF ScreenInv, NobodyForgets, Remembers
<1> QED
  BY <1>4, <1>5, <1>6, <1>7 DEF StepOfAttempt

LEMMA AttemptRejectsKeeps ==
  ASSUME ScreenInv, NEW c \in Callers, AttemptRejects(c)
  PROVE  ScreenInv'
<1>1. SealInv /\ ScreensOK /\ CallRejects(c) /\ \A p \in Callers : Coherent(p)
  BY DEF ScreenInv, AttemptRejects
<1>2. SealInv' /\ SealingIsQuiet'
  BY <1>1, NextKeeps, QuietStill DEF Next, ScreenInv
<1>3. /\ UNCHANGED <<phone, join, missed, overtaken, report, lost, drops>>
      /\ silent' = (silent \/ ~inFlight') /\ silent' \in BOOLEAN
  BY <1>1 DEF AttemptRejects, CallRejects
<1>4. ScreensOK' /\ NobodyForgets
  BY <1>1, <1>3, StayingForgetsNothing DEF ScreensOK
<1>5. Offers'
  BY <1>3 DEF Offers
<1>6. ~silent' => \A d \in Callers : pc[d] \in {"loadSession", "sealSession"} => pc'[d] = pc[d]
  BY <1>1, <1>3 DEF CallRejects, Goto, Finish, SealInv, TypeOK, RequestsOK
<1>7. SealHeard'
  BY <1>3, <1>4, <1>6 DEF ScreenInv, SealHeard, NobodyForgets, Remembers
<1> QED
  BY <1>2, <1>4, <1>5, <1>7 DEF ScreenInv, NobodyForgets, Remembers

(* A late locker reopens no screen, and never sets "finalizing".           *)
LEMMA LockStepKeeps ==
  ASSUME ScreenInv, NEW l \in Lockers, LockStep(l)
  PROVE  ScreenInv'
<1>1. /\ SealInv /\ ScreensOK /\ Lock(l) /\ UNCHANGED <<join, silent, missed, overtaken, lost, drops>>
      /\ \A p \in Callers : Coherent(p)
  BY DEF ScreenInv, LockStep
<1>2. SealInv' /\ SealingIsQuiet'
  BY <1>1, NextKeeps, QuietStill DEF Next, ScreenInv
<1>3. phone' \in [Callers -> Phone] /\ NobodyForgets
  <2>1. CASE UNCHANGED phone
    BY <1>1, <2>1, StayingForgetsNothing DEF ScreensOK
  <2>2. CASE Heard(HearLocked)
    <3>1. /\ phone' \in [Callers -> Phone]
          /\ \A p \in Callers : /\ Coherent(p)'
                                /\ Open(p)' => Open(p)
                                /\ Open(p) /\ InRoom(p) => phone'[p] = HearLocked[p]
                                /\ ~InRoom(p) => phone'[p] = phone[p]
      BY <1>1, <2>2, WhatIsShown, WhoHears
    <3>2. ASSUME NEW p \in Callers, Open(p)
          PROVE  /\ phone'[p].liveError = phone[p].liveError
                 /\ phone'[p].copyError = phone[p].copyError
                 /\ IsComplete(phone'[p]) <=> IsComplete(phone[p])
      <4>1. CASE InRoom(p)
        BY <3>1, <3>2, <4>1, WhatIsShown
      <4>2. CASE ~InRoom(p)
        BY <3>1, <4>2
      <4> QED
        BY <4>1, <4>2
    <3>3. ASSUME NEW p \in Callers, Open(p)
          PROVE  (KnowsOfError(p) => KnowsOfError(p)') /\ (KnowsOfSeal(p) => KnowsOfSeal(p)')
      BY <1>1, <3>2, <3>3 DEF KnowsOfError, KnowsOfSeal, KnowsError
    <3> QED
      BY <3>1, <3>3 DEF NobodyForgets, Remembers
  <2> QED
    BY <2>1, <2>2 DEF LockStep
<1>4. /\ UNCHANGED <<inFlight, pc>>
      /\ report' = report \/ report'.status = "signing"
  BY <1>1 DEF Lock, LoadSessionToLock, LockReport, LockSession, server, caller,
              SealInv, TypeOK, StoredOK, Report
<1>5. ScreensOK'
  BY <1>1, <1>3 DEF ScreensOK
<1>6. Offers' /\ SealHeard'
  <2>1. CASE report' = report
    BY <1>1, <1>3, <1>4, <2>1, OfferedStill, HeardStill DEF ScreenInv
  <2>2. CASE report'.status = "signing"
    BY <2>2 DEF Offers, SealHeard
  <2> QED
    BY <1>4, <2>1, <2>2
<1> QED
  BY <1>2, <1>3, <1>5, <1>6 DEF ScreenInv, NobodyForgets, Remembers

LEMMA MineKeepsScreens ==
  ASSUME ScreenInv, MineUnheard
  PROVE  ScreenInv'
<1>1. SealInv'
  BY NextKeeps DEF ScreenInv, MineUnheard, Next
<1>2. UNCHANGED <<report, inFlight, pc, phone, join, silent, missed, overtaken, lost, drops>>
  BY DEF MineUnheard, Mine, server, caller
<1>3. NobodyForgets /\ ScreensOK'
  BY <1>2, StayingForgetsNothing DEF ScreenInv, ScreensOK
<1>4. Offers' /\ SealHeard'
  BY <1>2, <1>3, OfferedStill, HeardStill DEF ScreenInv
<1>5. SealingIsQuiet'
  BY <1>2 DEF ScreenInv, SealingIsQuiet
<1> QED
  BY <1>1, <1>3, <1>4, <1>5 DEF ScreenInv, NobodyForgets, Remembers

(* After a restart no phone has joined; each hears more when it does.      *)
LEMMA RestartKeeps ==
  ASSUME ScreenInv, Restart
  PROVE  ScreenInv'
<1>1. SealInv' /\ SealingIsQuiet'
  BY NextKeeps, QuietStill DEF ScreenInv, Restart, Next
<1>2. At("off") \in Join /\ At("off").step = "off"
  BY StartingPlaces DEF JoinSteps
<1>3. /\ UNCHANGED <<phone, silent, lost, drops>>
      /\ missed' = {} /\ overtaken' = {}
      /\ join' \in [Callers -> Join]
      /\ \A p \in Callers : join'[p].step = "off"
  BY <1>2 DEF Restart
<1>4. ScreensOK'
  BY <1>3 DEF ScreenInv, ScreensOK
<1>5. \A p \in Callers : KnowsOfError(p)' /\ KnowsOfSeal(p)' /\ Coherent(p)'
  BY <1>3 DEF KnowsOfError, KnowsOfSeal, Coherent, ScreenInv
<1>6. Offers' /\ SealHeard'
  BY <1>5 DEF Offers, SealHeard
<1> QED
  BY <1>1, <1>4, <1>5, <1>6 DEF ScreenInv

-----------------------------------------------------------------------------
LEMMA ScreenNextKeeps == ScreenInv /\ [ScreenNext]_screenVars => ScreenInv'
<1> SUFFICES ASSUME ScreenInv, [ScreenNext]_screenVars PROVE ScreenInv'
  OBVIOUS
<1>1. CASE \E p \in Callers : Proceed(p) \/ Disconnect(p) \/ JoinGoesOn(p) \/ JoinFails(p) \/ Close(p)
  BY <1>1, AutoStartKeeps, ArriveKeeps, AnsweredKeeps, RetryKeeps, DisconnectKeeps,
     JoinReadsKeeps, EmitStateKeeps, JoinFailsKeeps, CloseKeeps DEF Proceed, JoinGoesOn
<1>2. CASE \E p \in Callers : RequestLost(p) \/ Timeout(p)
  BY <1>2, LostOnTheWayKeeps
<1>3. CASE \E c \in Callers : StepOfAttempt(c) \/ AttemptRejects(c)
  BY <1>3, StepOfAttemptKeeps, AttemptRejectsKeeps
<1>4. CASE \E l \in Lockers : LockStep(l)
  BY <1>4, LockStepKeeps
<1>5. CASE MineUnheard \/ Restart
  BY <1>5, MineKeepsScreens, RestartKeeps
<1>6. CASE UNCHANGED screenVars
  <2>1. UNCHANGED vars /\ UNCHANGED <<phone, join, silent, missed, overtaken, lost, drops>>
    BY <1>6 DEF screenVars
  <2>2. NobodyForgets /\ ScreensOK'
    BY <2>1, StayingForgetsNothing DEF ScreenInv, ScreensOK
  <2> QED
    BY <2>1, <2>2, PhoneStepKeeps
<1> QED
  BY <1>1, <1>2, <1>3, <1>4, <1>5, <1>6 DEF ScreenNext

LEMMA ScreenInvariant == ScreenSpec => []ScreenInv
  BY ScreensInitially, ScreenNextKeeps, PTL DEF ScreenSpec

(* The screens' own variables keep their types.                            *)
THEOREM ScreenTypes == ScreenSpec => []ScreensOK
<1>1. ScreenInv => ScreensOK
  BY DEF ScreenInv
<1> QED
  BY ScreenInvariant, <1>1, PTL

(* An anchor failure that is stored and that nobody is repairing can be    *)
(* retried on every finalizing screen of a phone that has joined, whichever *)
(* broadcasts it has missed, unless a later attempt ended without a word.  *)
THEOREM FailedAnchorIsOffered == ScreenSpec => []AnchorErrorIsOffered
<1>1. ScreenInv => AnchorErrorIsOffered
  BY DEF ScreenInv, Offers, AnchorErrorIsOffered, OffersRetry, KnowsOfError, Joined, IsComplete, Open
<1> QED
  BY ScreenInvariant, <1>1, PTL

(* Every phone that has joined shows the complete report once the attempt   *)
(* that sealed it has ended, unless an attempt, or a request for one, ended *)
(* without a word to the phones (the session that follows the seal could    *)
(* not be loaded or saved, say), or the phone was told of the seal between  *)
(* the read of an older snapshot and that snapshot.                         *)
THEOREM SealEndsTheScreens == ScreenSpec => []SealedIsShown
<1>1. ScreenInv => SealedIsShown
  <2> SUFFICES ASSUME ScreenInv, report.status = "sealed", ~inFlight, ~silent
               PROVE  \A p \in Callers : Open(p) => KnowsOfSeal(p)
    BY DEF SealedIsShown, KnowsOfSeal, Joined
  <2>1. \A c \in Callers : pc[c] \notin {"loadSession", "sealSession"}
    BY DEF ScreenInv, SealInv, OneAttempt, Running, PipelineSteps
  <2> QED
    BY <2>1 DEF ScreenInv, SealHeard
<1> QED
  BY ScreenInvariant, <1>1, PTL

-----------------------------------------------------------------------------
(* The phones do to the pipeline only what module Finalize lets its callers *)
(* do: what is proved of that module's specification holds behind the       *)
(* screens.                                                                 *)
LEMMA ScreenStepIsPipelineStep == [ScreenNext]_screenVars => [Next]_vars
<1> SUFFICES ASSUME [ScreenNext]_screenVars PROVE [Next]_vars
  OBVIOUS
<1>1. ASSUME NEW p \in Callers,
             \/ Proceed(p) \/ RequestLost(p) \/ Timeout(p)
             \/ Disconnect(p) \/ JoinGoesOn(p) \/ JoinFails(p) \/ Close(p)
      PROVE  Call(p) \/ UNCHANGED vars
  BY <1>1 DEF Proceed, AutoStart, Arrive, Answered, Retry, RequestLost, Timeout, Disconnect,
              JoinGoesOn, FindSession, EnterRoom, ReadReport, EmitState, JoinFails, Close
<1>2. ASSUME NEW c \in Callers, StepOfAttempt(c) \/ AttemptRejects(c)
      PROVE  Step(c) \/ CallRejects(c)
  BY <1>2 DEF StepOfAttempt, AttemptRejects
<1>3. ASSUME NEW l \in Lockers, LockStep(l)
      PROVE  Lock(l)
  BY <1>3 DEF LockStep
<1>4. CASE Restart
  BY <1>4 DEF Restart, Next
<1>5. CASE UNCHANGED screenVars
  BY <1>5 DEF screenVars
<1>6. CASE MineUnheard
  BY <1>6 DEF MineUnheard, Next
<1> QED
  BY <1>1, <1>2, <1>3, <1>4, <1>5, <1>6 DEF ScreenNext, Next

(* The phones only decide when an attempt starts: whatever they do, report  *)
(* and server take steps of runFinalize, so all that FinalizeProofs and     *)
(* LifeProofs show of Finalize holds of the composed system too.            *)
THEOREM ScreensRunThePipeline == ScreenSpec => Spec
<1>1. ScreenInit => Init
  BY DEF ScreenInit
<1> QED
  BY <1>1, ScreenStepIsPipelineStep, PTL DEF ScreenSpec, Spec

(* However the phones ask, a sealed report's stored hashes are the ones the *)
(* contract holds.                                                          *)
THEOREM ScreensSealWhatIsAnchored == ScreenSpec => []SealedMatchesChain
  BY ScreensRunThePipeline, SealedReportMatchesChain, PTL

-----------------------------------------------------------------------------
(* No phone asks for a report to be finalized before maybeLockReport has    *)
(* stored the lock: runFinalize never refuses one.                          *)
NeverRefused == \A c \in Callers : answer[c] # "refused"

(* Behind an open report every phone shows its form, none has asked, and no *)
(* join has read anything of a lock.                                        *)
NotAsked(p) == /\ phone[p].screen \in {"form", "closed"}
               /\ ~phone[p].isLocked
               /\ phone[p].request = "none"
               /\ pc[p] = "idle"
               /\ join[p].session \notin LOCKED_STATUSES
               /\ ~join[p].sealed

NobodyAsksYet == report.status \notin LOCKED_STATUSES => \A p \in Callers : NotAsked(p)

AskingInv == SealInv /\ LockingInv /\ ScreensOK /\ NobodyAsksYet /\ NeverRefused

LEMMA NobodyAsksStill ==
  ASSUME AskingInv, [ScreenNext]_screenVars
  PROVE  NobodyAsksYet'
<1> SUFFICES ASSUME report'.status \notin LOCKED_STATUSES
             PROVE  \A p \in Callers : NotAsked(p)'
  BY DEF NobodyAsksYet
<1>1. /\ report.status \notin LOCKED_STATUSES /\ TypeOK
      /\ session \notin LOCKED_STATUSES
      /\ \A l \in Lockers : locker[l] # "session"
  BY ScreenStepIsPipelineStep, StatusWritten DEF AskingInv, SealInv, LockingInv
<1>2. \A p \in Callers : NotAsked(p)
  BY <1>1 DEF AskingInv, NobodyAsksYet
<1>3. phone \in [Callers -> Phone] /\ join \in [Callers -> Join]
  BY DEF AskingInv, ScreensOK
<1>4. ASSUME UNCHANGED <<phone, join, pc>>
      PROVE  \A p \in Callers : NotAsked(p)'
  BY <1>2, <1>4 DEF NotAsked
<1>5. ASSUME NEW p \in Callers, NEW j, SetJoin(p, j), UNCHANGED <<vars, phone>>,
             j.session \notin LOCKED_STATUSES, ~j.sealed
      PROVE  \A q \in Callers : NotAsked(q)'
  <2>1. UNCHANGED pc
    BY <1>5 DEF vars, caller
  <2>2. join'[p] = j /\ \A q \in Callers : q # p => join'[q] = join[q]
    BY <1>3, <1>5 DEF SetJoin
  <2> QED
    BY <1>2, <1>5, <2>1, <2>2 DEF NotAsked
<1>6. ASSUME NEW p \in Callers, Proceed(p) \/ RequestLost(p) \/ Timeout(p)
      PROVE  FALSE
  BY <1>2, <1>6 DEF NotAsked, Proceed, AutoStart, Arrive, Answered, Retry, OffersRetry, RequestLost, Timeout
<1>7. ASSUME NEW p \in Callers, Disconnect(p) \/ JoinFails(p)
      PROVE  \A q \in Callers : NotAsked(q)'
  <2>1. PICK s \in JoinSteps : SetJoin(p, At(s)) /\ UNCHANGED <<vars, phone>>
    BY <1>7 DEF Disconnect, JoinFails, JoinSteps
  <2>2. PICK j : j = At(s)
    OBVIOUS
  <2>3. j.session \notin LOCKED_STATUSES /\ ~j.sealed
    BY <2>1, <2>2, StartingPlaces
  <2> QED
    BY <1>5, <2>1, <2>2, <2>3
<1>8. ASSUME NEW p \in Callers, FindSession(p)
      PROVE  \A q \in Callers : NotAsked(q)'
  <2>1. PICK j : j = [At("found") EXCEPT !.session = session]
    OBVIOUS
  <2>2. j.session \notin LOCKED_STATUSES /\ ~j.sealed
    BY <1>1, <2>1 DEF At
  <2> QED
    BY <1>5, <1>8, <2>1, <2>2 DEF FindSession
<1>9. ASSUME NEW p \in Callers, EnterRoom(p)
      PROVE  \A q \in Callers : NotAsked(q)'
  <2>1. PICK j : j = [join[p] EXCEPT !.step = "entered"]
    OBVIOUS
  <2>2. j.session \notin LOCKED_STATUSES /\ ~j.sealed
    BY <1>2, <1>3, <2>1 DEF NotAsked, Join
  <2> QED
    BY <1>5, <1>9, <2>1, <2>2 DEF EnterRoom
<1>10. ASSUME NEW p \in Callers, ReadReport(p)
       PROVE  \A q \in Callers : NotAsked(q)'
  <2>1. report.status # "sealed"
    BY <1>1 DEF LOCKED_STATUSES
  <2>2. PICK j : j = [join[p] EXCEPT !.step = "read", !.sealed = FALSE, !.error = report.lastError]
    OBVIOUS
  <2>3. j.session \notin LOCKED_STATUSES /\ ~j.sealed
    BY <1>2, <1>3, <2>2 DEF NotAsked, Join
  <2>4. SetJoin(p, j) /\ UNCHANGED <<vars, phone>>
    BY <1>10, <2>1, <2>2 DEF ReadReport
  <2> QED
    BY <1>5, <2>3, <2>4
<1>11. ASSUME NEW p \in Callers, EmitState(p)
       PROVE  \A q \in Callers : NotAsked(q)'
  <2>1. PICK ph : ph = Snapshot(phone[p], join[p])
    OBVIOUS
  <2>2. ph.screen = "form" /\ ph.request = "none" /\ ~ph.isLocked
    BY <1>2, <1>3, <2>1, SnapshotFields DEF NotAsked
  <2>3. PICK j : j = At("joined")
    OBVIOUS
  <2>4. j.session \notin LOCKED_STATUSES /\ ~j.sealed
    BY <2>3, StartingPlaces DEF JoinSteps
  <2>5. /\ phone'[p] = ph /\ join'[p] = j
        /\ \A q \in Callers : q # p => phone'[q] = phone[q] /\ join'[q] = join[q]
    BY <1>3, <1>11, <2>1, <2>3 DEF EmitState, Set, SetJoin
  <2>6. UNCHANGED pc
    BY <1>11 DEF EmitState, vars, caller
  <2> QED
    BY <1>2, <2>2, <2>4, <2>5, <2>6 DEF NotAsked
<1>12. ASSUME NEW p \in Callers, Close(p)
       PROVE  \A q \in Callers : NotAsked(q)'
  <2>1. Closed.screen = "closed" /\ Closed.request = "none" /\ ~Closed.isLocked
    BY DEF Closed, Filling
  <2>2. PICK j : j = At("off")
    OBVIOUS
  <2>3. j.session \notin LOCKED_STATUSES /\ ~j.sealed
    BY <2>2, StartingPlaces DEF JoinSteps
  <2>4. /\ phone'[p] = Closed /\ join'[p] = j
        /\ \A q \in Callers : q # p => phone'[q] = phone[q] /\ join'[q] = join[q]
    BY <1>3, <1>12, <2>2 DEF Close, Set, SetJoin
  <2>5. UNCHANGED pc
    BY <1>12 DEF Close, vars, caller
  <2> QED
    BY <1>2, <2>1, <2>3, <2>4, <2>5 DEF NotAsked
<1>13. ASSUME NEW c \in Callers, StepOfAttempt(c) \/ AttemptRejects(c)
       PROVE  FALSE
  <2>1. pc[c] = "idle"
    BY <1>2 DEF NotAsked
  <2> QED
    BY <1>13, <2>1 DEF StepOfAttempt, AttemptRejects, CallRejects, Running, PipelineSteps, Step, Load, SaveLock,
       GeneratePdf, StorePdf, SaveBundle, SendAnchor, Receipt, SaveAnchorError, SaveSealed, LoadSession, SaveSession
<1>14. ASSUME NEW l \in Lockers, LockStep(l)
       PROVE  UNCHANGED <<phone, join, pc>>
  <2>1. ~LockReport(l)
    BY <1>1 DEF TypeOK, StoredOK, Report, LockReport, LOCKED_STATUSES
  <2>2. LoadSessionToLock(l)
    BY <1>1, <1>14, <2>1 DEF LockStep, Lock, LockSession
  <2>3. locker'[l] # "done" /\ UNCHANGED pc
    BY <1>1, <2>2 DEF LoadSessionToLock, caller, TypeOK, EnvironmentOK
  <2> QED
    BY <1>14, <2>3 DEF LockStep
<1>15. CASE MineUnheard
  BY <1>4, <1>15 DEF MineUnheard, Mine, caller
<1>16. CASE Restart
  <2>1. \A p \in Callers : pc'[p] = "idle"
    BY <1>16 DEF Restart, Crash
  <2>2. PICK j : j = At("off")
    OBVIOUS
  <2>3. j.session \notin LOCKED_STATUSES /\ ~j.sealed
    BY <2>2, StartingPlaces DEF JoinSteps
  <2>4. UNCHANGED phone /\ \A p \in Callers : join'[p] = j
    BY <1>16, <2>2 DEF Restart
  <2> QED
    BY <1>2, <2>1, <2>3, <2>4 DEF NotAsked
<1>17. CASE UNCHANGED screenVars
  BY <1>4, <1>17 DEF screenVars, vars, caller
<1> QED
  BY <1>4, <1>6, <1>7, <1>8, <1>9, <1>10, <1>11, <1>12, <1>13, <1>14, <1>15, <1>16, <1>17
     DEF ScreenNext, JoinGoesOn

(* Only the load of an open report refuses.                                 *)
LEMMA NobodyIsRefused ==
  ASSUME AskingInv, [Next]_vars
  PROVE  NeverRefused'
<1>1. /\ answer \in [Callers -> Answers] /\ \A c \in Callers : answer[c] # "refused"
      /\ \A c \in Callers : pc[c] # "idle" => report.status \in LOCKED_STATUSES
  BY DEF AskingInv, SealInv, TypeOK, RequestsOK, NeverRefused, NobodyAsksYet, NotAsked
<1>2. ASSUME NEW c \in Callers, NEW a, Finish(c, a), a # "refused"
      PROVE  NeverRefused'
  BY <1>1, <1>2 DEF Finish, NeverRefused
<1>3. ASSUME UNCHANGED answer
      PROVE  NeverRefused'
  BY <1>1, <1>3 DEF NeverRefused
<1>4. ASSUME NEW c \in Callers, Call(c)
      PROVE  NeverRefused'
  BY <1>1, <1>4 DEF Call, NeverRefused
<1>5. ASSUME NEW c \in Callers, Load(c)
      PROVE  NeverRefused'
  <2>1. report.status \in LOCKED_STATUSES
    BY <1>1, <1>5 DEF Load
  <2> QED
    BY <1>2, <1>3, <1>5, <2>1 DEF Load, Goto
<1>6. ASSUME NEW c \in Callers, Step(c), ~Load(c)
      PROVE  NeverRefused'
  BY <1>2, <1>3, <1>6 DEF Step, SaveLock, GeneratePdf, StorePdf, SaveBundle, SendAnchor, Receipt,
     SaveAnchorError, SaveSealed, LoadSession, SaveSession, Goto
<1>7. ASSUME NEW c \in Callers, CallRejects(c)
      PROVE  NeverRefused'
  BY <1>2, <1>3, <1>7 DEF CallRejects, Goto
<1>8. CASE Crash
  BY <1>1, <1>8 DEF Crash, NeverRefused
<1>9. CASE Mine \/ UNCHANGED vars \/ (\E l \in Lockers : Lock(l)) \/ \E u \in Uploads : SaveUpload(u)
  BY <1>3, <1>9 DEF Mine, Lock, LoadSessionToLock, LockReport, LockSession, SaveUpload, vars, caller
<1> QED
  BY <1>4, <1>5, <1>6, <1>7, <1>8, <1>9 DEF Next

(* A finalizing screen asks only for a report that is locked: no request of *)
(* a phone is answered INVALID_STATUS.                                      *)
THEOREM PhonesAskInTime == ScreenSpec => []NeverRefused
<1>1. ScreenInit => LockingInv /\ NobodyAsksYet /\ NeverRefused
  BY StartingPlaces DEF ScreenInit, Init, Filling, Unlocked, LockingInv, NobodyAsksYet, NotAsked, NeverRefused,
     LOCKED_STATUSES, JoinSteps
<1>2. AskingInv /\ [ScreenNext]_screenVars => LockingInv' /\ NobodyAsksYet' /\ NeverRefused'
  BY ScreenStepIsPipelineStep, NextLocking, NobodyAsksStill, NobodyIsRefused DEF AskingInv, SealInv
<1>3. ScreenInv => SealInv /\ ScreensOK
  BY DEF ScreenInv
<1>4. SealInv /\ ScreensOK /\ LockingInv /\ NobodyAsksYet /\ NeverRefused <=> AskingInv
  BY DEF AskingInv
<1> QED
  BY <1>1, <1>2, <1>3, <1>4, ScreenInvariant, PTL DEF ScreenSpec

=============================================================================
