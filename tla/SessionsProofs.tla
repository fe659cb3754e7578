--------------------------- MODULE SessionsProofs ---------------------------
(***************************************************************************)
(* For any creators, guests and codes, whatever calls fail and whenever    *)
(* the server restarts: what can go wrong when two phones meet is only     *)
(* what overlapping creations or overlapping joins bring about.            *)
(***************************************************************************)
EXTENDS Sessions, TLAPS

(* A creation holds its code from its choice until the session expires.    *)
Holds(c) == pc[c] \in {"report", "session"} \/ Live(c)

(* A guest is at a session from the moment it was found waiting.           *)
At(g, d) == inside[g] = d \/ (joining[g] # "idle" /\ target[g] = d)

(* A session appears after its report, and goes only after it has expired. *)
CreationOK(c) ==
  /\ pc[c] \in {"pick", "report", "session"} => session[c] = "none"
  /\ pc[c] \in {"link", "shown"} => session[c] # "none" \/ c \in expired
  /\ pc[c] \in {"session", "link", "shown"} => c \in devices[c]
  /\ pc[c] = "shown" => c \in linked
  /\ pc[c] = "pick" => attempts[c] < MaxAttempts

(* Two creations hold one code only if they overlapped when they chose it. *)
CodesApart ==
  \A c, d \in Creators : c # d /\ Holds(c) /\ Holds(d) /\ code[c] = code[d]
                           => c \in overlapped \/ d \in overlapped

(* Whoever is at a session found it there, by the code it was shown; unless *)
(* it raced, nobody but the guest that saved the join moves it on from      *)
(* "waiting", and the report of whoever is inside is in its history.        *)
GuestOK(g) ==
  /\ joining[g] # "idle" => target[g] \in Creators /\ inside[g] = None
  /\ \A d \in Creators : At(g, d) =>
       /\ pc[d] \notin {"pick", "report", "session"}
       /\ \/ d = asked[g]
          \/ {d, asked[g]} \cap overlapped # {}
          \/ asked[g] \in expired
  /\ \A d \in Creators : joining[g] = "save" /\ target[g] = d =>
       session[d] \in {"none", "waiting"} \/ d \in raced
  /\ \A d \in Creators : At(g, d) /\ joining[g] # "save" => session[d] # "waiting"
  /\ inside[g] # None => g \in devices[inside[g]]

OneGuest ==
  \A g, h \in Guests, d \in Creators : At(g, d) /\ At(h, d) => g = h \/ d \in raced

(* A join that nobody waits for any more: the guests at its session, and    *)
(* the other joins nobody waits for, raced with it.                         *)
LateOK(r) ==
  /\ pc[r.at] \notin {"pick", "report", "session"}
  /\ IF r.step = "save" THEN session[r.at] \in {"none", "waiting"} \/ r.at \in raced
                        ELSE session[r.at] # "waiting"
  /\ \A g \in Guests : At(g, r.at) => r.at \in raced
  /\ \A q \in late : q.at = r.at => q = r \/ r.at \in raced

MeetInv == /\ TypeOK
           /\ \A c \in Creators : CreationOK(c)
           /\ CodesApart
           /\ \A g \in Guests : GuestOK(g)
           /\ OneGuest
           /\ \A r \in late : LateOK(r)

-----------------------------------------------------------------------------
LEMMA InitMeets == Init => MeetInv
<1> SUFFICES ASSUME Init PROVE MeetInv
  OBVIOUS
<1>1. TypeOK
  BY SessionsAssumption DEF Init, TypeOK, Statuses
<1>2. \A c \in Creators : CreationOK(c) /\ ~Holds(c)
  BY SessionsAssumption DEF Init, CreationOK, Holds, Live
<1>3. CodesApart
  BY <1>2 DEF CodesApart
<1>4. \A g \in Guests : GuestOK(g) /\ \A d \in Creators : ~At(g, d)
  BY SessionsAssumption DEF Init, GuestOK, At
<1>5. OneGuest
  BY <1>4 DEF OneGuest
<1>6. \A r \in late : LateOK(r)
  BY DEF Init
<1> QED
  BY <1>1, <1>2, <1>3, <1>4, <1>5, <1>6 DEF MeetInv

(* What keeps the late joins as they are: no session that exists starts     *)
(* anew or moves on, and nobody comes to one.                               *)
LEMMA LateStay ==
  ASSUME MeetInv, late' \subseteq late, raced \subseteq raced',
         \A c \in Creators : pc[c] \notin {"pick", "report", "session"} =>
           /\ pc'[c] \notin {"pick", "report", "session"}
           /\ session[c] \in {"none", "waiting"} => session'[c] \in {"none", "waiting"}
           /\ session[c] # "waiting" => session'[c] # "waiting"
           /\ \A g \in Guests : At(g, c)' => At(g, c) \/ c \in raced'
  PROVE  \A r \in late' : LateOK(r)'
<1> SUFFICES ASSUME NEW r \in late' PROVE LateOK(r)'
  OBVIOUS
<1>1. r \in late /\ r.at \in Creators
  BY DEF MeetInv, TypeOK
<1> QED
  BY <1>1 DEF MeetInv, LateOK

(* A code is chosen against those in use; the one chosen at the same time   *)
(* by another creation is told by overlapped.                               *)
LEMMA PickCodeMeets ==
  ASSUME MeetInv, NEW c \in Creators, PickCode(c)
  PROVE  MeetInv'
<1> USE DEF stored, join
<1>1. PICK k \in Codes :
        \/ /\ ~ \E d \in Creators : Live(d) /\ code[d] = k
           /\ Choose(c, k)
        \/ /\ attempts' = [attempts EXCEPT ![c] = @ + 1]
           /\ IF attempts'[c] = MaxAttempts THEN Goto(c, "failed") ELSE UNCHANGED pc
           /\ UNCHANGED <<code, overlapped>>
  BY DEF PickCode
<1>2. pc[c] = "pick" /\ attempts[c] < MaxAttempts /\ session[c] = "none" /\ UNCHANGED <<stored, join, failures>>
  BY DEF PickCode, MeetInv, CreationOK
<1>3. CASE /\ ~ \E d \in Creators : Live(d) /\ code[d] = k
           /\ Choose(c, k)
  <2>1. TypeOK'
    BY <1>2, <1>3 DEF MeetInv, TypeOK, Choose, Goto
  <2>2. /\ pc'[c] = "report" /\ code'[c] = k
        /\ \A d \in Creators \ {c} : pc'[d] = pc[d] /\ code'[d] = code[d]
        /\ overlapped \subseteq overlapped'
        /\ Choosing(k) # {} => c \in overlapped'
    BY <1>3 DEF MeetInv, TypeOK, Choose, Goto
  <2>3. \A d \in Creators : CreationOK(d)'
    BY <1>2, <1>3, <2>2 DEF MeetInv, CreationOK, Choose
  <2>4. CodesApart'
    <3>1. ASSUME NEW d \in Creators \ {c}, Holds(d)', code'[d] = k PROVE c \in overlapped'
      <4>1. Live(d)' = Live(d)
        BY <1>2 DEF Live
      <4>2. d \in Choosing(k)
        BY <1>3, <2>2, <3>1, <4>1 DEF Holds, Choosing
      <4> QED
        BY <2>2, <4>2
    <3>2. \A d \in Creators \ {c} : Holds(d)' = Holds(d)
      BY <1>2, <2>2 DEF Holds, Live
    <3> QED
      BY <2>2, <3>1, <3>2 DEF MeetInv, CodesApart
  <2>5. \A g \in Guests : GuestOK(g)'
    BY <1>2, <2>2 DEF MeetInv, GuestOK, At
  <2>6. OneGuest'
    BY <1>2 DEF MeetInv, OneGuest, At
  <2>7. \A r \in late' : LateOK(r)'
    BY <1>2, <2>2, LateStay DEF MeetInv, TypeOK, At
  <2> QED
    BY <2>1, <2>3, <2>4, <2>5, <2>6, <2>7 DEF MeetInv
<1>4. CASE /\ attempts' = [attempts EXCEPT ![c] = @ + 1]
           /\ IF attempts'[c] = MaxAttempts THEN Goto(c, "failed") ELSE UNCHANGED pc
           /\ UNCHANGED <<code, overlapped>>
  <2>1. attempts'[c] = attempts[c] + 1 /\ attempts[c] + 1 \in 0..MaxAttempts
    BY <1>2, <1>4, SessionsAssumption DEF MeetInv, TypeOK
  <2>2. TypeOK'
    BY <1>2, <1>4, <2>1 DEF MeetInv, TypeOK, Goto
  <2>3. \A d \in Creators : pc'[d] = pc[d] \/ (d = c /\ pc'[d] = "failed")
    BY <1>4 DEF MeetInv, TypeOK, Goto
  <2>4. pc'[c] = "failed" \/ attempts'[c] < MaxAttempts
    BY <1>4, <2>1, SessionsAssumption DEF MeetInv, TypeOK, Goto
  <2>5. \A d \in Creators \ {c} : attempts'[d] = attempts[d]
    BY <1>4 DEF MeetInv, TypeOK
  <2>6. \A d \in Creators : CreationOK(d)'
    BY <1>2, <2>3, <2>4, <2>5 DEF MeetInv, CreationOK
  <2>7. CodesApart'
    BY <1>2, <1>4, <2>3 DEF MeetInv, CodesApart, Holds, Live
  <2>8. (\A g \in Guests : GuestOK(g)') /\ OneGuest'
    BY <1>2, <1>4, <2>3 DEF MeetInv, GuestOK, OneGuest, At
  <2>9. \A r \in late' : LateOK(r)'
    BY <1>2, <2>3, LateStay DEF MeetInv, TypeOK, At
  <2> QED
    BY <2>2, <2>6, <2>7, <2>8, <2>9 DEF MeetInv
<1> QED
  BY <1>1, <1>3, <1>4

LEMMA CreateReportMeets ==
  ASSUME MeetInv, NEW c \in Creators, CreateReport(c)
  PROVE  MeetInv'
<1> USE DEF join
<1>1. /\ pc[c] = "report" /\ pc'[c] = "session"
      /\ \A d \in Creators \ {c} : pc'[d] = pc[d] /\ devices'[d] = devices[d]
      /\ devices'[c] = {c}
  BY DEF CreateReport, Goto, MeetInv, TypeOK
<1>2. TypeOK'
  BY DEF CreateReport, Goto, MeetInv, TypeOK, Devices
<1>3. \A d \in Creators : CreationOK(d)'
  BY <1>1 DEF CreateReport, MeetInv, CreationOK
<1>4. CodesApart'
  BY <1>1 DEF CreateReport, MeetInv, CodesApart, Holds, Live
<1>5. \A g \in Guests : GuestOK(g)'
  <2> SUFFICES ASSUME NEW g \in Guests PROVE GuestOK(g)'
    OBVIOUS
  <2>1. ~At(g, c) /\ inside[g] \in Creators \cup {None}
    BY <1>1 DEF MeetInv, GuestOK, TypeOK
  <2>2. inside[g] # None => g \in devices'[inside[g]]
    BY <1>1, <2>1 DEF MeetInv, GuestOK, At
  <2> QED
    BY <1>1, <2>1, <2>2 DEF CreateReport, MeetInv, GuestOK, At
<1>6. OneGuest'
  BY DEF CreateReport, MeetInv, OneGuest, At
<1>7. \A r \in late' : LateOK(r)'
  BY <1>1, LateStay DEF CreateReport, At
<1> QED
  BY <1>2, <1>3, <1>4, <1>5, <1>6, <1>7 DEF MeetInv

LEMMA CreateSessionMeets ==
  ASSUME MeetInv, NEW c \in Creators, CreateSession(c)
  PROVE  MeetInv'
<1> USE DEF join
<1>1. /\ pc[c] = "session" /\ pc'[c] = "link" /\ session'[c] = "waiting"
      /\ \A d \in Creators \ {c} : pc'[d] = pc[d] /\ session'[d] = session[d]
  BY DEF CreateSession, Goto, MeetInv, TypeOK
<1>2. TypeOK'
  BY DEF CreateSession, Goto, MeetInv, TypeOK, Statuses
<1>3. \A d \in Creators : CreationOK(d)'
  BY <1>1 DEF CreateSession, MeetInv, CreationOK
<1>4. CodesApart'
  <2>1. \A d \in Creators : Holds(d)' => Holds(d)
    BY <1>1 DEF CreateSession, Holds, Live
  <2> QED
    BY <2>1 DEF CreateSession, MeetInv, CodesApart
<1>5. \A g \in Guests : GuestOK(g)'
  <2> SUFFICES ASSUME NEW g \in Guests PROVE GuestOK(g)'
    OBVIOUS
  <2>1. ~At(g, c)
    BY <1>1 DEF MeetInv, GuestOK
  <2> QED
    BY <1>1, <2>1 DEF CreateSession, MeetInv, GuestOK, At
<1>6. OneGuest'
  BY DEF CreateSession, MeetInv, OneGuest, At
<1>7. \A r \in late' : LateOK(r)'
  BY <1>1, LateStay DEF CreateSession, At
<1> QED
  BY <1>2, <1>3, <1>4, <1>5, <1>6, <1>7 DEF MeetInv

LEMMA LinkReportMeets ==
  ASSUME MeetInv, NEW c \in Creators, LinkReport(c)
  PROVE  MeetInv'
<1> USE DEF join
<1>1. /\ pc[c] = "link" /\ pc'[c] = "shown"
      /\ \A d \in Creators \ {c} : pc'[d] = pc[d]
  BY DEF LinkReport, Goto, MeetInv, TypeOK
<1>2. TypeOK'
  BY DEF LinkReport, Goto, MeetInv, TypeOK
<1>3. \A d \in Creators : CreationOK(d)'
  BY <1>1 DEF LinkReport, MeetInv, CreationOK
<1>4. CodesApart'
  BY <1>1 DEF LinkReport, MeetInv, CodesApart, Holds, Live
<1>5. (\A g \in Guests : GuestOK(g)') /\ OneGuest'
  BY <1>1 DEF LinkReport, MeetInv, GuestOK, OneGuest, At
<1>6. \A r \in late' : LateOK(r)'
  BY <1>1, LateStay DEF LinkReport, At
<1> QED
  BY <1>2, <1>3, <1>4, <1>5, <1>6 DEF MeetInv

LEMMA CreationFailsMeets ==
  ASSUME MeetInv, NEW c \in Creators, CreationFails(c)
  PROVE  MeetInv'
<1> USE DEF join
<1>1. /\ pc'[c] = "failed"
      /\ \A d \in Creators \ {c} : pc'[d] = pc[d]
      /\ linked \subseteq linked' /\ linked' \subseteq Creators
  BY DEF CreationFails, Goto, MeetInv, TypeOK
<1>2. TypeOK'
  BY <1>1 DEF CreationFails, Goto, MeetInv, TypeOK
<1>3. \A d \in Creators : CreationOK(d)'
  BY <1>1 DEF CreationFails, MeetInv, CreationOK
<1>4. CodesApart'
  BY <1>1 DEF CreationFails, MeetInv, CodesApart, Holds, Live
<1>5. (\A g \in Guests : GuestOK(g)') /\ OneGuest'
  BY <1>1 DEF CreationFails, MeetInv, GuestOK, OneGuest, At
<1>6. \A r \in late' : LateOK(r)'
  BY <1>1, LateStay DEF CreationFails, At
<1> QED
  BY <1>2, <1>3, <1>4, <1>5, <1>6 DEF MeetInv

-----------------------------------------------------------------------------
(* What a step of a guest leaves alone: the creations, as long as no        *)
(* session comes or goes and no device leaves a report.                     *)
LEMMA CreationsStay ==
  ASSUME MeetInv, UNCHANGED <<creation, expired, linked>>,
         \A c \in Creators : session'[c] = "none" <=> session[c] = "none",
         \A c \in Creators : devices[c] \subseteq devices'[c]
  PROVE  (\A c \in Creators : CreationOK(c)') /\ CodesApart'
<1>1. \A c \in Creators : CreationOK(c)'
  BY DEF MeetInv, CreationOK, creation
<1>2. \A c \in Creators : Holds(c)' = Holds(c)
  BY DEF Holds, Live, creation
<1> QED
  BY <1>1, <1>2 DEF MeetInv, CodesApart, creation

(* A guest is admitted to a live session with the code it was shown: the    *)
(* one it was shown, or one whose creation overlapped with it.              *)
LEMMA FindSessionMeets ==
  ASSUME MeetInv, NEW g \in Guests, FindSession(g)
  PROVE  MeetInv'
<1>1. PICK c \in Creators :
        /\ pc[c] = "shown"
        /\ asked' = [asked EXCEPT ![g] = c]
        /\ \/ UNCHANGED <<joining, target, raced>>
           \/ \E d \in Matching(code[c]) : Admit(g, d)
  BY DEF FindSession
<1>2. joining[g] = "idle" /\ inside[g] = None /\ UNCHANGED <<stored, creation, inside, late, failures>>
  BY DEF FindSession
<1>3. (\A d \in Creators : CreationOK(d)') /\ CodesApart'
  BY <1>2, CreationsStay DEF stored
<1>4. \A d \in Creators : ~At(g, d)
  BY <1>2, SessionsAssumption DEF At
<1>5. CASE UNCHANGED <<joining, target, raced>>
  <2>1. TypeOK'
    BY <1>1, <1>2, <1>5 DEF MeetInv, TypeOK, stored, creation
  <2>2. \A h \in Guests, d \in Creators : At(h, d)' = At(h, d)
    BY <1>2, <1>5 DEF At
  <2>3. \A h \in Guests \ {g} : GuestOK(h)'
    <3>1. \A h \in Guests \ {g} : asked'[h] = asked[h]
      BY <1>1 DEF MeetInv, TypeOK
    <3> QED
      BY <1>2, <1>5, <2>2, <3>1 DEF MeetInv, GuestOK, stored, creation
  <2>4. GuestOK(g)'
    BY <1>2, <1>4, <1>5, <2>2 DEF GuestOK
  <2>5. OneGuest'
    BY <1>5, <2>2 DEF MeetInv, OneGuest
  <2>6. \A r \in late' : LateOK(r)'
    BY <1>2, <1>5, <2>2, LateStay DEF stored, creation
  <2> QED
    BY <1>3, <2>1, <2>3, <2>4, <2>5, <2>6 DEF MeetInv
<1>6. ASSUME NEW d \in Matching(code[c]), session[d] = "waiting",
             GuestGoto(g, "save"), target' = [target EXCEPT ![g] = d],
             raced' = IF Saving(d) = {} THEN raced ELSE raced \cup {d}
      PROVE  MeetInv'
  <2>1. d \in Creators /\ Live(d) /\ code[d] = code[c]
    BY <1>6 DEF Matching
  <2>2. TypeOK'
    BY <1>1, <1>2, <1>6, <2>1 DEF MeetInv, TypeOK, stored, creation, GuestGoto
  <2>3. /\ joining'[g] = "save" /\ target'[g] = d /\ asked'[g] = c
        /\ \A h \in Guests \ {g} : /\ joining'[h] = joining[h]
                                   /\ target'[h] = target[h]
                                   /\ asked'[h] = asked[h]
        /\ raced \subseteq raced'
    BY <1>1, <1>6 DEF MeetInv, TypeOK, GuestGoto
  <2>4. /\ \A e \in Creators : At(g, e)' => e = d
        /\ \A h \in Guests \ {g}, e \in Creators : At(h, e)' = At(h, e)
    BY <1>2, <2>3, SessionsAssumption DEF At
  <2>5. \A h \in Guests \ {g} : GuestOK(h)'
    BY <1>2, <2>3, <2>4 DEF MeetInv, GuestOK, stored, creation
  <2>6. GuestOK(g)'
    <3>1. pc[d] \notin {"pick", "report", "session"}
      BY <2>1 DEF MeetInv, CreationOK, Live
    <3>2. d = c \/ {d, c} \cap overlapped # {} \/ c \in expired
      BY <1>1, <2>1 DEF MeetInv, CreationOK, CodesApart, Holds, Live
    <3> QED
      BY <1>2, <1>6, <2>1, <2>3, <2>4, <3>1, <3>2 DEF GuestOK, stored, creation
  <2>7. OneGuest'
    <3>1. ASSUME NEW h \in Guests \ {g}, At(h, d) PROVE d \in raced'
      <4>1. joining[h] = "save" /\ target[h] = d
        BY <1>6, <2>1, <3>1, SessionsAssumption DEF MeetInv, GuestOK, At
      <4>2. h \in Saving(d)
        BY <4>1 DEF Saving
      <4> QED
        BY <1>6, <4>2
    <3> QED
      BY <2>3, <2>4, <3>1 DEF MeetInv, OneGuest
  <2>8. ASSUME NEW r \in late, r.at = d PROVE d \in raced'
    <3>1. r.step = "save" \/ d \in raced
      BY <1>6, <2>8 DEF MeetInv, LateOK
    <3>2. CASE r.step = "save"
      <4>1. r \in Saving(d)
        BY <2>8, <3>2 DEF Saving
      <4> QED
        BY <1>6, <4>1
    <3> QED
      BY <2>3, <3>1, <3>2
  <2>9. \A r \in late' : LateOK(r)'
    <3> SUFFICES ASSUME NEW r \in late PROVE LateOK(r)'
      BY <1>2
    <3>1. r.at \in Creators /\ LateOK(r)
      BY DEF MeetInv, TypeOK
    <3>2. \A h \in Guests : At(h, r.at)' => r.at \in raced'
      BY <2>3, <2>4, <2>8, <3>1 DEF LateOK
    <3> QED
      BY <1>2, <2>3, <3>1, <3>2 DEF LateOK, stored, creation
  <2> QED
    BY <1>3, <2>2, <2>5, <2>6, <2>7, <2>9 DEF MeetInv
<1> QED
  BY <1>1, <1>5, <1>6 DEF Admit

(* A guest that leaves, without having got in, is nowhere.                  *)
LEMMA Left ==
  ASSUME MeetInv, NEW g \in Guests, joining[g] # "idle", Leave(g), UNCHANGED inside
  PROVE  /\ joining'[g] = "idle" /\ target'[g] = None
         /\ \A d \in Creators : ~At(g, d)'
         /\ \A h \in Guests \ {g} : /\ joining'[h] = joining[h]
                                    /\ target'[h] = target[h]
                                    /\ \A d \in Creators : At(h, d)' = At(h, d)
  BY SessionsAssumption DEF MeetInv, TypeOK, GuestOK, Leave, GuestGoto, At

LEMMA LeavingMeets ==
  ASSUME MeetInv, NEW g \in Guests, joining[g] # "idle", Leave(g),
         UNCHANGED <<stored, creation, asked, inside, raced>>,
         failures' \in Nat,
         late' \subseteq late \cup {[phone |-> g, at |-> target[g], step |-> joining[g]]}
  PROVE  MeetInv'
<1> DEFINE new == [phone |-> g, at |-> target[g], step |-> joining[g]]
<1>1. (\A d \in Creators : CreationOK(d)') /\ CodesApart'
  BY CreationsStay DEF stored
<1>2. TypeOK'
  <2>1. target[g] \in Creators /\ joining[g] \in {"save", "device"}
    BY DEF MeetInv, TypeOK, GuestOK
  <2> QED
    BY <2>1 DEF MeetInv, TypeOK, stored, creation, Leave, GuestGoto
<1>3. \A h \in Guests \ {g} : GuestOK(h)'
  <2> SUFFICES ASSUME NEW h \in Guests \ {g} PROVE GuestOK(h)'
    OBVIOUS
  <2>1. inside[h] # None => inside[h] \in Creators
    BY DEF MeetInv, TypeOK
  <2> QED
    BY <2>1, Left DEF MeetInv, GuestOK, stored, creation
<1>4. GuestOK(g)'
  BY Left DEF MeetInv, GuestOK
<1>5. OneGuest'
  BY Left DEF MeetInv, OneGuest
<1>6. \A r \in late' : LateOK(r)'
  <2>1. target[g] \in Creators /\ At(g, target[g])
    BY DEF MeetInv, GuestOK, At
  <2>2. \A q \in late : q.at = target[g] => target[g] \in raced
    BY <2>1 DEF MeetInv, LateOK
  <2>3. ASSUME NEW r \in late' PROVE LateOK(r)'
    <3>1. CASE r \in late
      <4>1. r.at \in Creators /\ LateOK(r)
        BY <3>1 DEF MeetInv, TypeOK
      <4>2. \A q \in late' : q.at = r.at => q = r \/ r.at \in raced
        BY <2>2, <3>1, <4>1 DEF LateOK
      <4> QED
        BY <4>1, <4>2, Left DEF LateOK, stored, creation
    <3>2. CASE r = new
      <4>1. r.at = target[g] /\ r.step = joining[g]
        BY <3>2
      <4>2. \A h \in Guests : At(h, r.at)' => r.at \in raced
        BY <2>1, <4>1, Left DEF MeetInv, OneGuest
      <4>3. \A q \in late' : q.at = r.at => q = r \/ r.at \in raced
        BY <2>2, <3>2, <4>1
      <4>4. /\ pc[r.at] \notin {"pick", "report", "session"}
            /\ IF r.step = "save" THEN session[r.at] \in {"none", "waiting"} \/ r.at \in raced
                                  ELSE session[r.at] # "waiting"
        BY <2>1, <4>1 DEF MeetInv, GuestOK
      <4> QED
        BY <4>2, <4>3, <4>4 DEF LateOK, stored, creation
    <3> QED
      BY <3>1, <3>2
  <2> QED
    BY <2>3
<1> QED
  BY <1>1, <1>2, <1>3, <1>4, <1>5, <1>6 DEF MeetInv

(* Only a guest that raced saves over a status that is not "waiting".       *)
LEMMA SaveJoinedMeets ==
  ASSUME MeetInv, NEW g \in Guests, SaveJoined(g)
  PROVE  MeetInv'
<1>1. joining[g] = "save" /\ target[g] \in Creators
  BY DEF SaveJoined, MeetInv, GuestOK
<1>2. CASE Leave(g) /\ UNCHANGED session
  BY <1>1, <1>2, LeavingMeets DEF SaveJoined, MeetInv, TypeOK, stored
<1>3. CASE /\ session[target[g]] # "none"
           /\ session' = [session EXCEPT ![target[g]] = "joined"]
           /\ GuestGoto(g, "device")
           /\ UNCHANGED target
  <2> DEFINE d == target[g]
  <2>1. UNCHANGED <<expired, devices, linked, creation, asked, inside, late, raced, failures, target>>
    BY <1>3 DEF SaveJoined
  <2>2. /\ session'[d] = "joined" /\ \A e \in Creators \ {d} : session'[e] = session[e]
        /\ joining'[g] = "device" /\ \A h \in Guests \ {g} : joining'[h] = joining[h]
    BY <1>1, <1>3 DEF MeetInv, TypeOK, GuestGoto
  <2>3. (\A c \in Creators : CreationOK(c)') /\ CodesApart'
    BY <1>1, <1>3, <2>1, <2>2, CreationsStay
  <2>4. TypeOK'
    BY <1>3, <2>1 DEF MeetInv, TypeOK, Statuses, GuestGoto, creation
  <2>5. \A h \in Guests, e \in Creators : At(h, e)' = At(h, e)
    BY <1>1, <2>1, <2>2 DEF At
  <2>6. ASSUME NEW h \in Guests, joining'[h] = "save", target[h] = d PROVE d \in raced
    BY <1>1, <2>2, <2>6 DEF MeetInv, OneGuest, At
  <2>7. ASSUME NEW h \in Guests PROVE GuestOK(h)'
    <3>1. \A e \in Creators : joining'[h] = "save" /\ target[h] = e =>
            session'[e] \in {"none", "waiting"} \/ e \in raced
      BY <1>1, <2>2, <2>6 DEF MeetInv, GuestOK
    <3>2. At(g, d) /\ \A e \in Creators \ {d} : ~At(g, e)
      BY <1>1, SessionsAssumption DEF MeetInv, GuestOK, At
    <3>3. \A e \in Creators : At(h, e) /\ joining'[h] # "save" => session'[e] # "waiting"
      BY <1>1, <2>2, <3>2 DEF MeetInv, GuestOK
    <3>4. joining'[h] # "idle" => target[h] \in Creators /\ inside[h] = None
      BY <1>1, <2>2 DEF MeetInv, GuestOK
    <3> QED
      BY <2>1, <2>5, <3>1, <3>3, <3>4 DEF MeetInv, GuestOK, creation
  <2>8. OneGuest'
    BY <2>1, <2>5 DEF MeetInv, OneGuest
  <2>9. \A r \in late' : LateOK(r)'
    <3> SUFFICES ASSUME NEW r \in late PROVE LateOK(r)'
      BY <2>1
    <3>1. r.at \in Creators /\ LateOK(r)
      BY DEF MeetInv, TypeOK
    <3>2. r.at = d => d \in raced
      BY <1>1, <3>1 DEF LateOK, At
    <3> QED
      BY <2>1, <2>2, <2>5, <3>1, <3>2 DEF LateOK, creation
  <2> QED
    BY <2>3, <2>4, <2>7, <2>8, <2>9 DEF MeetInv
<1> QED
  BY <1>2, <1>3 DEF SaveJoined

LEMMA AddDeviceMeets ==
  ASSUME MeetInv, NEW g \in Guests, AddDevice(g)
  PROVE  MeetInv'
<1> DEFINE d == target[g]
<1>1. joining[g] = "device" /\ d \in Creators
  BY DEF AddDevice, MeetInv, GuestOK
<1>2. UNCHANGED <<session, expired, linked, creation, asked, late, raced, failures>>
  BY DEF AddDevice
<1>3. /\ devices'[d] = devices[d] \cup {g}
      /\ \A c \in Creators \ {d} : devices'[c] = devices[c]
      /\ devices' \in [Creators -> SUBSET Devices]
  BY <1>1 DEF AddDevice, MeetInv, TypeOK, Devices
<1>4. /\ inside'[g] = d /\ joining'[g] = "idle" /\ target'[g] = None
      /\ \A h \in Guests \ {g} : /\ inside'[h] = inside[h]
                                 /\ joining'[h] = joining[h]
                                 /\ target'[h] = target[h]
  BY DEF AddDevice, MeetInv, TypeOK, Enter, Leave, GuestGoto
<1>5. (\A c \in Creators : CreationOK(c)') /\ CodesApart'
  BY <1>2, <1>3, CreationsStay
<1>6. TypeOK'
  BY <1>1, <1>2, <1>3 DEF AddDevice, MeetInv, TypeOK, Enter, Leave, GuestGoto, creation
<1>7. \A h \in Guests, e \in Creators : At(h, e)' => At(h, e)
  BY <1>1, <1>4, SessionsAssumption DEF At
<1>8. \A h \in Guests \ {g} : GuestOK(h)'
  <2> SUFFICES ASSUME NEW h \in Guests \ {g} PROVE GuestOK(h)'
    OBVIOUS
  <2>1. inside'[h] # None => h \in devices'[inside'[h]]
    BY <1>3, <1>4 DEF MeetInv, TypeOK, GuestOK
  <2> QED
    BY <1>2, <1>4, <1>7, <2>1 DEF MeetInv, GuestOK, creation
<1>9. GuestOK(g)'
  BY <1>1, <1>2, <1>3, <1>4, <1>7 DEF MeetInv, GuestOK, At, creation
<1>10. OneGuest'
  BY <1>2, <1>7 DEF MeetInv, OneGuest
<1>11. \A r \in late' : LateOK(r)'
  BY <1>2, <1>7, LateStay DEF AddDevice, creation
<1> QED
  BY <1>5, <1>6, <1>8, <1>9, <1>10, <1>11 DEF MeetInv

LEMMA JoinFailsMeets ==
  ASSUME MeetInv, NEW g \in Guests, JoinFails(g) \/ JoinTimesOut(g)
  PROVE  MeetInv'
<1>1. joining[g] # "idle"
  BY DEF JoinFails, JoinTimesOut
<1> QED
  BY <1>1, LeavingMeets DEF JoinFails, JoinTimesOut, MeetInv, TypeOK

(* What nobody waits for any more, the server still stores.                 *)
LEMMA LateSaveMeets ==
  ASSUME MeetInv, NEW r \in late, LateSave(r)
  PROVE  MeetInv'
<1> DEFINE d == r.at
<1>1. /\ r.step = "save" /\ d \in Creators /\ LateOK(r)
      /\ UNCHANGED <<expired, devices, linked, creation, joining, asked, target, inside, raced, failures>>
  BY DEF LateSave, MeetInv, TypeOK
<1>2. \A g \in Guests, e \in Creators : At(g, e)' = At(g, e)
  BY <1>1 DEF At
<1>3. OneGuest'
  BY <1>1, <1>2 DEF MeetInv, OneGuest
<1>4. CASE late' = late \ {r} /\ UNCHANGED session
  <2>1. TypeOK'
    BY <1>1, <1>4 DEF MeetInv, TypeOK, creation
  <2>2. (\A c \in Creators : CreationOK(c)') /\ CodesApart'
    BY <1>1, <1>4, CreationsStay
  <2>3. \A g \in Guests : GuestOK(g)'
    BY <1>1, <1>2, <1>4 DEF MeetInv, GuestOK, creation
  <2>4. \A q \in late' : LateOK(q)'
    BY <1>1, <1>2, <1>4, LateStay DEF creation
  <2> QED
    BY <1>3, <2>1, <2>2, <2>3, <2>4 DEF MeetInv
<1>5. CASE /\ session[d] # "none"
           /\ session' = [session EXCEPT ![d] = "joined"]
           /\ late' = (late \ {r}) \cup {[r EXCEPT !.step = "device"]}
  <2>1. /\ session'[d] = "joined" /\ \A e \in Creators \ {d} : session'[e] = session[e]
        /\ session' \in [Creators -> Statuses]
    BY <1>1, <1>5 DEF MeetInv, TypeOK, Statuses
  <2>2. TypeOK'
    <3>1. r \in [phone : Guests, at : Creators, step : {"save", "device"}]
      BY DEF MeetInv, TypeOK
    <3>2. [r EXCEPT !.step = "device"] \in [phone : Guests, at : Creators, step : {"save", "device"}]
      BY <3>1
    <3> QED
      BY <1>1, <1>5, <2>1, <3>2 DEF MeetInv, TypeOK, creation
  <2>3. (\A c \in Creators : CreationOK(c)') /\ CodesApart'
    BY <1>1, <1>5, <2>1, CreationsStay
  <2>4. \A g \in Guests : GuestOK(g)'
    <3> SUFFICES ASSUME NEW g \in Guests PROVE GuestOK(g)'
      OBVIOUS
    <3>1. joining[g] = "save" /\ target[g] = d => d \in raced
      BY <1>1 DEF LateOK, At
    <3> QED
      BY <1>1, <1>2, <2>1, <3>1 DEF MeetInv, GuestOK, creation
  <2>5. \A q \in late' : LateOK(q)'
    <3> DEFINE s == [r EXCEPT !.step = "device"]
    <3>1. s.at = d /\ s.step = "device"
      BY DEF MeetInv, TypeOK
    <3>2. ASSUME NEW q \in late' PROVE LateOK(q)'
      <4>1. CASE q = s
        <5>1. \A p \in late' : p.at = d => p = s \/ d \in raced
          BY <1>1, <1>5 DEF LateOK
        <5> QED
          BY <1>1, <1>2, <2>1, <3>1, <4>1, <5>1 DEF LateOK, creation
      <4>2. CASE q \in late \ {r}
        <5>1. q.at \in Creators /\ LateOK(q) /\ (q.at = d => d \in raced)
          BY <1>1, <4>2 DEF MeetInv, TypeOK, LateOK
        <5>2. \A p \in late' : p.at = q.at => p = q \/ q.at \in raced
          BY <1>5, <3>1, <5>1 DEF LateOK
        <5> QED
          BY <1>1, <1>2, <2>1, <5>1, <5>2 DEF LateOK, creation
      <4> QED
        BY <1>5, <4>1, <4>2
    <3> QED
      BY <3>2
  <2> QED
    BY <1>3, <2>2, <2>3, <2>4, <2>5 DEF MeetInv
<1> QED
  BY <1>4, <1>5 DEF LateSave

LEMMA LateDeviceMeets ==
  ASSUME MeetInv, NEW r \in late, LateDevice(r) \/ LateFails(r)
  PROVE  MeetInv'
<1>1. /\ UNCHANGED <<session, expired, linked, creation, joining, asked, target, inside, raced>>
      /\ late' = late \ {r} /\ failures' \in Nat
  BY DEF LateDevice, LateFails, stored, MeetInv, TypeOK
<1>2. /\ devices' \in [Creators -> SUBSET Devices]
      /\ \A c \in Creators : devices[c] \subseteq devices'[c]
  <2>1. r.at \in Creators /\ r.phone \in Devices
    BY DEF MeetInv, TypeOK, Devices
  <2> QED
    BY <2>1 DEF LateDevice, LateFails, stored, MeetInv, TypeOK
<1>3. TypeOK'
  BY <1>1, <1>2 DEF MeetInv, TypeOK, creation
<1>4. (\A c \in Creators : CreationOK(c)') /\ CodesApart'
  BY <1>1, <1>2, CreationsStay
<1>5. \A g \in Guests, d \in Creators : At(g, d)' = At(g, d)
  BY <1>1 DEF At
<1>6. \A g \in Guests : GuestOK(g)'
  <2> SUFFICES ASSUME NEW g \in Guests PROVE GuestOK(g)'
    OBVIOUS
  <2>1. inside[g] # None => inside[g] \in Creators
    BY DEF MeetInv, TypeOK
  <2> QED
    BY <1>1, <1>2, <1>5, <2>1 DEF MeetInv, GuestOK, creation
<1>7. OneGuest'
  BY <1>1, <1>5 DEF MeetInv, OneGuest
<1>8. \A q \in late' : LateOK(q)'
  BY <1>1, <1>5, LateStay DEF creation
<1> QED
  BY <1>3, <1>4, <1>6, <1>7, <1>8 DEF MeetInv

-----------------------------------------------------------------------------
(* The life of a session, and a restart.                                    *)
LEMMA LockMeets ==
  ASSUME MeetInv, NEW c \in Creators, Lock(c)
  PROVE  MeetInv'
<1> USE DEF join
<1>1. /\ session[c] = "joined" /\ session'[c] = "signing"
      /\ \A d \in Creators \ {c} : session'[d] = session[d]
  BY DEF Lock, MeetInv, TypeOK
<1>2. (\A d \in Creators : CreationOK(d)') /\ CodesApart'
  BY <1>1, CreationsStay DEF Lock
<1>3. TypeOK'
  BY DEF Lock, MeetInv, TypeOK, Statuses, creation
<1>4. (\A g \in Guests : GuestOK(g)') /\ OneGuest'
  BY <1>1 DEF Lock, MeetInv, GuestOK, OneGuest, At, creation
<1>5. \A r \in late' : LateOK(r)'
  BY <1>1, LateStay DEF Lock, At, creation
<1> QED
  BY <1>2, <1>3, <1>4, <1>5 DEF MeetInv

LEMMA ExpireMeets ==
  ASSUME MeetInv, NEW c \in Creators, Expire(c)
  PROVE  MeetInv'
<1> USE DEF join, creation
<1>1. expired \subseteq expired' /\ expired' \subseteq Creators
  BY DEF Expire, MeetInv, TypeOK
<1>2. TypeOK'
  BY <1>1 DEF Expire, MeetInv, TypeOK
<1>3. \A d \in Creators : CreationOK(d)'
  BY <1>1 DEF Expire, MeetInv, CreationOK
<1>4. CodesApart'
  BY <1>1 DEF Expire, MeetInv, CodesApart, Holds, Live
<1>5. (\A g \in Guests : GuestOK(g)') /\ OneGuest'
  BY <1>1 DEF Expire, MeetInv, GuestOK, OneGuest, At
<1>6. \A r \in late' : LateOK(r)'
  BY LateStay DEF Expire, At
<1> QED
  BY <1>2, <1>3, <1>4, <1>5, <1>6 DEF MeetInv

LEMMA ReapMeets ==
  ASSUME MeetInv, NEW c \in Creators, Reap(c)
  PROVE  MeetInv'
<1> USE DEF join, creation
<1>1. c \in expired /\ session'[c] = "none" /\ \A d \in Creators \ {c} : session'[d] = session[d]
  BY DEF Reap, MeetInv, TypeOK
<1>2. TypeOK'
  BY DEF Reap, MeetInv, TypeOK, Statuses
<1>3. \A d \in Creators : CreationOK(d)'
  BY <1>1 DEF Reap, MeetInv, CreationOK
<1>4. CodesApart'
  BY <1>1 DEF Reap, MeetInv, CodesApart, Holds, Live
<1>5. (\A g \in Guests : GuestOK(g)') /\ OneGuest'
  BY <1>1 DEF Reap, MeetInv, GuestOK, OneGuest, At
<1>6. \A r \in late' : LateOK(r)'
  BY <1>1, LateStay DEF Reap, At
<1> QED
  BY <1>2, <1>3, <1>4, <1>5, <1>6 DEF MeetInv

LEMMA CrashMeets ==
  ASSUME MeetInv, Crash
  PROVE  MeetInv'
<1> USE DEF stored
<1>1. /\ \A c \in Creators : pc'[c] \in {"shown", "failed"} /\ (pc'[c] = "shown" => pc[c] = "shown")
      /\ \A g \in Guests : joining'[g] = "idle"
  BY DEF Crash
<1>2. TypeOK'
  BY DEF Crash, MeetInv, TypeOK
<1>3. \A c \in Creators : CreationOK(c)'
  BY <1>1 DEF Crash, MeetInv, CreationOK
<1>4. CodesApart'
  BY <1>1 DEF Crash, MeetInv, CodesApart, Holds, Live
<1>5. \A g \in Guests, d \in Creators : At(g, d)' => At(g, d) /\ inside[g] = d /\ joining'[g] # "save"
  BY <1>1 DEF Crash, At
<1>6. \A g \in Guests : GuestOK(g)'
  <2> SUFFICES ASSUME NEW g \in Guests PROVE GuestOK(g)'
    OBVIOUS
  <2>1. \A d \in Creators : inside[g] = d => joining[g] # "save"
    BY SessionsAssumption DEF MeetInv, GuestOK
  <2>2. \A d \in Creators : At(g, d)' => session'[d] # "waiting"
    BY <1>5, <2>1 DEF Crash, MeetInv, GuestOK
  <2> QED
    BY <1>1, <1>5, <2>2 DEF Crash, MeetInv, GuestOK
<1>7. OneGuest'
  BY <1>5 DEF Crash, MeetInv, OneGuest
<1>8. \A r \in late' : LateOK(r)'
  BY DEF Crash
<1> QED
  BY <1>2, <1>3, <1>4, <1>6, <1>7, <1>8 DEF MeetInv

LEMMA NextMeets == MeetInv /\ [Next]_vars => MeetInv'
<1> SUFFICES ASSUME MeetInv, [Next]_vars PROVE MeetInv'
  OBVIOUS
<1>1. CASE \E c \in Creators : \/ PickCode(c) \/ CreateReport(c) \/ CreateSession(c)
                               \/ LinkReport(c) \/ CreationFails(c)
                               \/ Lock(c) \/ Expire(c) \/ Reap(c)
  BY <1>1, PickCodeMeets, CreateReportMeets, CreateSessionMeets, LinkReportMeets,
     CreationFailsMeets, LockMeets, ExpireMeets, ReapMeets
<1>2. CASE \E g \in Guests : \/ FindSession(g) \/ SaveJoined(g) \/ AddDevice(g)
                             \/ JoinFails(g) \/ JoinTimesOut(g)
  BY <1>2, FindSessionMeets, SaveJoinedMeets, AddDeviceMeets, JoinFailsMeets
<1>3. CASE \E r \in late : LateSave(r) \/ LateDevice(r) \/ LateFails(r)
  BY <1>3, LateSaveMeets, LateDeviceMeets
<1>4. CASE UNCHANGED vars
  BY <1>4 DEF vars, stored, creation, join, MeetInv, TypeOK, CreationOK, CodesApart, Holds, Live,
              GuestOK, OneGuest, At, LateOK
<1> QED
  BY <1>1, <1>2, <1>3, <1>4, CrashMeets DEF Next

(* The inductive invariant of the meeting holds throughout.                 *)
THEOREM MeetInvariant == Spec => []MeetInv
  BY InitMeets, NextMeets, PTL DEF Spec

(* Every variable keeps its type.                                           *)
THEOREM TypeCorrectness == Spec => []TypeOK
<1>1. MeetInv => TypeOK
  BY DEF MeetInv
<1> QED
  BY MeetInvariant, <1>1, PTL

(* Two live sessions have one code only if their creations overlapped.      *)
THEOREM CodesNameSessions == Spec => []CodeNamesOneSession
<1>1. MeetInv => CodeNamesOneSession
  BY DEF MeetInv, CodesApart, Holds, CodeNamesOneSession
<1> QED
  BY MeetInvariant, <1>1, PTL

(* A guest gets into the session it was shown, or into one that an overlap  *)
(* or an expiry has given the same code.                                    *)
THEOREM JoinsReachShown == Spec => []JoinReachesShown
<1>1. ASSUME MeetInv PROVE JoinReachesShown
  <2> SUFFICES ASSUME NEW g \in Guests, inside[g] # None
               PROVE  \/ inside[g] = asked[g]
                      \/ {inside[g], asked[g]} \cap overlapped # {}
                      \/ asked[g] \in expired
    BY DEF JoinReachesShown
  <2>1. inside[g] \in Creators /\ At(g, inside[g])
    BY <1>1 DEF MeetInv, TypeOK, At
  <2> QED
    BY <1>1, <2>1 DEF MeetInv, GuestOK
<1>2. MeetInv => JoinReachesShown
  BY <1>1
<1> QED
  BY MeetInvariant, <1>2, PTL

(* Two guests get into one session only if both had found it waiting.       *)
THEOREM OneGuestPerSession == Spec => []OnePartyB
<1>1. MeetInv => OnePartyB
  BY DEF MeetInv, TypeOK, OneGuest, At, OnePartyB
<1> QED
  BY MeetInvariant, <1>1, PTL

(* The report is in the history of both parties that are in its session.    *)
THEOREM PartiesFindTheirReport == Spec => []InsideIsListed
<1>1. MeetInv => InsideIsListed
  BY DEF MeetInv, TypeOK, CreationOK, GuestOK, InsideIsListed, History
<1> QED
  BY MeetInvariant, <1>1, PTL

(* A join that raced with nobody leaves a locked session locked.            *)
THEOREM LockedStaysLocked == Spec => JoinNeverUnlocks
<1>1. ASSUME MeetInv, [Next]_vars, NEW c \in Creators \ raced, session[c] = "signing"
      PROVE  session'[c] # "joined"
  <2>1. CASE \E g \in Guests : SaveJoined(g)
    <3>1. PICK g \in Guests : SaveJoined(g)
      BY <2>1
    <3>2. target[g] # c
      BY <1>1, <3>1 DEF SaveJoined, MeetInv, GuestOK
    <3> QED
      BY <1>1, <3>1, <3>2 DEF SaveJoined, MeetInv, TypeOK
  <2>2. CASE \E d \in Creators : CreateSession(d) \/ Lock(d) \/ Reap(d)
    BY <1>1, <2>2 DEF CreateSession, Lock, Reap, MeetInv, TypeOK
  <2>3. CASE \E r \in late : LateSave(r)
    <3>1. PICK r \in late : LateSave(r)
      BY <2>3
    <3>2. r.at # c
      BY <1>1, <3>1 DEF LateSave, MeetInv, LateOK
    <3> QED
      BY <1>1, <3>1, <3>2 DEF LateSave, MeetInv, TypeOK
  <2>4. CASE UNCHANGED session
    BY <1>1, <2>4
  <2> QED
    BY <1>1, <2>1, <2>2, <2>3, <2>4 DEF Next, vars, stored, PickCode, CreateReport, LinkReport,
       CreationFails, Expire, FindSession, AddDevice, JoinFails, JoinTimesOut, LateDevice,
       LateFails, Crash
<1>2. MeetInv /\ [Next]_vars => [\A c \in Creators \ raced : session[c] = "signing" => session'[c] # "joined"]_vars
  BY <1>1
<1> QED
  BY MeetInvariant, <1>2, PTL DEF Spec, JoinNeverUnlocks

=============================================================================
