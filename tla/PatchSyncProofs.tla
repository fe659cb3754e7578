-------------------------- MODULE PatchSyncProofs --------------------------
(***************************************************************************)
(* For any phones, patches, uploads and DELETEs, whatever connections      *)
(* break and calls fail: what a phone that has joined shows, once nothing  *)
(* is under way, is what is stored, but for the exceptions the properties  *)
(* name.                                                                   *)
(*                                                                         *)
(* The field, each photo and the seal reach a phone in the same two ways,  *)
(* in its snapshot and in a message of their own.  The argument is one for *)
(* all of these attributes: the last message under way that carries it, or *)
(* the copy if there is none, has the value that is stored, unless its     *)
(* broadcast is still to come.                                             *)
(***************************************************************************)
EXTENDS PatchSync, TLAPS

Field == [kind |-> "field", of |-> None]
Status == [kind |-> "status", of |-> None]
Photo(f) == [kind |-> "photo", of |-> f]

Attributes == {Field, Status} \cup {Photo(f) : f \in Files}

In(f, ps) == IF f \in ps THEN "in" ELSE "out"

(* What a report says of an attribute. *)
At(r, a) == IF a.kind = "field" THEN r.field
            ELSE IF a.kind = "status" THEN r.status ELSE In(a.of, r.photos)

Carries(m, a) == \/ m.type = "state"
                 \/ m.type = "field" /\ a.kind = "field"
                 \/ m.type = "photos" /\ a.kind = "photo"
                 \/ m.type = "sealed" /\ a.kind = "status"

Value(m, a) == IF m.type = "state" THEN At(m.report, a)
               ELSE IF m.type = "sealed" THEN "sealed"
               ELSE IF m.type = "photos" THEN In(a.of, m.value) ELSE m.value

LastSays(s, a, v) ==
  \E i \in 1..Len(s) : /\ Carries(s[i], a) /\ Value(s[i], a) = v
                       /\ \A j \in 1..Len(s) : j > i => ~Carries(s[j], a)

SaysNothing(s, a) == \A i \in 1..Len(s) : ~Carries(s[i], a)

(* What the phone shows of an attribute when all its messages have arrived. *)
WillShow(p, a, v) ==
  \/ LastSays(inbox[p], a, v)
  \/ SaysNothing(inbox[p], a) /\ shown[p] \in Report /\ At(shown[p], a) = v

(* The stored value has not been broadcast yet, or nothing promises it will.*)
Pending(a) ==
  \/ a.kind = "field" /\ \E q \in Patches : pc[q] = "saved"
  \/ a.kind = "photo" /\ ((\E r \in Lists : pc[r] = "saved") \/ a.of \in overlapped)
  \/ a.kind = "status" /\ (seal \in {"session", "emit"} \/ stored.status # "sealed")

(* The exceptions the properties name. *)
Excused(p, a) == \/ p \in overtaken
                 \/ a.kind = "status" /\ p \in untold
                 \/ a.kind # "status" /\ p \in outdated

Fresh(p) ==
  \A a \in Attributes :
    ~Excused(p, a) /\ ~Pending(a) =>
      /\ sock[p] = "read" => At(snap[p], a) = At(stored, a)
      /\ sock[p] = "joined" => WillShow(p, a, At(stored, a))

(* A phone that has joined has a report, or will have. *)
HasReport(p) ==
  sock[p] = "joined" => /\ \/ shown[p] \in Report
                           \/ \E i \in 1..Len(inbox[p]) : inbox[p][i].type = "state"
                        /\ \E v : WillShow(p, Status, v)

(* It knows of the lock, or will. *)
WillLock(p) ==
  \/ isLocked[p]
  \/ \E i \in 1..Len(inbox[p]) : \/ inbox[p][i].type = "locked"
                                 \/ /\ inbox[p][i].type = "state"
                                    /\ inbox[p][i].session \in LOCKED_STATUSES

LockTold == lock = "done" /\ session \in LOCKED_STATUSES

KnowsLock(p) ==
  p \notin missed /\ LockTold =>
    /\ sock[p] \in {"entered", "read"} => found[p] \in LOCKED_STATUSES \/ WillLock(p)
    /\ sock[p] = "joined" => WillLock(p)

SyncTypes ==
  /\ TypeOK
  /\ inbox \in [Phones -> Seq(Message)]
  /\ \A p \in Phones : /\ sock[p] = "read" => snap[p] \in Report
                       /\ sock[p] \in {"found", "entered", "read"} => found[p] \in STATUSES
  /\ \A q \in Patches : pc[q] = "sent" => by[q] \in Phones
  /\ \A r \in Lists : pc[r] \notin {"sent", "load"}

Open(r) == pc[r] \in {"save", "saved"}

(* One patch at a time is between its load and its broadcast; of a photo     *)
(* whose requests overlap with no other, each request knows what is stored.  *)
OneSaving ==
  /\ \A q, r \in Patches : Open(q) /\ Open(r) => q = r
  /\ \A q \in Patches : pc[q] = "saved" => stored.field = q
  /\ \A f \in Files \ overlapped :
       /\ \A r, w \in Lists : Open(r) /\ Open(w) /\ Subject(r) = f => r = w
       /\ \A r \in Lists : /\ pc[r] = "save" => (f \in copy[r] <=> f \in stored.photos)
                           /\ pc[r] = "saved" => (f \in Known(r) <=> f \in stored.photos)

(* The order of the lock and of the seal. *)
LockOrder ==
  /\ lock = "open" <=> stored.status = "waiting"
  /\ session \in LOCKED_STATUSES => lock \in {"emit", "done"}
  /\ lock = "emit" => session \in LOCKED_STATUSES
  /\ seal # "open" => session \in LOCKED_STATUSES
  /\ seal \in {"session", "emit", "done"} <=> stored.status = "sealed"
  /\ \A p \in Phones : post[p] \in Report /\ post[p].status = "sealed" => stored.status = "sealed"

(* All of it, for one phone. *)
Phone(p) == Fresh(p) /\ HasReport(p) /\ KnowsLock(p)

-----------------------------------------------------------------------------
(* Messages. *)
LEMMA MessageTypes ==
  ASSUME NEW m \in Message
  PROVE  /\ m.type \in {"state", "field", "photos", "locked", "sealed"}
         /\ m.type = "state" => m.report \in Report /\ m.session \in STATUSES
         /\ m.type = "field" => m.value \in Patches
         /\ m.type = "photos" => m.value \in SUBSET Files
  BY DEF Message

LEMMA MessagesAre ==
  /\ \A q \in Patches : [type |-> "field", value |-> q] \in Message
  /\ \A ps \in SUBSET Files : [type |-> "photos", value |-> ps] \in Message
  /\ \A r \in Report, s \in STATUSES : [type |-> "state", report |-> r, session |-> s] \in Message
  /\ [type |-> "locked"] \in Message /\ [type |-> "sealed"] \in Message
  BY DEF Message

LEMMA AppendSays ==
  ASSUME NEW s \in Seq(Message), NEW m \in Message, NEW a, Carries(m, a)
  PROVE  LastSays(Append(s, m), a, Value(m, a))
<1>1. /\ Len(Append(s, m)) = Len(s) + 1 /\ Append(s, m)[Len(s) + 1] = m
      /\ Len(s) \in Nat
  OBVIOUS
<1> QED
  BY <1>1 DEF LastSays

LEMMA AppendKeeps ==
  ASSUME NEW s \in Seq(Message), NEW m \in Message, NEW a, NEW v, ~Carries(m, a)
  PROVE  /\ LastSays(s, a, v) => LastSays(Append(s, m), a, v)
         /\ SaysNothing(s, a) => SaysNothing(Append(s, m), a)
<1>1. /\ Len(Append(s, m)) = Len(s) + 1 /\ Append(s, m)[Len(s) + 1] = m
      /\ Len(s) \in Nat /\ \A i \in 1..Len(s) : Append(s, m)[i] = s[i]
  OBVIOUS
<1>2. ASSUME NEW i \in 1..Len(s), Carries(s[i], a), Value(s[i], a) = v,
             \A j \in 1..Len(s) : j > i => ~Carries(s[j], a)
      PROVE  LastSays(Append(s, m), a, v)
  <2>1. i \in 1..Len(Append(s, m))
    BY <1>1
  <2>2. \A j \in 1..Len(Append(s, m)) : j > i => ~Carries(Append(s, m)[j], a)
    BY <1>1, <1>2
  <2> QED
    BY <1>1, <1>2, <2>1, <2>2 DEF LastSays
<1>3. SaysNothing(s, a) => SaysNothing(Append(s, m), a)
  BY <1>1 DEF SaysNothing
<1> QED
  BY <1>2, <1>3 DEF LastSays

LEMMA TailSays ==
  ASSUME NEW s \in Seq(Message), s # <<>>, NEW a, NEW v
  PROVE  /\ LastSays(s, a, v) => \/ LastSays(Tail(s), a, v)
                                 \/ /\ Carries(Head(s), a) /\ Value(Head(s), a) = v
                                    /\ SaysNothing(Tail(s), a)
         /\ SaysNothing(s, a) => ~Carries(Head(s), a) /\ SaysNothing(Tail(s), a)
<1>1. /\ Len(s) \in Nat /\ Len(s) >= 1 /\ Len(Tail(s)) = Len(s) - 1 /\ Head(s) = s[1]
      /\ \A i \in 1..Len(Tail(s)) : Tail(s)[i] = s[i + 1] /\ i + 1 \in 1..Len(s)
  OBVIOUS
<1>2. ASSUME NEW i \in 1..Len(s), Carries(s[i], a), Value(s[i], a) = v,
             \A j \in 1..Len(s) : j > i => ~Carries(s[j], a)
      PROVE  \/ LastSays(Tail(s), a, v)
             \/ Carries(Head(s), a) /\ Value(Head(s), a) = v /\ SaysNothing(Tail(s), a)
  <2>1. CASE i = 1
    BY <1>1, <1>2, <2>1 DEF SaysNothing
  <2>2. CASE i # 1
    <3>1. i - 1 \in 1..Len(Tail(s)) /\ Tail(s)[i - 1] = s[i]
      BY <1>1, <2>2
    <3>2. \A j \in 1..Len(Tail(s)) : j > i - 1 => ~Carries(Tail(s)[j], a)
      BY <1>1, <1>2
    <3> QED
      BY <1>2, <3>1, <3>2 DEF LastSays
  <2> QED
    BY <2>1, <2>2
<1>3. SaysNothing(s, a) => ~Carries(Head(s), a) /\ SaysNothing(Tail(s), a)
  BY <1>1 DEF SaysNothing
<1> QED
  BY <1>2, <1>3 DEF LastSays

-----------------------------------------------------------------------------
(* Types. *)
LEMMA StartTypes == Init => SyncTypes
<1> SUFFICES ASSUME Init PROVE SyncTypes
  OBVIOUS
<1>1. stored \in Report /\ session \in STATUSES
  BY DEF Init, Report, STATUSES, Files
<1>2. inbox \in [Phones -> Seq(Message)] /\ \A p \in Phones : \A i \in DOMAIN inbox[p] : inbox[p][i] \in Message
  BY DEF Init
<1> QED
  BY <1>1, <1>2 DEF Init, SyncTypes, TypeOK, Requests

(* What a message leaves in the copy of the phone that takes it. *)
LEMMA DeliverTypes ==
  ASSUME SyncTypes, NEW p \in Phones, Deliver(p)
  PROVE  /\ inbox' \in [Phones -> Seq(Message)]
         /\ shown' \in [Phones -> Report \cup {None}]
         /\ isLocked' \in [Phones -> BOOLEAN]
         /\ post' \in [Phones -> Report \cup {None}]
<1> DEFINE m == Head(inbox[p])
<1>1. /\ inbox \in [Phones -> Seq(Message)] /\ shown \in [Phones -> Report \cup {None}]
      /\ isLocked \in [Phones -> BOOLEAN] /\ inbox[p] # <<>>
  BY DEF SyncTypes, TypeOK, Deliver
<1>2. m \in Message /\ Tail(inbox[p]) \in Seq(Message)
  BY <1>1
<1>3. inbox' \in [Phones -> Seq(Message)]
  BY <1>1, <1>2 DEF Deliver
<1>4. /\ m.type = "state" => m.report \in Report
      /\ m.type = "field" => m.value \in Patches
      /\ m.type = "photos" => m.value \in SUBSET Files
  BY <1>2, MessageTypes
<1>5. isLocked' \in [Phones -> BOOLEAN]
  <2>1. CASE OnState(p, m)
    BY <1>1, <2>1 DEF OnState
  <2>2. CASE OnLocked(p)
    BY <1>1, <2>2 DEF OnLocked
  <2>3. CASE UNCHANGED isLocked
    BY <1>1, <2>3
  <2> QED
    BY <2>1, <2>2, <2>3 DEF Deliver, OnPatched, OnSealed
<1>6. shown' \in [Phones -> Report \cup {None}]
  <2>1. CASE m.type = "state" /\ OnState(p, m)
    BY <1>1, <1>4, <2>1 DEF OnState
  <2>2. CASE m.type \in {"field", "photos"} /\ OnPatched(p, m)
    <3>1. \A r \in Report, q \in Patches, ps \in SUBSET Files :
            [r EXCEPT !.field = q] \in Report /\ [r EXCEPT !.photos = ps] \in Report
      BY DEF Report
    <3>2. shown' = [shown EXCEPT ![p] = IF @ = None THEN None
                                        ELSE IF m.type = "field" THEN [@ EXCEPT !.field = m.value]
                                        ELSE [@ EXCEPT !.photos = m.value]]
      BY <2>2 DEF OnPatched
    <3>3. shown[p] # None => shown[p] \in Report
      BY <1>1
    <3>4. shown' = [shown EXCEPT ![p] = shown'[p]] /\ shown'[p] \in Report \cup {None}
      <4>1. CASE shown[p] = None
        BY <1>1, <3>2, <4>1
      <4>2. CASE shown[p] # None /\ m.type = "field"
        BY <1>1, <1>4, <3>1, <3>2, <3>3, <4>2
      <4>3. CASE shown[p] # None /\ m.type # "field"
        <5>1. m.value \in SUBSET Files
          BY <1>4, <2>2, <4>3
        <5>2. [shown[p] EXCEPT !.photos = m.value] \in Report
          BY <3>3, <4>3, <5>1 DEF Report
        <5> QED
          BY <1>1, <3>2, <4>3, <5>2
      <4> QED
        BY <4>1, <4>2, <4>3
    <3> QED
      BY <1>1, <3>4
  <2>3. CASE OnSealed(p)
    BY <1>1, <2>3, NoneIsNoReport DEF OnSealed, Report
  <2>4. CASE UNCHANGED shown
    BY <1>1, <2>4
  <2> QED
    BY <2>1, <2>2, <2>3, <2>4 DEF Deliver, OnLocked
<1>7. post' \in [Phones -> Report \cup {None}]
  <2>1. \E x \in {None, post[p]} : post' = [post EXCEPT ![p] = x]
    BY DEF Deliver
  <2> QED
    BY <2>1 DEF SyncTypes, TypeOK
<1> QED
  BY <1>3, <1>5, <1>6, <1>7

LEMMA BroadcastTypes ==
  ASSUME SyncTypes, NEW m \in Message, Broadcast(m)
  PROVE  inbox' \in [Phones -> Seq(Message)] /\ UNCHANGED <<shown, isLocked>>
  BY DEF SyncTypes, Broadcast

LEMMA DoneTypes ==
  ASSUME SyncTypes, NEW rs, Done(rs)
  PROVE  /\ pc' \in [Requests -> {"new", "sent", "load", "save", "saved", "done"}]
         /\ by' \in [Patches -> Phones \cup {None}]
         /\ copy' \in [Lists -> SUBSET Files]
         /\ target' \in [Deletes -> Files \cup {None}]
         /\ current' \subseteq Deletes
         /\ \A q \in Patches : pc'[q] = "sent" => by'[q] \in Phones
         /\ \A r \in Lists : pc'[r] \notin {"sent", "load"}
<1>1. /\ copy' \in [Lists -> SUBSET Files]
      /\ target' \in [Deletes -> Files \cup {None}]
      /\ current' \subseteq Deletes
  BY DEF SyncTypes, TypeOK, Done
<1> QED
  BY <1>1 DEF SyncTypes, TypeOK, Done, Requests

LEMMA UnansweredTypes ==
  ASSUME SyncTypes, Unanswered
  PROVE  post' \in [Phones -> Report \cup {None}]
  BY DEF SyncTypes, TypeOK, Unanswered

LEMMA CutTypes ==
  ASSUME SyncTypes, NEW ps, Cut(ps)
  PROVE  /\ sock' \in [Phones -> {"off", "open", "found", "entered", "read", "joined", "outside", "deaf"}]
         /\ found' \in [Phones -> STATUSES \cup {None}]
         /\ snap' \in [Phones -> Report \cup {None}]
         /\ inbox' \in [Phones -> Seq(Message)]
         /\ UNCHANGED <<shown, isLocked>>
         /\ \A p \in Phones : /\ sock'[p] = "read" => snap'[p] \in Report
                              /\ sock'[p] \in {"found", "entered", "read"} => found'[p] \in STATUSES
  BY DEF SyncTypes, TypeOK, Cut


LEMMA TypesStep ==
  ASSUME SyncTypes, [Next]_vars
  PROVE  SyncTypes'
<1> DEFINE Joins == /\ sock' \in [Phones -> {"off", "open", "found", "entered", "read", "joined", "outside", "deaf"}]
                    /\ found' \in [Phones -> STATUSES \cup {None}]
                    /\ snap' \in [Phones -> Report \cup {None}]
                    /\ \A p \in Phones : /\ sock'[p] = "read" => snap'[p] \in Report
                                         /\ sock'[p] \in {"found", "entered", "read"} => found'[p] \in STATUSES
           Heard == /\ inbox' \in [Phones -> Seq(Message)]
                    /\ shown' \in [Phones -> Report \cup {None}]
                    /\ isLocked' \in [Phones -> BOOLEAN]
           Answers == post' \in [Phones -> Report \cup {None}]
           Copies == Heard /\ Answers
           Work == /\ pc' \in [Requests -> {"new", "sent", "load", "save", "saved", "done"}]
                   /\ by' \in [Patches -> Phones \cup {None}]
                   /\ copy' \in [Lists -> SUBSET Files]
                   /\ target' \in [Deletes -> Files \cup {None}]
                   /\ current' \subseteq Deletes
                   /\ \A q \in Patches : pc'[q] = "sent" => by'[q] \in Phones
                   /\ \A r \in Lists : pc'[r] \notin {"sent", "load"}
           Ends == /\ lock' \in {"open", "session", "emit", "done"}
                   /\ seal' \in {"open", "running", "session", "emit", "done"}
           Store == stored' \in Report /\ session' \in STATUSES
<1>0. Joins /\ Copies /\ Work /\ Ends /\ Store => SyncTypes'
  BY DEF SyncTypes, TypeOK
<1>a. UNCHANGED joins => Joins
  BY DEF SyncTypes, TypeOK, joins
<1>b. UNCHANGED phoneVars => Copies
  BY DEF SyncTypes, TypeOK, phoneVars
<1>h. UNCHANGED <<inbox, shown, isLocked>> => Heard
  BY DEF SyncTypes, TypeOK
<1>p. UNCHANGED post => Answers
  BY DEF SyncTypes, TypeOK
<1>c. UNCHANGED requests => Work
  BY DEF SyncTypes, TypeOK, requests
<1>d. UNCHANGED ends => Ends
  BY DEF SyncTypes, TypeOK, ends
<1>e. UNCHANGED <<stored, session>> => Store
  BY DEF SyncTypes, TypeOK
<1>1. ASSUME NEW p \in Phones, Connect(p) \/ LoadSession(p) \/ EnterRoom(p) \/ ReadReport(p)
      PROVE  SyncTypes'
  <2>1. Joins
    <3>1. CASE Connect(p)
      BY <3>1 DEF SyncTypes, TypeOK, Connect
    <3>2. CASE LoadSession(p)
      BY <3>2 DEF SyncTypes, TypeOK, LoadSession
    <3>3. CASE EnterRoom(p)
      BY <3>3 DEF SyncTypes, TypeOK, EnterRoom
    <3>4. CASE ReadReport(p)
      BY <3>4 DEF SyncTypes, TypeOK, ReadReport
    <3> QED
      BY <1>1, <3>1, <3>2, <3>3, <3>4
  <2> QED
    BY <2>1, <1>0, <1>b, <1>c, <1>d, <1>e, <1>1 DEF Connect, LoadSession, EnterRoom, ReadReport
<1>2. ASSUME NEW p \in Phones, JoinFails(p)
      PROVE  SyncTypes'
  <2>1. Joins
    BY <1>2 DEF SyncTypes, TypeOK, JoinFails
  <2> QED
    BY <2>1, <1>0, <1>b, <1>c, <1>d, <1>e, <1>2 DEF JoinFails
<1>3. ASSUME NEW p \in Phones, EmitState(p)
      PROVE  SyncTypes'
  <2>1. Joins
    BY <1>3 DEF SyncTypes, TypeOK, EmitState
  <2>2. [type |-> "state", report |-> snap[p], session |-> found[p]] \in Message
    BY <1>3, MessagesAre DEF EmitState, SyncTypes
  <2>3. Heard
    BY <1>3, <2>2 DEF SyncTypes, TypeOK, EmitState
  <2> QED
    BY <2>1, <2>3, <1>0, <1>c, <1>d, <1>e, <1>p, <1>3 DEF EmitState
<1>4. ASSUME NEW p \in Phones, Drop(p)
      PROVE  SyncTypes'
  <2>1. Joins /\ Heard
    BY <1>4, CutTypes DEF Drop, SyncTypes, TypeOK
  <2>2. Work
    BY <1>4, DoneTypes DEF Drop
  <2> QED
    BY <2>1, <2>2, <1>0, <1>d, <1>e, <1>p, <1>4 DEF Drop
<1>5. CASE Restart
  <2>1. Joins /\ Heard
    BY <1>5, CutTypes DEF Restart, SyncTypes, TypeOK
  <2>2. Work
    BY <1>5, DoneTypes DEF Restart
  <2>3. Ends
    BY <1>5 DEF Restart, SyncTypes, TypeOK
  <2>4. Answers
    BY <1>5, UnansweredTypes DEF Restart
  <2> QED
    BY <2>1, <2>2, <2>3, <2>4, <1>0, <1>e, <1>5 DEF Restart
<1>6. ASSUME NEW p \in Phones, Deliver(p)
      PROVE  SyncTypes'
  <2>1. Copies
    BY <1>6, DeliverTypes
  <2> QED
    BY <2>1, <1>0, <1>a, <1>c, <1>d, <1>e, <1>6 DEF Deliver
<1>7. ASSUME NEW p \in Phones, NEW q \in Patches, SendPatch(p, q)
      PROVE  SyncTypes'
  <2>1. Work
    BY <1>7, SyncAssumption DEF SendPatch, Goto, SyncTypes, TypeOK, Requests, Lists
  <2> QED
    BY <2>1, <1>0, <1>a, <1>b, <1>d, <1>e, <1>7 DEF SendPatch
<1>8. ASSUME NEW q \in Patches, OtherPatch(q) \/ ReceivePatch(q) \/ LoadReport(q)
      PROVE  SyncTypes'
  <2>1. ASSUME Done({q})
        PROVE  Work
    BY <2>1, DoneTypes
  <2>2. ASSUME NEW step \in {"load", "save"}, Goto(q, step), UNCHANGED <<by, copy, target, current>>
        PROVE  Work
    BY <2>2, SyncAssumption DEF Goto, SyncTypes, TypeOK, Requests, Lists
  <2>3. Work
    BY <1>8, <2>1, <2>2 DEF OtherPatch, ReceivePatch, LoadReport
  <2> QED
    BY <2>3, <1>0, <1>a, <1>b, <1>d, <1>e, <1>8 DEF OtherPatch, ReceivePatch, LoadReport
<1>9. ASSUME NEW q \in Patches, SavePatch(q)
      PROVE  SyncTypes'
  <2>1. Work
    BY <1>9, SyncAssumption DEF SavePatch, Goto, SyncTypes, TypeOK, Requests, Lists
  <2>2. Store
    BY <1>9 DEF SavePatch, SyncTypes, TypeOK, Report
  <2> QED
    BY <2>1, <2>2, <1>0, <1>a, <1>b, <1>d, <1>9 DEF SavePatch
<1>10. ASSUME NEW r \in Lists, Admit(r)
       PROVE  /\ pc' \in [Requests -> {"new", "sent", "load", "save", "saved", "done"}]
              /\ by' \in [Patches -> Phones \cup {None}]
              /\ copy' \in [Lists -> SUBSET Files]
              /\ \A q \in Patches : pc'[q] = "sent" => by'[q] \in Phones
              /\ \A w \in Lists : pc'[w] \notin {"sent", "load"}
  <2>1. stored.photos \in SUBSET Files
    BY DEF SyncTypes, TypeOK, Report
  <2> QED
    BY <1>10, <2>1, SyncAssumption DEF Admit, Goto, SyncTypes, TypeOK, Requests, Lists
<1>11. ASSUME NEW u \in Photos, GuardPhoto(u)
       PROVE  SyncTypes'
  <2>1. CASE Done({u})
    BY <2>1, DoneTypes, <1>0, <1>a, <1>b, <1>d, <1>e, <1>11 DEF GuardPhoto
  <2>2. CASE Admit(u) /\ UNCHANGED <<target, current>>
    <3>1. Work
      BY <2>2, <1>10 DEF Lists, SyncTypes, TypeOK
    <3> QED
      BY <3>1, <1>0, <1>a, <1>b, <1>d, <1>e, <1>11 DEF GuardPhoto
  <2> QED
    BY <1>11, <2>1, <2>2 DEF GuardPhoto
<1>12. ASSUME NEW d \in Deletes, GuardDelete(d)
       PROVE  SyncTypes'
  <2>1. CASE Done({d})
    BY <2>1, DoneTypes, <1>0, <1>a, <1>b, <1>d, <1>e, <1>12 DEF GuardDelete
  <2>2. ASSUME NEW f \in stored.photos, Admit(d), target' = [target EXCEPT ![d] = f],
               current' = current \cup {d}
        PROVE  SyncTypes'
    <3>1. f \in Files
      BY DEF SyncTypes, TypeOK, Report
    <3>2. target' \in [Deletes -> Files \cup {None}] /\ current' \subseteq Deletes
      BY <2>2, <3>1 DEF SyncTypes, TypeOK
    <3>3. Work
      BY <2>2, <3>2, <1>10 DEF Lists
    <3> QED
      BY <3>3, <1>0, <1>a, <1>b, <1>d, <1>e, <1>12 DEF GuardDelete
  <2> QED
    BY <1>12, <2>1, <2>2 DEF GuardDelete
<1>13. ASSUME NEW u \in Photos, SavePhoto(u)
       PROVE  SyncTypes'
  <2>1. Work
    BY <1>13, SyncAssumption DEF SavePhoto, Goto, SyncTypes, TypeOK, Requests, Lists
  <2>2. Store
    BY <1>13 DEF SavePhoto, SyncTypes, TypeOK, Report, Files
  <2> QED
    BY <2>1, <2>2, <1>0, <1>a, <1>b, <1>d, <1>13 DEF SavePhoto
<1>14. ASSUME NEW d \in Deletes, SaveDelete(d)
       PROVE  SyncTypes'
  <2>1. CASE Done({d}) /\ UNCHANGED stored
    BY <2>1, DoneTypes, <1>0, <1>a, <1>b, <1>d, <1>e, <1>14 DEF SaveDelete
  <2>2. CASE /\ stored' = [stored EXCEPT !.photos = copy[d] \ {target[d]}]
             /\ Goto(d, "saved") /\ current' = {} /\ UNCHANGED <<by, copy, target>>
    <3>1. Work
      BY <2>2, SyncAssumption DEF Goto, SyncTypes, TypeOK, Requests, Lists
    <3>2. copy[d] \ {target[d]} \in SUBSET Files
      BY DEF SyncTypes, TypeOK, Lists
    <3>3. Store
      BY <1>14, <2>2, <3>2 DEF SaveDelete, SyncTypes, TypeOK, Report
    <3> QED
      BY <3>1, <3>3, <1>0, <1>a, <1>b, <1>d, <1>14 DEF SaveDelete
  <2> QED
    BY <1>14, <2>1, <2>2 DEF SaveDelete
<1>15. ASSUME NEW q \in Patches, BroadcastPatch(q)
       PROVE  SyncTypes'
  <2>1. Heard
    BY <1>15, MessagesAre, BroadcastTypes DEF BroadcastPatch, SyncTypes, TypeOK
  <2>2. Work
    BY <1>15, DoneTypes DEF BroadcastPatch
  <2> QED
    BY <2>1, <2>2, <1>0, <1>a, <1>d, <1>e, <1>p, <1>15 DEF BroadcastPatch
<1>16. ASSUME NEW r \in Lists, BroadcastPhotos(r)
       PROVE  SyncTypes'
  <2>1. Known(r) \in SUBSET Files
    BY DEF SyncTypes, TypeOK, Known, Files, Lists
  <2>2. Heard
    BY <1>16, <2>1, MessagesAre, BroadcastTypes DEF BroadcastPhotos, SyncTypes, TypeOK
  <2>3. Work
    BY <1>16, DoneTypes DEF BroadcastPhotos
  <2> QED
    BY <2>2, <2>3, <1>0, <1>a, <1>d, <1>e, <1>p, <1>16 DEF BroadcastPhotos
<1>17. ASSUME NEW r \in Requests, CallRejects(r)
       PROVE  SyncTypes'
  <2>1. Work
    BY <1>17, DoneTypes DEF CallRejects
  <2> QED
    BY <2>1, <1>0, <1>a, <1>b, <1>d, <1>e, <1>17 DEF CallRejects
<1>18. CASE LockReport \/ LockSession \/ LockFails \/ OtherFinalizes \/ SealReport \/ SealSession
  <2>1. Store
    BY <1>18 DEF LockReport, LockSession, LockFails, OtherFinalizes, SealReport, SealSession,
       SyncTypes, TypeOK, Report, STATUSES
  <2>2. Ends
    BY <1>18 DEF LockReport, LockSession, LockFails, OtherFinalizes, SealReport, SealSession,
       SyncTypes, TypeOK
  <2> QED
    BY <2>1, <2>2, <1>0, <1>a, <1>b, <1>c, <1>18
       DEF LockReport, LockSession, LockFails, OtherFinalizes, SealReport, SealSession
<1>19. CASE EmitLocked
  <2>1. Heard
    BY <1>19, MessagesAre, BroadcastTypes DEF EmitLocked, SyncTypes, TypeOK
  <2>2. Ends
    BY <1>19 DEF EmitLocked, SyncTypes, TypeOK
  <2> QED
    BY <2>1, <2>2, <1>0, <1>a, <1>c, <1>e, <1>p, <1>19 DEF EmitLocked
<1>20. CASE EmitSealed
  <2>1. Heard
    BY <1>20, MessagesAre, BroadcastTypes DEF EmitSealed, SyncTypes, TypeOK
  <2>2. Ends
    BY <1>20 DEF EmitSealed, SyncTypes, TypeOK
  <2>3. Answers
    <3>1. \A r \in Report : [r EXCEPT !.status = "sealed"] \in Report
      BY DEF Report
    <3> QED
      BY <1>20, <3>1 DEF EmitSealed, SyncTypes, TypeOK
  <2> QED
    BY <2>1, <2>2, <2>3, <1>0, <1>a, <1>c, <1>e, <1>20 DEF EmitSealed
<1>21. CASE AttemptFails \/ SealFails
  <2>1. Answers
    BY <1>21, UnansweredTypes DEF AttemptFails, SealFails
  <2>2. Ends
    BY <1>21 DEF AttemptFails, SealFails, SyncTypes, TypeOK
  <2> QED
    BY <2>1, <2>2, <1>0, <1>a, <1>c, <1>e, <1>h, <1>21 DEF AttemptFails, SealFails
<1>22. ASSUME NEW p \in Phones, Finalize(p) \/ AnswerLost(p)
       PROVE  SyncTypes'
  <2>1. Answers
    BY <1>22 DEF Finalize, AnswerLost, SyncTypes, TypeOK
  <2>2. Ends
    BY <1>22 DEF Finalize, AnswerLost, SyncTypes, TypeOK, ends
  <2> QED
    BY <2>1, <2>2, <1>0, <1>a, <1>c, <1>e, <1>h, <1>22 DEF Finalize, AnswerLost
<1>23. ASSUME NEW p \in Phones, Adopt(p)
       PROVE  SyncTypes'
  <2>1. Copies
    BY <1>23 DEF Adopt, SyncTypes, TypeOK
  <2> QED
    BY <2>1, <1>0, <1>a, <1>c, <1>d, <1>e, <1>23 DEF Adopt
<1>24. CASE UNCHANGED vars
  BY <1>24, <1>0, <1>a, <1>b, <1>c, <1>d, <1>e DEF vars
<1> QED
  BY <1>1, <1>2, <1>3, <1>4, <1>5, <1>6, <1>7, <1>8, <1>9, <1>11, <1>12, <1>13, <1>14, <1>15, <1>16,
     <1>17, <1>18, <1>19, <1>20, <1>21, <1>22, <1>23, <1>24 DEF Next

-----------------------------------------------------------------------------
(* One patch at a time, and photos whose requests do not overlap.            *)
LEMMA SavingKept ==
  ASSUME SyncTypes, OneSaving,
         stored'.field = stored.field, stored'.photos = stored.photos,
         \A r \in Requests : pc'[r] = pc[r] \/ pc'[r] \notin {"save", "saved"},
         \A r \in Lists : pc'[r] \in {"save", "saved"} => copy'[r] = copy[r],
         \A d \in Deletes : pc'[d] \in {"save", "saved"} => target'[d] = target[d],
         overlapped \subseteq overlapped'
  PROVE  OneSaving'
<1>1. \A r \in Lists : pc'[r] \in {"save", "saved"} =>
        pc'[r] = pc[r] /\ copy'[r] = copy[r] /\ Subject(r)' = Subject(r) /\ Known(r)' = Known(r)
  BY DEF Lists, Requests, Subject, Known
<1>2. /\ \A q, r \in Patches : Open(q)' /\ Open(r)' => q = r
      /\ \A q \in Patches : pc'[q] = "saved" => stored'.field = q
  BY DEF OneSaving, Requests, Open
<1>3. ASSUME NEW f \in Files \ overlapped'
      PROVE  /\ \A r, w \in Lists : Open(r)' /\ Open(w)' /\ Subject(r)' = f => r = w
             /\ \A r \in Lists : /\ pc'[r] = "save" => (f \in copy'[r] <=> f \in stored'.photos)
                                 /\ pc'[r] = "saved" => (f \in Known(r)' <=> f \in stored'.photos)
  BY <1>1, <1>3 DEF OneSaving, Open
<1> QED
  BY <1>2, <1>3 DEF OneSaving

LEMMA DoneSaving ==
  ASSUME SyncTypes, NEW rs, Done(rs)
  PROVE  /\ \A r \in Requests : pc'[r] = pc[r] \/ pc'[r] \notin {"save", "saved"}
         /\ \A r \in Lists : pc'[r] \in {"save", "saved"} => copy'[r] = copy[r]
         /\ \A d \in Deletes : pc'[d] \in {"save", "saved"} => target'[d] = target[d]
  BY DEF SyncTypes, TypeOK, Done, Requests, Lists

(* What is so of the patches and of each photo, after a step of lists.       *)
LEMMA PatchesKept ==
  ASSUME SyncTypes, OneSaving, stored'.field = stored.field,
         NEW r \in Lists, NEW step, Goto(r, step)
  PROVE  /\ \A q, x \in Patches : Open(q)' /\ Open(x)' => q = x
         /\ \A q \in Patches : pc'[q] = "saved" => stored'.field = q
<1>1. \A q \in Patches : pc'[q] = pc[q]
  BY SyncAssumption DEF Goto, SyncTypes, TypeOK, Requests, Lists
<1> QED
  BY <1>1 DEF OneSaving, Open

LEMMA AdmitSaves ==
  ASSUME SyncTypes, OneSaving, NEW r \in Lists, NEW f, Admit(r), UNCHANGED stored, Overlapping(r, f),
         pc[r] = "new", Subject(r)' = f,
         \A w \in Lists : w # r => Subject(w)' = Subject(w)
  PROVE  OneSaving'
<1>1. /\ \A w \in Lists : pc'[w] = IF w = r THEN "save" ELSE pc[w]
      /\ \A w \in Lists : copy'[w] = IF w = r THEN stored.photos ELSE copy[w]
  BY DEF Admit, Goto, SyncTypes, TypeOK, Requests
<1>2. \A w \in Lists : w # r => (pc'[w] = "saved" => Known(w)' = Known(w))
  BY <1>1 DEF Subject, Known
<1> DEFINE open == {w \in Lists : Open(w)}
<1>3. overlapped' = IF open = {} THEN overlapped
                    ELSE overlapped \cup {Subject(w) : w \in open} \cup {f}
  BY DEF Overlapping, Open
<1>4. ASSUME NEW g \in Files \ overlapped'
      PROVE  /\ \A x, w \in Lists : Open(x)' /\ Open(w)' /\ Subject(x)' = g => x = w
             /\ \A x \in Lists : /\ pc'[x] = "save" => (g \in copy'[x] <=> g \in stored'.photos)
                                 /\ pc'[x] = "saved" => (g \in Known(x)' <=> g \in stored'.photos)
  <2>1. g \in Files \ overlapped
    BY <1>3, <1>4
  <2>2. CASE open = {}
    <3>1. \A w \in Lists : Open(w)' => w = r
      BY <1>1, <2>2 DEF Open
    <3> QED
      BY <1>1, <3>1 DEF Open
  <2>3. CASE open # {}
    <3>1. \A w \in Lists : Open(w)' => Subject(w)' # g
      <4>1. ASSUME NEW w \in Lists, Open(w)', w # r
            PROVE  Subject(w)' # g
        <5>1. w \in open
          BY <1>1, <4>1 DEF Open
        <5>2. Subject(w) \in overlapped'
          BY <1>3, <2>3, <5>1
        <5> QED
          BY <1>4, <4>1, <5>2
      <4>2. f # g
        BY <1>3, <1>4, <2>3
      <4> QED
        BY <4>1, <4>2
    <3> QED
      BY <1>1, <1>2, <2>1, <3>1 DEF OneSaving, Open
  <2> QED
    BY <2>2, <2>3
<1>5. /\ \A q, x \in Patches : Open(q)' /\ Open(x)' => q = x
      /\ \A q \in Patches : pc'[q] = "saved" => stored'.field = q
  BY PatchesKept DEF Admit
<1> QED
  BY <1>4, <1>5 DEF OneSaving

(* A list request saves: only its own photo comes or goes.                   *)
LEMMA ListSaves ==
  ASSUME SyncTypes, OneSaving, NEW r \in Lists, Goto(r, "saved"), UNCHANGED <<copy, target, overlapped>>,
         pc[r] = "save", stored'.field = stored.field,
         Subject(r) \in stored'.photos <=> Subject(r) \in Known(r),
         \A f \in Files \ overlapped : f # Subject(r) => (f \in stored'.photos <=> f \in stored.photos)
  PROVE  OneSaving'
<1>1. /\ \A w \in Lists : pc'[w] = IF w = r THEN "saved" ELSE pc[w]
      /\ \A w \in Lists : Subject(w)' = Subject(w) /\ Known(w)' = Known(w) /\ copy'[w] = copy[w]
  BY DEF Goto, SyncTypes, TypeOK, Requests, Subject, Known
<1>2. \A f \in Files : f # Subject(r) => (f \in Known(r) <=> f \in copy[r])
  BY DEF Known, Subject
<1>3. ASSUME NEW f \in Files \ overlapped
      PROVE  /\ \A x, w \in Lists : Open(x)' /\ Open(w)' /\ Subject(x)' = f => x = w
             /\ \A x \in Lists : /\ pc'[x] = "save" => (f \in copy'[x] <=> f \in stored'.photos)
                                 /\ pc'[x] = "saved" => (f \in Known(x)' <=> f \in stored'.photos)
  <2>1. \A x, w \in Lists : Open(x) /\ Open(w) /\ Subject(x) = f => x = w
    BY DEF OneSaving
  <2>2. \A x \in Lists : /\ pc[x] = "save" => (f \in copy[x] <=> f \in stored.photos)
                         /\ pc[x] = "saved" => (f \in Known(x) <=> f \in stored.photos)
    BY DEF OneSaving
  <2>3. \A x \in Lists : Open(x)' <=> Open(x)
    BY <1>1 DEF Open
  <2>4. CASE Subject(r) = f
    <3>1. \A x \in Lists : Open(x) => x = r
      BY <2>1, <2>4 DEF Open
    <3> QED
      BY <1>1, <2>3, <2>4, <3>1 DEF Open
  <2>5. CASE Subject(r) # f
    BY <1>1, <1>2, <2>1, <2>2, <2>3, <2>5
  <2> QED
    BY <2>4, <2>5
<1>4. /\ \A q, x \in Patches : Open(q)' /\ Open(x)' => q = x
      /\ \A q \in Patches : pc'[q] = "saved" => stored'.field = q
  BY PatchesKept
<1> QED
  BY <1>3, <1>4 DEF OneSaving

LEMMA SavingStep ==
  ASSUME SyncTypes, OneSaving, [Next]_vars
  PROVE  OneSaving'
<1>1. ASSUME UNCHANGED <<requests, overlapped>>,
             stored' = stored \/ LockReport \/ SealReport
      PROVE  OneSaving'
  <2>1. stored'.field = stored.field /\ stored'.photos = stored.photos
    BY <1>1 DEF SyncTypes, TypeOK, Report, LockReport, SealReport
  <2> QED
    BY <1>1, <2>1, SavingKept DEF requests
<1>2. ASSUME NEW rs, Done(rs), UNCHANGED <<stored, overlapped>>
      PROVE  OneSaving'
  BY <1>2, DoneSaving, SavingKept
<1>3. ASSUME NEW q \in Patches, NEW step \in {"sent", "load"}, Goto(q, step),
             UNCHANGED <<stored, copy, target, overlapped>>
      PROVE  OneSaving'
  <2>1. \A r \in Requests : pc'[r] = pc[r] \/ pc'[r] \notin {"save", "saved"}
    BY <1>3 DEF Goto, SyncTypes, TypeOK
  <2> QED
    BY <1>3, <2>1, SavingKept
<1>l. ASSUME NEW q \in Patches, NEW step, Goto(q, step), UNCHANGED <<copy, target, overlapped>>,
             stored'.photos = stored.photos
      PROVE  \A f \in Files \ overlapped' :
               /\ \A r, w \in Lists : Open(r)' /\ Open(w)' /\ Subject(r)' = f => r = w
               /\ \A r \in Lists : /\ pc'[r] = "save" => (f \in copy'[r] <=> f \in stored'.photos)
                                   /\ pc'[r] = "saved" => (f \in Known(r)' <=> f \in stored'.photos)
  <2>1. \A r \in Lists : /\ pc'[r] = pc[r] /\ copy'[r] = copy[r]
                         /\ Subject(r)' = Subject(r) /\ Known(r)' = Known(r)
    BY <1>l, SyncAssumption DEF Goto, SyncTypes, TypeOK, Requests, Lists, Subject, Known
  <2> QED
    BY <1>l, <2>1 DEF OneSaving, Open
<1>4. ASSUME NEW q \in Patches, LoadReport(q)
      PROVE  OneSaving'
  <2>1. CASE Done({q})
    BY <1>2, <1>4, <2>1 DEF LoadReport, ghosts
  <2>2. CASE Goto(q, "save") /\ UNCHANGED <<by, copy, target, current>>
    <3>1. \A r \in Patches : pc'[r] = IF r = q THEN "save" ELSE pc[r]
      BY <2>2 DEF Goto, SyncTypes, TypeOK, Requests
    <3>2. /\ \A r, x \in Patches : Open(r)' /\ Open(x)' => r = x
          /\ \A r \in Patches : pc'[r] = "saved" => stored'.field = r
      BY <1>4, <3>1 DEF LoadReport, OneSaving, Open
    <3> QED
      BY <1>4, <1>l, <2>2, <3>2 DEF LoadReport, OneSaving, ghosts
  <2> QED
    BY <1>4, <2>1, <2>2 DEF LoadReport
<1>5. ASSUME NEW q \in Patches, SavePatch(q)
      PROVE  OneSaving'
  <2>1. \A r \in Patches : pc'[r] = IF r = q THEN "saved" ELSE pc[r]
    BY <1>5 DEF SavePatch, Goto, SyncTypes, TypeOK, Requests
  <2>2. stored'.field = q /\ stored'.photos = stored.photos
    BY <1>5 DEF SavePatch, SyncTypes, TypeOK, Report
  <2>3. \A r \in Patches : Open(r) => r = q
    BY <1>5 DEF OneSaving, SavePatch, Open
  <2>4. /\ \A r, x \in Patches : Open(r)' /\ Open(x)' => r = x
        /\ \A r \in Patches : pc'[r] = "saved" => stored'.field = r
    BY <2>1, <2>2, <2>3 DEF Open
  <2> QED
    BY <1>5, <1>l, <2>2, <2>4 DEF SavePatch, OneSaving, ghosts
<1>6. ASSUME NEW u \in Photos, GuardPhoto(u)
      PROVE  OneSaving'
  <2>1. CASE Locked
    BY <1>2, <1>6, <2>1 DEF GuardPhoto
  <2>2. CASE ~Locked
    BY <1>6, <2>2, AdmitSaves DEF GuardPhoto, New, Subject, Lists
  <2> QED
    BY <2>1, <2>2
<1>7. ASSUME NEW d \in Deletes, GuardDelete(d)
      PROVE  OneSaving'
  <2>1. CASE Locked
    BY <1>2, <1>7, <2>1 DEF GuardDelete
  <2>2. CASE ~Locked
    <3>1. PICK f \in stored.photos : /\ Admit(d) /\ target' = [target EXCEPT ![d] = f]
                                     /\ Overlapping(d, f)
      BY <1>7, <2>2 DEF GuardDelete
    <3>2. d \notin Photos /\ target'[d] = f /\ \A w \in Deletes : w # d => target'[w] = target[w]
      BY <3>1, SyncAssumption DEF SyncTypes, TypeOK
    <3>3. Subject(d)' = f /\ \A w \in Lists : w # d => Subject(w)' = Subject(w)
      BY <3>2 DEF Subject, Lists
    <3> QED
      BY <1>7, <3>1, <3>3, AdmitSaves DEF GuardDelete, New, Lists
  <2> QED
    BY <2>1, <2>2
<1>8. ASSUME NEW u \in Photos, SavePhoto(u)
      PROVE  OneSaving'
  <2>1. stored'.field = stored.field /\ stored'.photos = stored.photos \cup {u}
    BY <1>8 DEF SavePhoto, SyncTypes, TypeOK, Report
  <2>2. Subject(u) = u /\ u \in Known(u)
    BY DEF Subject, Known
  <2> QED
    BY <1>8, <2>1, <2>2, ListSaves DEF SavePhoto, ghosts, Lists
<1>9. ASSUME NEW d \in Deletes, SaveDelete(d)
      PROVE  OneSaving'
  <2>1. CASE d \in current
    <3>1. stored'.field = stored.field /\ stored'.photos = copy[d] \ {target[d]}
      BY <1>9, <2>1 DEF SaveDelete, SyncTypes, TypeOK, Report
    <3>2. Subject(d) = target[d] /\ Known(d) = copy[d] \ {target[d]}
      BY SyncAssumption DEF Subject, Known
    <3>3. \A f \in Files \ overlapped : f \in copy[d] <=> f \in stored.photos
      BY <1>9 DEF SaveDelete, OneSaving, Lists
    <3> QED
      BY <1>9, <2>1, <3>1, <3>2, <3>3, ListSaves DEF SaveDelete, ghosts, Lists
  <2>2. CASE d \notin current
    BY <1>2, <1>9, <2>2 DEF SaveDelete, ghosts
  <2> QED
    BY <2>1, <2>2
<1>10. ASSUME NEW r \in Requests, CallRejects(r)
       PROVE  OneSaving'
  BY <1>2, <1>10 DEF CallRejects, ghosts
<1>11. ASSUME NEW p \in Phones, \/ Connect(p) \/ LoadSession(p) \/ EnterRoom(p) \/ ReadReport(p)
                                \/ EmitState(p) \/ JoinFails(p) \/ Deliver(p)
                                \/ Finalize(p) \/ Adopt(p) \/ AnswerLost(p)
       PROVE  OneSaving'
  BY <1>1, <1>11 DEF Connect, LoadSession, EnterRoom, ReadReport, EmitState, JoinFails, Deliver,
     Finalize, Adopt, AnswerLost, ghosts
<1>12. ASSUME NEW p \in Phones, Drop(p)
       PROVE  OneSaving'
  BY <1>2, <1>12 DEF Drop, ghosts
<1>13. ASSUME NEW p \in Phones, NEW q \in Patches, SendPatch(p, q)
       PROVE  OneSaving'
  BY <1>3, <1>13 DEF SendPatch, ghosts
<1>14. ASSUME NEW q \in Patches, OtherPatch(q) \/ ReceivePatch(q) \/ BroadcastPatch(q)
       PROVE  OneSaving'
  BY <1>2, <1>3, <1>14 DEF OtherPatch, ReceivePatch, BroadcastPatch, ghosts
<1>15. ASSUME NEW r \in Lists, BroadcastPhotos(r)
       PROVE  OneSaving'
  BY <1>2, <1>15 DEF BroadcastPhotos
<1>16. CASE \/ LockReport \/ LockSession \/ LockFails \/ EmitLocked \/ OtherFinalizes \/ AttemptFails
            \/ SealReport \/ SealSession \/ SealFails \/ EmitSealed \/ UNCHANGED vars
  BY <1>1, <1>16 DEF LockReport, LockSession, LockFails, EmitLocked, OtherFinalizes, AttemptFails,
     SealReport, SealSession, SealFails, EmitSealed, vars, ghosts
<1>17. CASE Restart
  BY <1>2, <1>17 DEF Restart, ghosts
<1> QED
  BY <1>4, <1>5, <1>6, <1>7, <1>8, <1>9, <1>10, <1>11, <1>12, <1>13, <1>14, <1>15, <1>16, <1>17 DEF Next

-----------------------------------------------------------------------------
(* No phone is ahead of what is stored, and neither is anything on its way. *)
Shut == session \in LOCKED_STATUSES

TrueReport(r) == r.status = "sealed" => stored.status = "sealed"

TrueMessage(m) ==
  /\ m.type = "state" => TrueReport(m.report) /\ (m.session \in LOCKED_STATUSES => Shut)
  /\ m.type = "locked" => Shut
  /\ m.type = "sealed" => stored.status = "sealed"

Truthful(p) ==
  /\ sock[p] \in {"found", "entered", "read"} /\ found[p] \in LOCKED_STATUSES => Shut
  /\ sock[p] = "read" => TrueReport(snap[p])
  /\ \A i \in 1..Len(inbox[p]) : TrueMessage(inbox[p][i])
  /\ isLocked[p] => Shut
  /\ shown[p] \in Report => TrueReport(shown[p])

(* A session that is locked has a report that is.                           *)
LEMMA ShutIsLocked ==
  ASSUME SyncTypes, LockOrder, Shut
  PROVE  Locked
  BY DEF SyncTypes, TypeOK, Report, LockOrder, Shut, Locked, LOCKED_STATUSES

(* A phone that asks for the seal knows of a locked session.                 *)
LEMMA AskerKnows ==
  ASSUME SyncTypes, LockOrder, NEW p \in Phones, Truthful(p), Finalize(p)
  PROVE  Shut
  BY DEF Finalize, Screen, Truthful, Shut

(* What is stored only grows. *)
LEMMA StoredGrows ==
  ASSUME SyncTypes, LockOrder, [Next]_vars
  PROVE  /\ Locked => Locked'
         /\ stored.status = "sealed" => stored'.status = "sealed"
         /\ Shut => Shut'
<1>1. stored \in Report
  BY DEF SyncTypes, TypeOK
<1>2. CASE UNCHANGED <<stored, session>>
  BY <1>2 DEF Locked, Shut
<1>3. ASSUME NEW r \in Requests, SavePatch(r) \/ SavePhoto(r) \/ SaveDelete(r)
      PROVE  stored'.status = stored.status /\ UNCHANGED session
  BY <1>1, <1>3 DEF SavePatch, SavePhoto, SaveDelete, Report
<1>4. CASE LockReport
  <2>1. stored'.status = "signing" /\ stored.status = "waiting" /\ UNCHANGED session
    BY <1>1, <1>4 DEF LockReport, LockOrder, Report
  <2> QED
    BY <2>1 DEF Locked, LOCKED_STATUSES, Shut
<1>5. CASE SealReport
  <2>1. stored'.status = "sealed" /\ UNCHANGED session
    BY <1>1, <1>5 DEF SealReport, Report
  <2> QED
    BY <2>1 DEF Locked, LOCKED_STATUSES, Shut
<1>6. CASE LockSession \/ SealSession
  BY <1>6 DEF LockSession, SealSession, Locked, Shut, LOCKED_STATUSES
<1> QED
  BY <1>2, <1>3, <1>4, <1>5, <1>6 DEF Locked, Shut, Next, Requests, Lists, Connect, LoadSession, EnterRoom,
     ReadReport, EmitState, JoinFails, Drop, Deliver, SendPatch, OtherPatch, ReceivePatch, LoadReport,
     BroadcastPatch, GuardPhoto, GuardDelete, BroadcastPhotos, CallRejects, LockFails, EmitLocked,
     Finalize, OtherFinalizes, AttemptFails, SealFails, EmitSealed, Adopt, AnswerLost, Restart, vars

LEMMA OrderStep ==
  ASSUME SyncTypes, LockOrder, \A p \in Phones : Truthful(p), [Next]_vars
  PROVE  LockOrder'
<1> DEFINE Answers == \A p \in Phones : post[p] \in Report /\ post[p].status = "sealed" => stored.status = "sealed"
<1>1. ASSUME stored'.status = stored.status, UNCHANGED <<session, ends>>, UNCHANGED post
      PROVE  LockOrder'
  BY <1>1 DEF LockOrder, ends
<1>2. CASE UNCHANGED <<stored, session, ends, post>>
  BY <1>1, <1>2
<1>3. ASSUME NEW r \in Requests, SavePatch(r) \/ SavePhoto(r) \/ SaveDelete(r)
      PROVE  LockOrder'
  <2>1. stored'.status = stored.status
    BY <1>3 DEF SavePatch, SavePhoto, SaveDelete, SyncTypes, TypeOK, Report
  <2> QED
    BY <1>1, <1>3, <2>1 DEF SavePatch, SavePhoto, SaveDelete, phoneVars
<1>4. CASE LockReport \/ SealReport
  <2>1. /\ LockReport => stored'.status = "signing"
        /\ SealReport => stored'.status = "sealed"
    BY DEF LockReport, SealReport, SyncTypes, TypeOK, Report
  <2>2. CASE LockReport
    BY <2>1, <2>2 DEF LockOrder, LockReport, phoneVars
  <2>3. CASE SealReport
    BY <2>1, <2>3 DEF LockOrder, SealReport, phoneVars
  <2> QED
    BY <1>4, <2>2, <2>3
<1>5. CASE LockSession \/ LockFails \/ EmitLocked \/ OtherFinalizes \/ SealSession
  BY <1>5 DEF LockOrder, LockSession, LockFails, EmitLocked, OtherFinalizes, SealSession,
     phoneVars, LOCKED_STATUSES
<1>6. ASSUME UNCHANGED <<stored, session>>,
             \A p \in Phones : post'[p] = post[p] \/ post'[p] \notin Report \/ stored.status = "sealed"
      PROVE  Answers'
  BY <1>6 DEF LockOrder
<1>7. CASE AttemptFails \/ SealFails \/ Restart
  <2>1. Answers'
    BY <1>6, <1>7, NoneIsNoReport DEF AttemptFails, SealFails, Restart, Unanswered, SyncTypes, TypeOK
  <2>2. CASE AttemptFails \/ SealFails
    BY <2>1, <2>2 DEF AttemptFails, SealFails, LockOrder
  <2>3. CASE Restart
    BY <2>1, <2>3 DEF Restart, LockOrder, SyncTypes, TypeOK
  <2> QED
    BY <1>7, <2>2, <2>3
<1>8. CASE EmitSealed
  <2>1. stored.status = "sealed" /\ UNCHANGED <<stored, session, lock>>
    BY <1>8 DEF EmitSealed, LockOrder
  <2> QED
    BY <1>8, <2>1 DEF EmitSealed, LockOrder
<1>9. ASSUME NEW p \in Phones, Finalize(p)
      PROVE  LockOrder'
  <2>1. Shut
    BY <1>9, AskerKnows
  <2>2. Answers'
    <3>1. ASSUME NEW r \in Phones, r # p
          PROVE  post'[r] = post[r]
      BY <1>9, <3>1 DEF Finalize, SyncTypes, TypeOK
    <3>2. post'[p] = stored /\ UNCHANGED <<stored, session>>
      BY <1>9 DEF Finalize, SyncTypes, TypeOK
    <3> QED
      BY <3>1, <3>2 DEF LockOrder
  <2> QED
    BY <1>9, <2>1, <2>2 DEF Finalize, LockOrder, Shut
<1>10. ASSUME NEW p \in Phones, Adopt(p) \/ AnswerLost(p) \/ Deliver(p)
       PROVE  LockOrder'
  <2>1. \E x \in {None, post[p]} : post' = [post EXCEPT ![p] = x]
    BY <1>10 DEF Adopt, AnswerLost, Deliver
  <2>2. \A r \in Phones : post'[r] = post[r] \/ post'[r] = None
    BY <2>1 DEF SyncTypes, TypeOK
  <2>3. UNCHANGED <<stored, session, ends>>
    BY <1>10 DEF Adopt, AnswerLost, Deliver
  <2>4. Answers'
    BY <1>6, <2>2, <2>3, NoneIsNoReport
  <2> QED
    BY <2>3, <2>4 DEF LockOrder, ends
<1> QED
  BY <1>2, <1>3, <1>4, <1>5, <1>7, <1>8, <1>9, <1>10 DEF Next, Requests, Lists, Connect, LoadSession, EnterRoom,
     ReadReport, EmitState, JoinFails, Drop, SendPatch, OtherPatch, ReceivePatch, LoadReport,
     BroadcastPatch, GuardPhoto, GuardDelete, BroadcastPhotos, CallRejects, phoneVars, vars


-----------------------------------------------------------------------------
(* Behind the news that the report is sealed comes no snapshot from before. *)
Sealing(m) == m.type = "sealed" \/ (m.type = "state" /\ m.report.status = "sealed")

Complete(p) == shown[p] \in Report /\ shown[p].status = "sealed"

Excepted == overtaken \cup ahead

Rising(p) ==
  /\ sock[p] = "off" => inbox[p] = <<>>
  /\ p \notin Excepted =>
       /\ \A i, j \in 1..Len(inbox[p]) :
            i < j /\ Sealing(inbox[p][i]) /\ inbox[p][j].type = "state" => Sealing(inbox[p][j])
       /\ \A j \in 1..Len(inbox[p]) : Complete(p) /\ inbox[p][j].type = "state" => Sealing(inbox[p][j])
       /\ sock[p] = "read" /\ (Complete(p) \/ \E i \in 1..Len(inbox[p]) : Sealing(inbox[p][i])) =>
            snap[p].status = "sealed"

Untouched(p) ==
  /\ sock'[p] = sock[p] /\ found'[p] = found[p] /\ snap'[p] = snap[p]
  /\ inbox'[p] = inbox[p] /\ shown'[p] = shown[p] /\ isLocked'[p] = isLocked[p]
  /\ p \in overtaken' <=> p \in overtaken
  /\ p \in ahead' <=> p \in ahead

Joining(p) == \/ Connect(p) \/ LoadSession(p) \/ EnterRoom(p)
              \/ ReadReport(p) \/ EmitState(p) \/ JoinFails(p)

(* What a step does to one phone: nothing, its own, a broadcast or a cut.   *)
LEMMA Moves ==
  ASSUME SyncTypes, LockOrder, [Next]_vars, NEW p \in Phones
  PROVE  \/ Untouched(p)
         \/ Joining(p)
         \/ Deliver(p)
         \/ Adopt(p)
         \/ \E m \in Message : Broadcast(m) /\ UNCHANGED <<joins, ahead>> /\ TrueMessage(m)' /\ m.type # "state"
         \/ \E ps : Cut(ps) /\ p \in ps /\ UNCHANGED <<overtaken, ahead>>
<1>1. ASSUME UNCHANGED <<joins, inbox, shown, isLocked, overtaken, ahead>>
      PROVE  Untouched(p)
  BY <1>1 DEF Untouched, joins
<1>2. ASSUME NEW r \in Phones, r # p, Joining(r) \/ Deliver(r) \/ Adopt(r)
      PROVE  Untouched(p)
  <2>1. CASE Connect(r)
    BY <1>2, <2>1 DEF Connect, Untouched, phoneVars, SyncTypes, TypeOK
  <2>2. CASE LoadSession(r) \/ EnterRoom(r)
    BY <1>2, <2>2 DEF LoadSession, EnterRoom, Untouched, phoneVars, ghosts, adopted, SyncTypes, TypeOK
  <2>3. CASE ReadReport(r) \/ JoinFails(r)
    BY <1>2, <2>3 DEF ReadReport, JoinFails, Untouched, phoneVars, ghosts, adopted, SyncTypes, TypeOK
  <2>4. CASE EmitState(r)
    BY <1>2, <2>4 DEF EmitState, Untouched, ghosts, adopted, SyncTypes, TypeOK
  <2>5. CASE Deliver(r)
    BY <1>2, <2>5 DEF Deliver, OnState, OnPatched, OnLocked, OnSealed, Untouched, joins, ghosts, adopted,
       SyncTypes, TypeOK
  <2>6. CASE Adopt(r)
    BY <1>2, <2>6 DEF Adopt, Untouched, joins, SyncTypes, TypeOK
  <2> QED
    BY <1>2, <2>1, <2>2, <2>3, <2>4, <2>5, <2>6 DEF Joining
<1>3. ASSUME NEW ps, Cut(ps), UNCHANGED <<overtaken, ahead>>
      PROVE  Untouched(p) \/ p \in ps
  BY <1>3 DEF Cut, Untouched, SyncTypes, TypeOK
<1>4. ASSUME NEW r \in Phones, Drop(r)
      PROVE  Untouched(p) \/ \E ps : Cut(ps) /\ p \in ps /\ UNCHANGED <<overtaken, ahead>>
  BY <1>3, <1>4 DEF Drop, ghosts, adopted
<1>5. CASE Restart
  BY <1>3, <1>5 DEF Restart, ghosts, adopted
<1> DEFINE Told == \E m \in Message : /\ Broadcast(m) /\ UNCHANGED <<joins, ahead>>
                                       /\ TrueMessage(m)' /\ m.type # "state"
<1>6. ASSUME NEW q \in Patches, BroadcastPatch(q)
      PROVE  Told
  BY <1>6, MessagesAre DEF BroadcastPatch, TrueMessage, adopted
<1>7. ASSUME NEW r \in Lists, BroadcastPhotos(r)
      PROVE  Told
  <2>1. Known(r) \in SUBSET Files
    BY DEF Known, SyncTypes, TypeOK, Files
  <2> QED
    BY <1>7, <2>1, MessagesAre DEF BroadcastPhotos, TrueMessage, adopted
<1>8. CASE EmitLocked
  <2>1. Shut'
    BY <1>8 DEF EmitLocked, LockOrder, Shut
  <2> QED
    BY <1>8, <2>1, MessagesAre DEF EmitLocked, TrueMessage, adopted
<1>9. CASE EmitSealed
  <2>1. stored'.status = "sealed"
    BY <1>9 DEF EmitSealed, LockOrder
  <2> QED
    BY <1>9, <2>1, MessagesAre DEF EmitSealed, TrueMessage, adopted
<1>10. CASE LockReport \/ LockSession \/ LockFails \/ SealReport \/ SealSession \/ UNCHANGED vars
  BY <1>1, <1>10 DEF LockReport, LockSession, LockFails, SealReport, SealSession, ghosts, adopted, phoneVars, vars
<1>11. CASE OtherFinalizes \/ AttemptFails \/ SealFails
  BY <1>1, <1>11 DEF OtherFinalizes, AttemptFails, SealFails, ghosts, adopted, phoneVars
<1>12. ASSUME NEW r \in Phones, Finalize(r) \/ AnswerLost(r)
       PROVE  Untouched(p)
  BY <1>1, <1>12 DEF Finalize, AnswerLost, ghosts, adopted
<1>13. ASSUME NEW r \in Requests,
              \/ CallRejects(r)
              \/ r \in Patches /\ (OtherPatch(r) \/ ReceivePatch(r) \/ LoadReport(r) \/ SavePatch(r))
       PROVE  Untouched(p)
  BY <1>1, <1>13 DEF CallRejects, OtherPatch, ReceivePatch, LoadReport, SavePatch, ghosts, adopted, phoneVars
<1>14. ASSUME NEW r \in Lists,
              \/ r \in Photos /\ (GuardPhoto(r) \/ SavePhoto(r))
              \/ r \in Deletes /\ (GuardDelete(r) \/ SaveDelete(r))
       PROVE  Untouched(p)
  BY <1>1, <1>14 DEF GuardPhoto, SavePhoto, GuardDelete, SaveDelete, ghosts, adopted, phoneVars
<1>15. ASSUME NEW r \in Phones, NEW q \in Patches, SendPatch(r, q)
       PROVE  Untouched(p)
  BY <1>1, <1>15 DEF SendPatch, ghosts, adopted, phoneVars
<1> QED
  BY <1>2, <1>4, <1>5, <1>6, <1>7, <1>8, <1>9, <1>10, <1>11, <1>12, <1>13, <1>14, <1>15
  DEF Next, Joining, Requests, Lists

(* What the message does to the copy that takes it. *)
Front(p) == Head(inbox[p])

LEMMA DeliverShows ==
  ASSUME SyncTypes, NEW p \in Phones, Deliver(p)
  PROVE  /\ Front(p) \in Message /\ inbox[p] \in Seq(Message) /\ inbox[p] # <<>>
         /\ Front(p) = inbox[p][1] /\ 1 \in 1..Len(inbox[p])
         /\ \A i \in 1..Len(inbox'[p]) : i + 1 \in 2..Len(inbox[p]) /\ inbox'[p][i] = inbox[p][i + 1]
         /\ \/ Front(p).type = "state" /\ shown'[p] = Front(p).report
            \/ Front(p).type = "field" /\ shown[p] \in Report /\ shown'[p] = [shown[p] EXCEPT !.field = Front(p).value]
            \/ Front(p).type = "photos" /\ shown[p] \in Report /\ shown'[p] = [shown[p] EXCEPT !.photos = Front(p).value]
            \/ Front(p).type = "sealed" /\ shown[p] \in Report /\ shown'[p] = [shown[p] EXCEPT !.status = "sealed"]
            \/ Front(p).type = "locked" /\ shown'[p] = shown[p]
            \/ shown[p] = None /\ shown'[p] = None
         /\ isLocked'[p] => \/ isLocked[p] \/ Front(p).type = "locked"
                            \/ Front(p).type = "state" /\ Front(p).session \in LOCKED_STATUSES
<1> DEFINE m == Head(inbox[p])
<1>1. /\ inbox[p] \in Seq(Message) /\ inbox[p] # <<>> /\ inbox'[p] = Tail(inbox[p])
  BY DEF SyncTypes, Deliver
<1>2. /\ m \in Message /\ m = inbox[p][1] /\ 1 \in 1..Len(inbox[p])
      /\ \A i \in 1..Len(inbox'[p]) : i + 1 \in 2..Len(inbox[p]) /\ inbox'[p][i] = inbox[p][i + 1]
  BY <1>1
<1>3. /\ shown \in [Phones -> Report \cup {None}] /\ isLocked \in [Phones -> BOOLEAN]
      /\ m.type \in {"state", "field", "photos", "locked", "sealed"}
  BY <1>2, MessageTypes DEF SyncTypes, TypeOK
<1>4. CASE m.type = "state" /\ OnState(p, m)
  BY <1>1, <1>2, <1>3, <1>4 DEF OnState, Front
<1>5. CASE m.type \in {"field", "photos"} /\ OnPatched(p, m)
  BY <1>1, <1>2, <1>3, <1>5 DEF OnPatched, Front
<1>6. CASE m.type = "locked" /\ OnLocked(p)
  BY <1>1, <1>2, <1>3, <1>6 DEF OnLocked, Front
<1>7. CASE m.type = "sealed" /\ OnSealed(p)
  BY <1>1, <1>2, <1>3, <1>7 DEF OnSealed, Front
<1> QED
  BY <1>4, <1>5, <1>6, <1>7 DEF Deliver, Front

(* An answer that is adopted is a report, and true. *)
LEMMA AdoptShows ==
  ASSUME SyncTypes, LockOrder, NEW p \in Phones, Adopt(p)
  PROVE  /\ shown'[p] = post[p] /\ post[p] \in Report /\ post[p].status = "sealed"
         /\ stored.status = "sealed"
         /\ UNCHANGED <<stored, session, joins, inbox, isLocked, requests, ends, overtaken, missed, overlapped>>
<1>1. /\ shown'[p] = post[p] /\ post[p] \in Report /\ post[p].status = "sealed"
      /\ UNCHANGED <<stored, session, joins, inbox, isLocked, requests, ends, overtaken, missed, overlapped>>
  BY DEF Adopt, SyncTypes, TypeOK
<1> QED
  BY <1>1 DEF LockOrder

LEMMA TruthfulStep ==
  ASSUME SyncTypes, LockOrder, [Next]_vars, NEW p \in Phones, Truthful(p)
  PROVE  Truthful(p)'
<1> DEFINE TrueReportThen(r) == r.status = "sealed" => stored'.status = "sealed"
           TrueThen(m) == /\ m.type = "state" => /\ TrueReportThen(m.report)
                                                 /\ m.session \in LOCKED_STATUSES => Shut'
                          /\ m.type = "locked" => Shut'
                          /\ m.type = "sealed" => stored'.status = "sealed"
<1>0. ASSUME /\ sock'[p] \in {"found", "entered", "read"} /\ found'[p] \in LOCKED_STATUSES => Shut'
             /\ sock'[p] = "read" => TrueReportThen(snap'[p])
             /\ \A i \in 1..Len(inbox'[p]) : TrueThen(inbox'[p][i])
             /\ isLocked'[p] => Shut'
             /\ shown'[p] \in Report => TrueReportThen(shown'[p])
      PROVE  Truthful(p)'
  BY <1>0 DEF Truthful, TrueMessage, TrueReport
<1>1. /\ Shut => Shut'
      /\ stored.status = "sealed" => stored'.status = "sealed"
  BY StoredGrows
<1>2. /\ \A r : TrueReport(r) => TrueReportThen(r)
      /\ \A m : TrueMessage(m) => TrueThen(m)
  BY <1>1 DEF TrueReport, TrueMessage
<1>3. /\ sock[p] \in {"found", "entered", "read"} /\ found[p] \in LOCKED_STATUSES => Shut'
      /\ sock[p] = "read" => TrueReportThen(snap[p])
      /\ \A i \in 1..Len(inbox[p]) : TrueThen(inbox[p][i])
      /\ isLocked[p] => Shut'
      /\ shown[p] \in Report => TrueReportThen(shown[p])
  BY <1>1, <1>2 DEF Truthful
<1> HIDE DEF TrueReportThen, TrueThen
<1>4. CASE Untouched(p)
  BY <1>0, <1>3, <1>4 DEF Untouched
<1>5. CASE Joining(p)
  <2>1. CASE Connect(p) \/ JoinFails(p)
    <3>1. sock'[p] \in {"open", "outside", "deaf"} /\ UNCHANGED <<inbox, shown, isLocked>>
      BY <2>1 DEF Connect, JoinFails, phoneVars, SyncTypes, TypeOK
    <3> QED
      BY <1>0, <1>3, <3>1
  <2>2. CASE LoadSession(p)
    <3>1. sock'[p] = "found" /\ found'[p] = session /\ UNCHANGED <<stored, inbox, shown, isLocked>>
      BY <2>2 DEF LoadSession, phoneVars, SyncTypes, TypeOK
    <3>2. session \in LOCKED_STATUSES => Shut'
      BY <1>1 DEF Shut
    <3> QED
      BY <1>0, <1>3, <3>1, <3>2
  <2>3. CASE EnterRoom(p)
    <3>1. sock[p] = "found" /\ sock'[p] = "entered" /\ UNCHANGED <<found, inbox, shown, isLocked>>
      BY <2>3 DEF EnterRoom, phoneVars, SyncTypes, TypeOK
    <3> QED
      BY <1>0, <1>3, <3>1
  <2>4. CASE ReadReport(p)
    <3>1. /\ sock[p] = "entered" /\ sock'[p] = "read" /\ snap'[p] = stored
          /\ UNCHANGED <<stored, found, inbox, shown, isLocked>>
      BY <2>4 DEF ReadReport, phoneVars, SyncTypes, TypeOK
    <3>2. TrueReportThen(stored)
      BY <1>2 DEF TrueReport
    <3> QED
      BY <1>0, <1>3, <3>1, <3>2
  <2>5. CASE EmitState(p)
    <3> DEFINE m == [type |-> "state", report |-> snap[p], session |-> found[p]]
    <3>1. /\ sock[p] = "read" /\ sock'[p] = "joined" /\ UNCHANGED <<shown, isLocked>>
          /\ inbox'[p] = Append(inbox[p], m) /\ inbox[p] \in Seq(Message)
      BY <2>5 DEF EmitState, SyncTypes, TypeOK
    <3>2. TrueThen(m)
      BY <1>3, <3>1 DEF TrueThen
    <3>3. \A i \in 1..Len(inbox'[p]) : (i \in 1..Len(inbox[p]) /\ inbox'[p][i] = inbox[p][i]) \/ inbox'[p][i] = m
      BY <3>1
    <3> HIDE DEF m
    <3> QED
      BY <1>0, <1>3, <3>1, <3>2, <3>3
  <2> QED
    BY <1>5, <2>1, <2>2, <2>3, <2>4, <2>5 DEF Joining
<1>6. CASE Deliver(p)
  <2> DEFINE m == Front(p)
  <2>1. UNCHANGED <<stored, sock, found, snap>>
    BY <1>6 DEF Deliver, joins
  <2>2. TrueMessage(m)
    <3>1. m = inbox[p][1] /\ 1 \in 1..Len(inbox[p])
      BY <1>6, DeliverShows
    <3>2. TrueMessage(inbox[p][1])
      BY <3>1 DEF Truthful
    <3> QED
      BY <3>1, <3>2
  <2>3. ASSUME NEW i \in 1..Len(inbox'[p])
        PROVE  TrueThen(inbox'[p][i])
    <3>1. i + 1 \in 2..Len(inbox[p]) /\ inbox'[p][i] = inbox[p][i + 1]
      BY <1>6, DeliverShows
    <3>2. i + 1 \in 1..Len(inbox[p])
      BY <3>1
    <3> QED
      BY <1>3, <3>1, <3>2
  <2>4. isLocked'[p] => Shut'
    BY <1>1, <1>6, <2>2, DeliverShows DEF Truthful, TrueMessage
  <2>5. shown'[p] \in Report => TrueReport(shown'[p])
    <3>1. shown[p] \in Report => TrueReport(shown[p])
      BY DEF Truthful
    <3>2. CASE m.type = "state" /\ shown'[p] = m.report
      BY <2>2, <3>2 DEF TrueMessage
    <3>3. CASE m.type = "field" /\ shown[p] \in Report /\ shown'[p] = [shown[p] EXCEPT !.field = m.value]
      BY <3>1, <3>3 DEF TrueReport, Report
    <3>4. CASE m.type = "photos" /\ shown[p] \in Report /\ shown'[p] = [shown[p] EXCEPT !.photos = m.value]
      BY <2>2, <3>1, <3>4 DEF TrueReport, TrueMessage, Report
    <3>5. CASE m.type = "sealed" /\ shown[p] \in Report /\ shown'[p] = [shown[p] EXCEPT !.status = "sealed"]
      BY <2>2, <3>1, <3>5 DEF TrueReport, TrueMessage, Report
    <3>6. CASE shown'[p] = shown[p]
      BY <3>1, <3>6
    <3> QED
      BY <1>6, <3>2, <3>3, <3>4, <3>5, <3>6, DeliverShows
  <2> QED
    BY <1>0, <1>2, <1>3, <2>1, <2>3, <2>4, <2>5
<1>7. ASSUME NEW m \in Message, Broadcast(m), UNCHANGED joins, TrueMessage(m)'
      PROVE  Truthful(p)'
  <2>1. TrueThen(m)
    BY <1>7 DEF TrueThen, TrueReportThen, TrueMessage, TrueReport
  <2>2. /\ UNCHANGED <<sock, found, snap, shown, isLocked>>
        /\ inbox'[p] = inbox[p] \/ inbox'[p] = Append(inbox[p], m)
        /\ inbox[p] \in Seq(Message)
    BY <1>7 DEF Broadcast, joins, SyncTypes
  <2>3. \A i \in 1..Len(inbox'[p]) : (i \in 1..Len(inbox[p]) /\ inbox'[p][i] = inbox[p][i]) \/ inbox'[p][i] = m
    <3>1. CASE inbox'[p] = inbox[p]
      BY <3>1
    <3>2. CASE inbox'[p] = Append(inbox[p], m)
      BY <2>2, <3>2
    <3> QED
      BY <2>2, <3>1, <3>2
  <2> QED
    BY <1>0, <1>3, <2>1, <2>2, <2>3
<1>8. ASSUME NEW ps, Cut(ps), p \in ps
      PROVE  Truthful(p)'
  <2>1. sock'[p] = "off" /\ inbox'[p] = <<>> /\ UNCHANGED <<shown, isLocked>>
    BY <1>8 DEF Cut
  <2> QED
    BY <1>0, <1>3, <2>1
<1>9. CASE Adopt(p)
  <2>1. TrueReportThen(post[p])
    BY <1>1, <1>9, AdoptShows DEF TrueReportThen
  <2>2. shown'[p] = post[p] /\ UNCHANGED <<sock, found, snap, inbox, isLocked>>
    BY <1>9, AdoptShows DEF joins
  <2> QED
    BY <1>0, <1>3, <2>1, <2>2
<1> QED
  BY <1>4, <1>5, <1>6, <1>7, <1>8, <1>9, Moves

(* What was true of the phone is, and a report it shows as complete stays.   *)
LEMMA RisingStep ==
  ASSUME SyncTypes, LockOrder, [Next]_vars, NEW p \in Phones, Truthful(p), Rising(p)
  PROVE  Rising(p)' /\ (p \notin Excepted' /\ Complete(p) => Complete(p)')
<1> DEFINE Seal(m) == m.type = "sealed" \/ (m.type = "state" /\ m.report.status = "sealed")
<1>1. CASE Untouched(p)
  BY <1>1 DEF Untouched, Rising, Excepted, Complete, Sealing
<1>2. CASE Joining(p)
  <2>1. CASE Connect(p)
    <3>1. sock'[p] = "open" /\ inbox'[p] = <<>> /\ UNCHANGED shown
      BY <2>1 DEF Connect, phoneVars, Rising, SyncTypes, TypeOK
    <3> QED
      BY <3>1 DEF Rising, Excepted, Complete
  <2>2. CASE LoadSession(p) \/ EnterRoom(p) \/ JoinFails(p)
    <3>1. sock'[p] \notin {"off", "read"} /\ UNCHANGED <<inbox, shown, overtaken, ahead>>
      BY <2>2 DEF LoadSession, EnterRoom, JoinFails, phoneVars, ghosts, adopted, SyncTypes, TypeOK
    <3> QED
      BY <3>1 DEF Rising, Excepted, Complete, Sealing
  <2>3. CASE ReadReport(p)
    <3>1. sock'[p] = "read" /\ snap'[p] = stored /\ UNCHANGED <<inbox, shown, overtaken, ahead>>
      BY <2>3 DEF ReadReport, phoneVars, ghosts, adopted, SyncTypes, TypeOK
    <3>2. Complete(p) \/ (\E i \in 1..Len(inbox[p]) : Sealing(inbox[p][i])) => stored.status = "sealed"
      BY DEF Complete, Truthful, TrueReport, TrueMessage, Sealing
    <3> QED
      BY <3>1, <3>2 DEF Rising, Excepted, Complete, Sealing
  <2>4. CASE EmitState(p)
    <3> DEFINE m == [type |-> "state", report |-> snap[p], session |-> found[p]]
               n == Len(inbox[p])
    <3>1. /\ sock[p] = "read" /\ sock'[p] = "joined" /\ UNCHANGED <<shown, overtaken, ahead>>
          /\ inbox'[p] = Append(inbox[p], m) /\ inbox[p] \in Seq(Message)
      BY <2>4 DEF EmitState, ghosts, adopted, SyncTypes, TypeOK
    <3>2. /\ n \in Nat /\ Len(inbox'[p]) = n + 1 /\ inbox'[p][n + 1] = m
          /\ \A i \in 1..(n + 1) : i # n + 1 => i \in 1..n /\ inbox'[p][i] = inbox[p][i]
      BY <3>1
    <3>3. m.type = "state" /\ m.report = snap[p]
      OBVIOUS
    <3> HIDE DEF m, n
    <3>4. p \notin Excepted /\ (Complete(p) \/ \E i \in 1..n : Seal(inbox[p][i])) => Seal(m)
      BY <3>1, <3>3 DEF Rising, Excepted, Sealing, n
    <3>5. ASSUME p \notin Excepted, NEW i \in 1..(n + 1), NEW j \in 1..(n + 1),
                 i < j, Seal(inbox'[p][i]), inbox'[p][j].type = "state"
          PROVE  Seal(inbox'[p][j])
      <4>1. CASE j = n + 1
        BY <3>2, <3>4, <3>5, <4>1
      <4>2. CASE j # n + 1
        <5>1. i \in 1..n /\ j \in 1..n /\ inbox'[p][i] = inbox[p][i] /\ inbox'[p][j] = inbox[p][j]
          BY <3>2, <3>5, <4>2
        <5> QED
          BY <3>5, <5>1 DEF Rising, Excepted, Sealing, n
      <4> QED
        BY <4>1, <4>2
    <3>6. ASSUME p \notin Excepted, Complete(p), NEW j \in 1..(n + 1), inbox'[p][j].type = "state"
          PROVE  Seal(inbox'[p][j])
      <4>1. CASE j = n + 1
        BY <3>2, <3>4, <3>6, <4>1
      <4>2. CASE j # n + 1
        <5>1. j \in 1..n /\ inbox'[p][j] = inbox[p][j]
          BY <3>2, <4>2
        <5> QED
          BY <3>6, <5>1 DEF Rising, Excepted, Sealing, n
      <4> QED
        BY <4>1, <4>2
    <3> QED
      BY <3>1, <3>2, <3>5, <3>6 DEF Rising, Excepted, Complete, Sealing
  <2> QED
    BY <1>2, <2>1, <2>2, <2>3, <2>4 DEF Joining
<1>3. CASE Deliver(p)
  <2> DEFINE m == Front(p)
  <2>1. UNCHANGED <<sock, snap, overtaken, ahead>>
    BY <1>3 DEF Deliver, joins, ghosts, adopted
  <2>2. Complete(p)' => Complete(p) \/ Seal(m)
    <3> SUFFICES ASSUME shown'[p] \in Report, shown'[p].status = "sealed", ~Seal(m)
                 PROVE  shown[p] \in Report /\ shown[p].status = "sealed"
      BY DEF Complete
    <3>1. ~(m.type = "state" /\ shown'[p] = m.report) /\ m.type # "sealed"
      OBVIOUS
    <3>2. CASE shown[p] \in Report /\ shown'[p] = [shown[p] EXCEPT !.field = m.value]
      BY <3>2 DEF Report
    <3>3. CASE shown[p] \in Report /\ shown'[p] = [shown[p] EXCEPT !.photos = m.value]
      BY <3>3 DEF Report
    <3>4. CASE shown'[p] = shown[p]
      BY <3>4
    <3> QED
      BY <1>3, <3>1, <3>2, <3>3, <3>4, DeliverShows, NoneIsNoReport
  <2>3. p \notin Excepted /\ Complete(p) => Complete(p)'
    <3> SUFFICES ASSUME p \notin Excepted, shown[p] \in Report, shown[p].status = "sealed"
                 PROVE  shown'[p] \in Report /\ shown'[p].status = "sealed"
      BY DEF Complete
    <3>1. m \in Message /\ m = inbox[p][1] /\ 1 \in 1..Len(inbox[p])
      BY <1>3, DeliverShows
    <3>2. CASE m.type = "state" /\ shown'[p] = m.report
      <4>1. Sealing(inbox[p][1])
        BY <3>1, <3>2 DEF Rising, Excepted, Complete
      <4> QED
        BY <3>1, <3>2, <4>1, MessageTypes DEF Sealing
    <3>3. CASE m.type = "field" /\ shown'[p] = [shown[p] EXCEPT !.field = m.value]
      BY <3>1, <3>3, MessageTypes DEF Report
    <3>4. CASE m.type = "photos" /\ shown'[p] = [shown[p] EXCEPT !.photos = m.value]
      <4>1. m.value \in SUBSET Files
        BY <3>1, <3>4, MessageTypes
      <4> QED
        BY <3>4, <4>1 DEF Report
    <3>5. CASE m.type = "sealed" /\ shown'[p] = [shown[p] EXCEPT !.status = "sealed"]
      BY <3>5 DEF Report
    <3>6. CASE shown'[p] = shown[p]
      BY <3>6
    <3> QED
      BY <1>3, <3>2, <3>3, <3>4, <3>5, <3>6, DeliverShows, NoneIsNoReport
  <2>4. \A i \in 1..Len(inbox'[p]) : i + 1 \in 2..Len(inbox[p]) /\ inbox'[p][i] = inbox[p][i + 1]
    BY <1>3, DeliverShows
  <2>5. m = inbox[p][1] /\ 1 \in 1..Len(inbox[p])
    BY <1>3, DeliverShows
  <2> HIDE DEF m
  <2>6. ASSUME p \notin Excepted, NEW i \in 1..Len(inbox'[p]), NEW j \in 1..Len(inbox'[p]),
               i < j, Seal(inbox'[p][i]), inbox'[p][j].type = "state"
        PROVE  Seal(inbox'[p][j])
    <3>1. i + 1 \in 1..Len(inbox[p]) /\ j + 1 \in 1..Len(inbox[p]) /\ i + 1 < j + 1
      BY <2>4, <2>6
    <3>2. Sealing(inbox[p][i + 1]) /\ inbox[p][j + 1].type = "state"
      BY <2>4, <2>6 DEF Sealing
    <3>3. Sealing(inbox[p][j + 1])
      BY <2>6, <3>1, <3>2 DEF Rising, Excepted
    <3> QED
      BY <2>4, <3>3 DEF Sealing
  <2>7. ASSUME p \notin Excepted, NEW j \in 1..Len(inbox'[p]), Complete(p)', inbox'[p][j].type = "state"
        PROVE  Seal(inbox'[p][j])
    <3>1. j + 1 \in 1..Len(inbox[p]) /\ 1 < j + 1 /\ inbox[p][j + 1] = inbox'[p][j]
      BY <2>4
    <3>2. Complete(p) \/ Sealing(inbox[p][1])
      BY <2>2, <2>5, <2>7 DEF Sealing
    <3>3. Sealing(inbox[p][j + 1])
      BY <2>5, <2>7, <3>1, <3>2 DEF Rising, Excepted
    <3> QED
      BY <3>1, <3>3 DEF Sealing
  <2>8. p \notin Excepted /\ sock[p] = "read"
          /\ (Complete(p)' \/ \E i \in 1..Len(inbox'[p]) : Seal(inbox'[p][i])) => snap[p].status = "sealed"
    BY <2>2, <2>4, <2>5 DEF Rising, Excepted, Sealing
  <2>9. sock[p] = "off" => inbox'[p] = <<>>
    BY <1>3 DEF Deliver, Rising
  <2> QED
    BY <2>1, <2>3, <2>6, <2>7, <2>8, <2>9 DEF Rising, Excepted, Sealing
<1>4. ASSUME NEW m \in Message, Broadcast(m), UNCHANGED <<joins, ahead>>, m.type # "state"
      PROVE  Rising(p)' /\ (p \notin Excepted' /\ Complete(p) => Complete(p)')
  <2>1. /\ UNCHANGED <<sock, snap, shown>> /\ inbox[p] \in Seq(Message)
        /\ p \notin Excepted' => p \notin Excepted /\ sock[p] # "read"
    BY <1>4 DEF Broadcast, joins, Excepted, SyncTypes
  <2>2. CASE inbox'[p] = inbox[p]
    BY <2>1, <2>2 DEF Rising, Excepted, Complete, Sealing
  <2>3. CASE inbox'[p] = Append(inbox[p], m) /\ sock[p] # "off" /\ m.type # "state"
    <3>1. \A i \in 1..Len(inbox'[p]) : \/ i \in 1..Len(inbox[p]) /\ inbox'[p][i] = inbox[p][i]
                                       \/ inbox'[p][i] = m /\ i = Len(inbox[p]) + 1
      BY <2>1, <2>3
    <3>2. ASSUME p \notin Excepted, NEW i \in 1..Len(inbox'[p]), NEW j \in 1..Len(inbox'[p]),
                 i < j, Seal(inbox'[p][i]), inbox'[p][j].type = "state"
          PROVE  Seal(inbox'[p][j])
      <4>1. j \in 1..Len(inbox[p]) /\ inbox'[p][j] = inbox[p][j]
        BY <2>3, <3>1, <3>2
      <4>2. i \in 1..Len(inbox[p]) /\ inbox'[p][i] = inbox[p][i]
        BY <2>1, <3>1, <3>2, <4>1
      <4> QED
        BY <3>2, <4>1, <4>2 DEF Rising, Excepted, Sealing
    <3>3. ASSUME p \notin Excepted, Complete(p), NEW j \in 1..Len(inbox'[p]), inbox'[p][j].type = "state"
          PROVE  Seal(inbox'[p][j])
      BY <2>3, <3>1, <3>3 DEF Rising, Excepted, Sealing
    <3> QED
      BY <2>1, <2>3, <3>2, <3>3 DEF Rising, Excepted, Complete, Sealing
  <2> QED
    BY <1>4, <2>2, <2>3 DEF Broadcast, InRoom, SyncTypes
<1>5. ASSUME NEW ps, Cut(ps), p \in ps, UNCHANGED <<overtaken, ahead>>
      PROVE  Rising(p)' /\ (Complete(p) => Complete(p)')
  <2>1. sock'[p] = "off" /\ inbox'[p] = <<>> /\ UNCHANGED shown
    BY <1>5 DEF Cut
  <2> QED
    BY <2>1 DEF Rising, Excepted, Complete
<1>6. CASE Adopt(p)
  <2>1. /\ Complete(p)' /\ UNCHANGED <<sock, snap, inbox>>
        /\ p \notin Excepted' => ~OlderSnapshot(p)
    BY <1>6, AdoptShows DEF Adopt, Complete, Excepted, joins
  <2>2. inbox[p] \in Seq(Message)
    BY DEF SyncTypes
  <2>3. DOMAIN inbox[p] = 1..Len(inbox[p])
    BY <2>2
  <2>4. p \notin Excepted' =>
          /\ sock[p] = "read" => snap[p].status = "sealed"
          /\ \A j \in 1..Len(inbox[p]) : inbox[p][j].type = "state" => Sealing(inbox[p][j])
    BY <2>1, <2>3 DEF OlderSnapshot, Sealing
  <2> QED
    BY <2>1, <2>4 DEF Rising, Sealing
<1> QED
  BY <1>1, <1>2, <1>3, <1>4, <1>5, <1>6, Moves

-----------------------------------------------------------------------------
(* What a phone shows, or will show. *)
LEMMA Kinds ==
  /\ Field \in Attributes /\ Status \in Attributes /\ \A f \in Files : Photo(f) \in Attributes
  /\ \A a \in Attributes : \/ a = Field /\ a.kind = "field"
                           \/ a = Status /\ a.kind = "status"
                           \/ a.kind = "photo" /\ a.of \in Files
<1>1. Field \in Attributes /\ Status \in Attributes /\ \A f \in Files : Photo(f) \in Attributes
  BY DEF Attributes
<1>2. Field.kind = "field" /\ Status.kind = "status" /\ \A f \in Files : Photo(f).kind = "photo" /\ Photo(f).of = f
  BY DEF Field, Status, Photo
<1>3. \A a \in Attributes : a = Field \/ a = Status \/ \E f \in Files : a = Photo(f)
  BY DEF Attributes
<1> QED
  BY <1>1, <1>2, <1>3

LEMMA PhoneUntouched ==
  ASSUME NEW p \in Phones, Phone(p),
         sock'[p] = sock[p], found'[p] = found[p], snap'[p] = snap[p],
         inbox'[p] = inbox[p], shown'[p] = shown[p], isLocked'[p] = isLocked[p],
         \A a \in Attributes : Excused(p, a) => Excused(p, a)',
         p \in missed => p \in missed', LockTold' => LockTold,
         \A a \in Attributes : ~Pending(a)' => ~Pending(a) /\ At(stored', a) = At(stored, a)
  PROVE  Phone(p)'
<1>1. \A a, v : WillShow(p, a, v)' <=> WillShow(p, a, v)
  BY DEF WillShow
<1>2. Fresh(p)'
  BY <1>1 DEF Phone, Fresh
<1>3. HasReport(p)'
  BY <1>1 DEF Phone, HasReport
<1>4. KnowsLock(p)'
  BY DEF Phone, KnowsLock, WillLock
<1> QED
  BY <1>2, <1>3, <1>4 DEF Phone

LEMMA StillPending ==
  ASSUME \A r \in Requests : pc[r] = "saved" => pc'[r] = "saved",
         overlapped \subseteq overlapped', UNCHANGED <<stored, seal>>
  PROVE  \A a \in Attributes : ~Pending(a)' => ~Pending(a) /\ At(stored', a) = At(stored, a)
  BY DEF Pending, Requests

(* A step that touches no phone. *)
LEMMA QuietStep ==
  ASSUME NEW p \in Phones, Phone(p),
         UNCHANGED <<joins, inbox, shown, isLocked, overtaken, missed, adopted>>,
         LockTold' => LockTold,
         \A a \in Attributes : ~Pending(a)' => ~Pending(a) /\ At(stored', a) = At(stored, a)
  PROVE  Phone(p)'
<1>1. \A a \in Attributes : Excused(p, a) => Excused(p, a)'
  BY DEF Excused, adopted
<1> QED
  BY <1>1, PhoneUntouched DEF joins

LEMMA BroadcastStep ==
  ASSUME SyncTypes, NEW m \in Message, Broadcast(m),
         UNCHANGED <<joins, missed, adopted>>,
         LockTold' => LockTold \/ m.type = "locked",
         \A a \in Attributes : ~Pending(a)' =>
           IF Carries(m, a) THEN Value(m, a) = At(stored', a)
           ELSE ~Pending(a) /\ At(stored', a) = At(stored, a),
         NEW p \in Phones, Phone(p)
  PROVE  Phone(p)'
<1>1. /\ sock'[p] = sock[p] /\ snap'[p] = snap[p] /\ found'[p] = found[p]
      /\ shown'[p] = shown[p] /\ isLocked'[p] = isLocked[p]
      /\ inbox[p] \in Seq(Message)
  BY DEF Broadcast, joins, SyncTypes
<1>e. \A a \in Attributes : ~Excused(p, a)' => ~Excused(p, a) /\ sock[p] # "read"
  BY DEF Excused, Broadcast, adopted
<1>2. CASE InRoom(p)
  <2>1. inbox'[p] = Append(inbox[p], m)
    BY <1>2 DEF Broadcast, SyncTypes
  <2>2. /\ Len(inbox'[p]) = Len(inbox[p]) + 1 /\ inbox'[p][Len(inbox[p]) + 1] = m
        /\ Len(inbox[p]) \in Nat /\ \A i \in 1..Len(inbox[p]) : inbox'[p][i] = inbox[p][i]
    BY <1>1, <2>1
  <2>3. ASSUME NEW a, ~Carries(m, a), NEW v, WillShow(p, a, v)
        PROVE  WillShow(p, a, v)'
    <3>1. /\ LastSays(inbox[p], a, v) => LastSays(inbox'[p], a, v)
          /\ SaysNothing(inbox[p], a) => SaysNothing(inbox'[p], a)
      BY <1>1, <2>1, <2>3, AppendKeeps
    <3> QED
      BY <1>1, <2>3, <3>1 DEF WillShow
  <2>4. ASSUME NEW a, Carries(m, a)
        PROVE  WillShow(p, a, Value(m, a))'
    BY <1>1, <2>1, <2>4, AppendSays DEF WillShow
  <2>5. Fresh(p)'
    <3>1. ASSUME NEW a \in Attributes, ~Excused(p, a)', ~Pending(a)', sock[p] = "joined"
          PROVE  WillShow(p, a, At(stored, a))'
      <4>1. CASE Carries(m, a)
        <5>1. Value(m, a) = At(stored', a)
          BY <3>1, <4>1
        <5>2. WillShow(p, a, Value(m, a))'
          BY <2>4, <4>1
        <5> QED
          BY <5>1, <5>2 DEF WillShow
      <4>2. CASE ~Carries(m, a)
        <5>1. WillShow(p, a, At(stored, a)) /\ At(stored', a) = At(stored, a)
          BY <1>1, <1>e, <3>1, <4>2 DEF Phone, Fresh
        <5>2. PICK v : v = At(stored, a)
          OBVIOUS
        <5>3. WillShow(p, a, v)'
          BY <2>3, <4>2, <5>1, <5>2
        <5> QED
          BY <5>1, <5>2, <5>3 DEF WillShow
      <4> QED
        BY <4>1, <4>2
    <3> QED
      BY <1>1, <1>e, <3>1 DEF Fresh
  <2>6. HasReport(p)'
    <3>1. ASSUME sock[p] = "joined"
          PROVE  \E v : WillShow(p, Status, v)'
      <4>1. \E v : WillShow(p, Status, v)
        BY <3>1 DEF Phone, HasReport
      <4> QED
        BY <2>3, <2>4, <4>1
    <3>2. (\E i \in 1..Len(inbox[p]) : inbox[p][i].type = "state") =>
            \E i \in 1..Len(inbox'[p]) : inbox'[p][i].type = "state"
      <4> SUFFICES ASSUME NEW i \in 1..Len(inbox[p]), inbox[p][i].type = "state"
                   PROVE  \E k \in 1..Len(inbox'[p]) : inbox'[p][k].type = "state"
        OBVIOUS
      <4>1. i \in 1..Len(inbox'[p]) /\ inbox'[p][i] = inbox[p][i]
        BY <2>2
      <4> QED
        BY <4>1
    <3> QED
      BY <1>1, <3>1, <3>2 DEF Phone, HasReport
  <2>7. KnowsLock(p)'
    <3>1. WillLock(p) => WillLock(p)'
      BY <1>1, <2>2 DEF WillLock
    <3>2. m.type = "locked" => WillLock(p)'
      BY <2>2 DEF WillLock
    <3> QED
      BY <1>1, <3>1, <3>2 DEF Phone, KnowsLock
  <2> QED
    BY <2>5, <2>6, <2>7 DEF Phone
<1>3. CASE ~InRoom(p)
  BY <1>1, <1>3 DEF Phone, Fresh, HasReport, KnowsLock, InRoom
<1> QED
  BY <1>2, <1>3

LEMMA DeliverStep ==
  ASSUME SyncTypes, NEW p \in Phones, Deliver(p), Phone(p)
  PROVE  Phone(p)'
<1> DEFINE m == Front(p)
<1>1. /\ inbox[p] \in Seq(Message) /\ inbox[p] # <<>> /\ m \in Message
      /\ inbox'[p] = Tail(inbox[p]) /\ m = Head(inbox[p])
  BY DEF SyncTypes, Deliver, Front
<1>2. /\ Len(inbox[p]) \in Nat /\ Len(inbox[p]) >= 1 /\ Len(Tail(inbox[p])) = Len(inbox[p]) - 1
      /\ \A i \in 1..Len(inbox[p]) : i = 1 \/ (i - 1 \in 1..Len(Tail(inbox[p])) /\ Tail(inbox[p])[i - 1] = inbox[p][i])
      /\ inbox[p][1] = m
  BY <1>1
<1>3. /\ m.type \in {"state", "field", "photos", "locked", "sealed"}
      /\ m.type = "state" => m.report \in Report
      /\ m.type = "field" => m.value \in Patches
      /\ m.type = "photos" => m.value \in SUBSET Files
  BY <1>1, MessageTypes
<1>4. /\ UNCHANGED <<stored, sock, found, snap, overtaken, missed, session, lock>>
      /\ \A a \in Attributes : (Pending(a)' <=> Pending(a)) /\ (Excused(p, a)' <=> Excused(p, a))
  BY DEF Deliver, joins, requests, ends, ghosts, adopted, Pending, Excused
<1>5. isLocked[p] \in BOOLEAN
  BY DEF SyncTypes, TypeOK
<1>6. shown[p] \in Report =>
        /\ shown'[p] \in Report
        /\ \A a \in Attributes : At(shown'[p], a) = IF Carries(m, a) THEN Value(m, a) ELSE At(shown[p], a)
  <2> SUFFICES ASSUME shown[p] \in Report
               PROVE  /\ shown'[p] \in Report
                      /\ \A a \in Attributes : At(shown'[p], a) = IF Carries(m, a) THEN Value(m, a) ELSE At(shown[p], a)
    OBVIOUS
  <2>1. CASE m.type = "state" /\ shown'[p] = m.report
    BY <1>3, <2>1 DEF Carries, Value
  <2>2. CASE m.type = "field" /\ shown'[p] = [shown[p] EXCEPT !.field = m.value]
    BY <1>3, <2>2, Kinds DEF Carries, Value, At, Report
  <2>3. CASE m.type = "photos" /\ shown'[p] = [shown[p] EXCEPT !.photos = m.value]
    <3>1. m.value \in SUBSET Files
      BY <1>3, <2>3
    <3>2. /\ shown'[p] \in Report /\ shown'[p].photos = m.value
          /\ shown'[p].field = shown[p].field /\ shown'[p].status = shown[p].status
      BY <2>3, <3>1 DEF Report
    <3> QED
      BY <2>3, <3>2, Kinds DEF Carries, Value, At
  <2>4. CASE m.type = "sealed" /\ shown'[p] = [shown[p] EXCEPT !.status = "sealed"]
    BY <2>4, Kinds DEF Carries, Value, At, Report
  <2>5. CASE m.type = "locked" /\ shown'[p] = shown[p]
    BY <2>5 DEF Carries
  <2> QED
    BY <2>1, <2>2, <2>3, <2>4, <2>5, DeliverShows, NoneIsNoReport
<1>7. m.type = "state" =>
        /\ shown'[p] \in Report
        /\ \A a \in Attributes : Carries(m, a) /\ At(shown'[p], a) = Value(m, a)
  <2>1. m.type = "state" => shown'[p] = m.report
    BY NoneIsNoReport DEF Deliver, OnState, OnPatched, OnSealed, OnLocked, SyncTypes, TypeOK, Front
  <2> QED
    BY <1>3, <2>1 DEF Carries, Value
<1> HIDE DEF m
<1>8. ASSUME NEW a \in Attributes, NEW v, WillShow(p, a, v), HasReport(p), sock[p] = "joined"
      PROVE  WillShow(p, a, v)'
  <2>1. CASE LastSays(Tail(inbox[p]), a, v)
    BY <1>1, <2>1 DEF WillShow
  <2>2. CASE Carries(m, a) /\ Value(m, a) = v /\ SaysNothing(Tail(inbox[p]), a)
    <3>1. m.type = "state" \/ shown[p] \in Report
      <4>1. ASSUME NEW i \in 1..Len(inbox[p]), inbox[p][i].type = "state"
            PROVE  m.type = "state"
        BY <1>2, <2>2, <4>1 DEF SaysNothing, Carries
      <4> QED
        BY <1>8, <4>1 DEF HasReport
    <3>2. shown'[p] \in Report /\ At(shown'[p], a) = v
      BY <1>6, <1>7, <2>2, <3>1
    <3> QED
      BY <1>1, <2>2, <3>2 DEF WillShow
  <2>3. CASE SaysNothing(inbox[p], a) /\ shown[p] \in Report /\ At(shown[p], a) = v
    <3>1. ~Carries(m, a) /\ SaysNothing(Tail(inbox[p]), a)
      BY <1>1, <2>3, TailSays
    <3>2. shown'[p] \in Report /\ At(shown'[p], a) = v
      BY <1>6, <2>3, <3>1
    <3> QED
      BY <1>1, <3>1, <3>2 DEF WillShow
  <2>4. LastSays(inbox[p], a, v) => \/ LastSays(Tail(inbox[p]), a, v)
                                    \/ Carries(m, a) /\ Value(m, a) = v /\ SaysNothing(Tail(inbox[p]), a)
    BY <1>1, TailSays
  <2> QED
    BY <1>8, <2>1, <2>2, <2>3, <2>4 DEF WillShow
<1>9. Fresh(p)'
  <2>1. ASSUME NEW a \in Attributes, ~Excused(p, a)', ~Pending(a)', sock'[p] = "joined"
        PROVE  WillShow(p, a, At(stored, a))'
    <3>0. PICK v : v = At(stored, a)
      OBVIOUS
    <3>1. WillShow(p, a, v) /\ HasReport(p) /\ sock[p] = "joined" /\ At(stored', a) = v
      BY <1>4, <2>1, <3>0 DEF Phone, Fresh
    <3>2. WillShow(p, a, v)'
      BY <1>8, <3>1
    <3> QED
      BY <3>1, <3>2 DEF WillShow
  <2> QED
    BY <1>4, <2>1 DEF Fresh, Phone
<1>10. HasReport(p)'
  <2>1. ASSUME NEW i \in 1..Len(inbox[p]), inbox[p][i].type = "state", i # 1
        PROVE  \E j \in 1..Len(inbox'[p]) : inbox'[p][j].type = "state"
    BY <1>1, <1>2, <2>1
  <2>2. ASSUME sock[p] = "joined"
        PROVE  \E v : WillShow(p, Status, v)'
    <3>1. HasReport(p) /\ \E v : WillShow(p, Status, v)
      BY <2>2 DEF Phone, HasReport
    <3> QED
      BY <1>8, <2>2, <3>1, Kinds
  <2> QED
    BY <1>2, <1>4, <1>6, <1>7, <2>1, <2>2 DEF Phone, HasReport
<1>11. KnowsLock(p)'
  <2>1. WillLock(p) => WillLock(p)'
    <3>1. isLocked[p] => isLocked'[p]
      BY <1>5 DEF Deliver, OnState, OnPatched, OnSealed, OnLocked, SyncTypes, TypeOK
    <3>2. m.type = "locked" => isLocked'[p]
      BY DEF Deliver, OnLocked, SyncTypes, TypeOK, m, Front
    <3>3. m.type = "state" /\ m.session \in LOCKED_STATUSES => isLocked'[p]
      BY DEF Deliver, OnState, SyncTypes, TypeOK, m, Front
    <3>4. ASSUME NEW i \in 1..Len(inbox[p]), i # 1,
                 \/ inbox[p][i].type = "locked"
                 \/ inbox[p][i].type = "state" /\ inbox[p][i].session \in LOCKED_STATUSES
          PROVE  WillLock(p)'
      BY <1>1, <1>2, <3>4 DEF WillLock
    <3> QED
      BY <1>2, <3>1, <3>2, <3>3, <3>4 DEF WillLock
  <2> QED
    BY <1>4, <2>1 DEF Phone, KnowsLock, LockTold
<1> QED
  BY <1>9, <1>10, <1>11 DEF Phone

(* Its own session:join, step by step. *)
LEMMA JoinStep ==
  ASSUME SyncTypes, NEW p \in Phones, Phone(p), Joining(p)
  PROVE  Phone(p)'
<1>1. CASE Connect(p) \/ LoadSession(p) \/ JoinFails(p)
  <2>1. sock'[p] \in {"open", "found", "outside", "deaf"}
    BY <1>1 DEF Connect, LoadSession, JoinFails, SyncTypes, TypeOK
  <2> QED
    BY <2>1 DEF Phone, Fresh, HasReport, KnowsLock
<1>2. CASE EnterRoom(p)
  <2>1. sock'[p] = "entered" /\ (p \notin missed' /\ LockTold' => found'[p] \in LOCKED_STATUSES)
    BY <1>2 DEF EnterRoom, SyncTypes, TypeOK, ends, LockTold
  <2> QED
    BY <2>1 DEF Phone, Fresh, HasReport, KnowsLock
<1>3. CASE ReadReport(p)
  <2>1. /\ sock[p] = "entered" /\ sock'[p] = "read" /\ snap'[p] = stored'
        /\ UNCHANGED <<session, found, phoneVars, ghosts, ends>>
    BY <1>3 DEF ReadReport, SyncTypes, TypeOK
  <2> QED
    BY <2>1 DEF Phone, Fresh, HasReport, KnowsLock, LockTold, WillLock, phoneVars, ghosts, ends
<1>4. CASE EmitState(p)
  <2> DEFINE m == [type |-> "state", report |-> snap[p], session |-> found[p]]
  <2>1. /\ sock[p] = "read" /\ sock'[p] = "joined" /\ inbox'[p] = Append(inbox[p], m)
        /\ UNCHANGED <<stored, session, shown, isLocked, overtaken, adopted, missed, lock>>
        /\ \A a \in Attributes : (Pending(a)' <=> Pending(a)) /\ (Excused(p, a)' <=> Excused(p, a))
    BY <1>4 DEF EmitState, SyncTypes, TypeOK, requests, ends, ghosts, adopted, Pending, Excused
  <2>2. m \in Message /\ inbox[p] \in Seq(Message) /\ m.type = "state"
    BY <2>1, MessagesAre DEF SyncTypes
  <2>3. /\ Len(inbox'[p]) = Len(inbox[p]) + 1 /\ inbox'[p][Len(inbox[p]) + 1] = m
        /\ Len(inbox[p]) \in Nat /\ \A i \in 1..Len(inbox[p]) : inbox'[p][i] = inbox[p][i]
    BY <2>1, <2>2
  <2>4. ASSUME NEW a \in Attributes
        PROVE  LastSays(inbox'[p], a, At(snap[p], a))
    <3>1. Carries(m, a) /\ Value(m, a) = At(snap[p], a)
      BY DEF Carries, Value
    <3> QED
      BY <2>1, <2>2, <3>1, AppendSays
  <2>5. Fresh(p)'
    <3>1. ASSUME NEW a \in Attributes, ~Excused(p, a)', ~Pending(a)'
          PROVE  WillShow(p, a, At(stored, a))'
      <4>1. At(snap[p], a) = At(stored', a)
        BY <2>1, <3>1 DEF Phone, Fresh
      <4> QED
        BY <2>4, <4>1 DEF WillShow
    <3> QED
      BY <2>1, <3>1 DEF Fresh
  <2>6. HasReport(p)'
    <3>1. PICK v : v = At(snap[p], Status)
      OBVIOUS
    <3>2. WillShow(p, Status, v)'
      BY <2>4, <3>1, Kinds DEF WillShow
    <3> QED
      BY <2>2, <2>3, <3>2 DEF HasReport
  <2>7. KnowsLock(p)'
    <3>1. WillLock(p) => WillLock(p)'
      BY <2>1, <2>3 DEF WillLock
    <3>2. found[p] \in LOCKED_STATUSES => WillLock(p)'
      BY <2>3 DEF WillLock
    <3> QED
      BY <2>1, <3>1, <3>2 DEF Phone, KnowsLock, LockTold
  <2> QED
    BY <2>5, <2>6, <2>7 DEF Phone
<1> QED
  BY <1>1, <1>2, <1>3, <1>4 DEF Joining

(* It adopts the answer of its request: nothing behind it takes the seal     *)
(* back, and what the answer lacks the phone is excused for.                 *)
LEMMA AdoptStep ==
  ASSUME SyncTypes, LockOrder, NEW p \in Phones, Phone(p), Adopt(p)
  PROVE  Phone(p)'
<1>1. /\ shown'[p] = post[p] /\ post[p] \in Report /\ post[p].status = "sealed" /\ stored.status = "sealed"
      /\ UNCHANGED <<stored, session, sock, found, snap, inbox, isLocked, requests, ends, overtaken,
                     missed, overlapped>>
  BY AdoptShows DEF joins
<1>2. \A a \in Attributes : Pending(a)' <=> Pending(a)
  BY <1>1 DEF Pending, requests, ends
<1>3. inbox[p] \in Seq(Message)
  BY DEF SyncTypes
<1>4. DOMAIN inbox[p] = 1..Len(inbox[p]) /\ \A i \in 1..Len(inbox[p]) : inbox[p][i] \in Message
  BY <1>3
<1>5. \A a, v : LastSays(inbox[p], a, v) => WillShow(p, a, v)'
  BY <1>1 DEF WillShow
<1>6. \A a, v : SaysNothing(inbox[p], a) /\ At(post[p], a) = v => WillShow(p, a, v)'
  BY <1>1 DEF WillShow
<1>7. At(post[p], Status) = "sealed" /\ At(stored, Status) = "sealed"
  BY <1>1 DEF At, Status
(* The seal. *)
<1>8. ASSUME ~Excused(p, Status)'
      PROVE  ~Excused(p, Status) \/ ~OlderSnapshot(p)
  BY <1>1, <1>8, Kinds DEF Excused, Adopt
<1>9. ASSUME ~OlderSnapshot(p), NEW v, LastSays(inbox[p], Status, v)
      PROVE  v = "sealed"
  <2>1. PICK i \in 1..Len(inbox[p]) : Carries(inbox[p][i], Status) /\ Value(inbox[p][i], Status) = v
    BY <1>9 DEF LastSays
  <2>2. CASE inbox[p][i].type = "state"
    <3>1. inbox[p][i].report.status = "sealed"
      BY <1>4, <1>9, <2>2 DEF OlderSnapshot
    <3> QED
      BY <2>1, <2>2, <3>1 DEF Value, At, Status
  <2>3. CASE inbox[p][i].type # "state"
    BY <2>1, <2>3 DEF Carries, Value, Status
  <2> QED
    BY <2>2, <2>3
<1>10. ASSUME ~Excused(p, Status)', ~Pending(Status)'
       PROVE  /\ sock[p] = "read" => At(snap[p], Status) = "sealed"
              /\ sock[p] = "joined" => WillShow(p, Status, "sealed")'
  <2>1. CASE ~OlderSnapshot(p)
    <3>1. sock[p] = "read" => At(snap[p], Status) = "sealed"
      BY <2>1 DEF OlderSnapshot, At, Status
    <3>2. ASSUME sock[p] = "joined"
          PROVE  WillShow(p, Status, "sealed")'
      <4>1. PICK v : WillShow(p, Status, v)
        BY <3>2 DEF Phone, HasReport
      <4> QED
        BY <1>5, <1>6, <1>7, <1>9, <2>1, <4>1 DEF WillShow
    <3> QED
      BY <3>1, <3>2
  <2>2. CASE ~Excused(p, Status)
    <3>1. /\ sock[p] = "read" => At(snap[p], Status) = "sealed"
          /\ sock[p] = "joined" => WillShow(p, Status, "sealed")
      BY <1>2, <1>7, <1>10, <2>2, Kinds DEF Phone, Fresh
    <3> QED
      BY <1>5, <1>6, <1>7, <3>1 DEF WillShow
  <2> QED
    BY <1>8, <1>10, <2>1, <2>2
(* The rest. *)
<1>11. ASSUME NEW a \in Attributes, a # Status, ~Excused(p, a)', ~Pending(a)'
       PROVE  /\ sock[p] = "read" => At(snap[p], a) = At(stored, a)
              /\ sock[p] = "joined" => WillShow(p, a, At(stored, a))'
  <2>1. ~Excused(p, a) /\ post[p] = stored
    <3>1. a.kind # "status"
      BY <1>11, Kinds
    <3> QED
      BY <1>1, <1>11, <3>1 DEF Excused, Adopt
  <2>2. PICK v : v = At(stored, a)
    OBVIOUS
  <2>3. /\ sock[p] = "read" => At(snap[p], a) = v
        /\ sock[p] = "joined" => WillShow(p, a, v)
    BY <1>2, <1>11, <2>1, <2>2 DEF Phone, Fresh
  <2>4. sock[p] = "joined" => WillShow(p, a, v)'
    BY <1>5, <1>6, <2>1, <2>2, <2>3 DEF WillShow
  <2> QED
    BY <1>1, <2>2, <2>3, <2>4 DEF WillShow
<1>12. Fresh(p)'
  <2>1. ASSUME NEW a \in Attributes, ~Excused(p, a)', ~Pending(a)'
        PROVE  /\ sock[p] = "read" => At(snap[p], a) = At(stored, a)
               /\ sock[p] = "joined" => WillShow(p, a, At(stored, a))'
    <3>1. CASE a = Status
      <4>1. At(stored', Status) = "sealed"
        BY <1>1, <1>7
      <4>2. sock[p] = "joined" => WillShow(p, Status, At(stored, Status))'
        BY <1>10, <2>1, <3>1, <4>1 DEF WillShow
      <4> QED
        BY <1>7, <1>10, <2>1, <3>1, <4>2
    <3>2. CASE a # Status
      BY <1>11, <2>1, <3>2
    <3> QED
      BY <3>1, <3>2
  <2> QED
    BY <1>1, <2>1 DEF Fresh
<1>13. HasReport(p)'
  <2>1. ASSUME sock[p] = "joined"
        PROVE  \E v : WillShow(p, Status, v)'
    <3>1. PICK v : WillShow(p, Status, v)
      BY <2>1 DEF Phone, HasReport
    <3>2. LastSays(inbox[p], Status, v) \/ SaysNothing(inbox[p], Status)
      BY <3>1 DEF WillShow
    <3> QED
      BY <1>5, <1>6, <1>7, <3>2
  <2> QED
    BY <1>1, <2>1 DEF HasReport
<1>14. KnowsLock(p)'
  BY <1>1 DEF Phone, KnowsLock, LockTold, WillLock, ends
<1> QED
  BY <1>12, <1>13, <1>14 DEF Phone

SyncInv == /\ SyncTypes /\ OneSaving /\ LockOrder
           /\ \A p \in Phones : Truthful(p) /\ Rising(p) /\ Phone(p)

LEMMA PhonesStep ==
  ASSUME SyncInv, [Next]_vars
  PROVE  \A p \in Phones : Phone(p)'
<1> SUFFICES ASSUME NEW p \in Phones
             PROVE  Phone(p)'
  OBVIOUS
<1>0. SyncTypes /\ OneSaving /\ LockOrder /\ Phone(p)
  BY DEF SyncInv
<1> DEFINE Same == \A a \in Attributes : ~Pending(a)' => ~Pending(a) /\ At(stored', a) = At(stored, a)
<1>1. ASSUME NEW r \in Phones, Joining(r)
      PROVE  Phone(p)'
  <2>1. CASE r = p
    BY <1>0, <1>1, <2>1, JoinStep
  <2>2. CASE r # p
    <3>1. /\ sock'[p] = sock[p] /\ found'[p] = found[p] /\ snap'[p] = snap[p]
          /\ inbox'[p] = inbox[p] /\ shown'[p] = shown[p] /\ isLocked'[p] = isLocked[p]
      BY <1>0, <1>1, <2>2 DEF Joining, Connect, LoadSession, EnterRoom, ReadReport, EmitState, JoinFails,
         SyncTypes, TypeOK, phoneVars
    <3>2. /\ p \in overtaken => p \in overtaken'
          /\ p \in untold => p \in untold'
          /\ p \in outdated => p \in outdated'
          /\ p \in missed => p \in missed'
      BY <1>1, <2>2 DEF Joining, Connect, LoadSession, EnterRoom, ReadReport, EmitState, JoinFails, ghosts, adopted
    <3>3. UNCHANGED <<stored, session, requests, ends, overlapped>>
      BY <1>1 DEF Joining, Connect, LoadSession, EnterRoom, ReadReport, EmitState, JoinFails, ghosts
    <3>4. Same
      BY <3>3, StillPending DEF requests, ends
    <3>5. \A a \in Attributes : Excused(p, a) => Excused(p, a)'
      BY <3>2 DEF Excused
    <3>6. LockTold' => LockTold
      BY <3>3 DEF LockTold, ends
    <3> QED
      BY <1>0, <3>1, <3>2, <3>4, <3>5, <3>6, PhoneUntouched
  <2> QED
    BY <2>1, <2>2
<1>2. ASSUME NEW r \in Phones, Deliver(r)
      PROVE  Phone(p)'
  <2>1. CASE r = p
    BY <1>0, <1>2, <2>1, DeliverStep
  <2>2. CASE r # p
    <3>1. inbox'[p] = inbox[p] /\ shown'[p] = shown[p] /\ isLocked'[p] = isLocked[p]
      BY <1>0, <1>2, <2>2 DEF Deliver, OnState, OnPatched, OnSealed, OnLocked, SyncTypes, TypeOK
    <3>2. UNCHANGED <<stored, session, joins, requests, ends, ghosts>>
      BY <1>2 DEF Deliver
    <3>3. Same
      BY <3>2, StillPending DEF requests, ends, ghosts
    <3>4. /\ \A a \in Attributes : Excused(p, a) => Excused(p, a)'
          /\ LockTold' => LockTold
      BY <3>2 DEF Excused, LockTold, ghosts, adopted, ends
    <3> QED
      BY <1>0, <3>1, <3>2, <3>3, <3>4, PhoneUntouched DEF joins, ghosts
  <2> QED
    BY <2>1, <2>2
<1>3. ASSUME NEW r \in Phones, Adopt(r)
      PROVE  Phone(p)'
  <2>1. CASE r = p
    BY <1>0, <1>3, <2>1, AdoptStep
  <2>2. CASE r # p
    <3>1. shown'[p] = shown[p]
      BY <1>0, <1>3, <2>2 DEF Adopt, SyncTypes, TypeOK
    <3>2. UNCHANGED <<stored, session, joins, inbox, isLocked, requests, ends, overtaken, missed, overlapped>>
      BY <1>3 DEF Adopt
    <3>3. (p \in untold => p \in untold') /\ (p \in outdated => p \in outdated')
      BY <1>3, <2>2 DEF Adopt
    <3>4. Same
      BY <3>2, StillPending DEF requests, ends
    <3>5. /\ \A a \in Attributes : Excused(p, a) => Excused(p, a)'
          /\ LockTold' => LockTold
      BY <3>2, <3>3 DEF Excused, LockTold, ends
    <3> QED
      BY <1>0, <3>1, <3>2, <3>4, <3>5, PhoneUntouched DEF joins
  <2> QED
    BY <2>1, <2>2
<1>4. ASSUME NEW ps, Cut(ps), p \in ps
      PROVE  Phone(p)'
  <2>1. sock'[p] = "off"
    BY <1>4 DEF Cut
  <2> QED
    BY <2>1 DEF Phone, Fresh, HasReport, KnowsLock
<1>5. ASSUME NEW r \in Phones, Drop(r)
      PROVE  Phone(p)'
  <2>1. CASE r = p
    BY <1>4, <1>5, <2>1 DEF Drop
  <2>2. CASE r # p
    <3>1. /\ sock'[p] = sock[p] /\ found'[p] = found[p] /\ snap'[p] = snap[p]
          /\ inbox'[p] = inbox[p] /\ shown'[p] = shown[p] /\ isLocked'[p] = isLocked[p]
      BY <1>5, <2>2 DEF Drop, Cut
    <3>2. \A x \in Requests : pc[x] = "saved" => pc'[x] = "saved"
      BY <1>5 DEF Drop, Done
    <3>3. Same
      BY <1>5, <3>2, StillPending DEF Drop, ends, ghosts
    <3>4. /\ \A a \in Attributes : Excused(p, a) => Excused(p, a)'
          /\ LockTold' => LockTold
          /\ p \in missed => p \in missed'
      BY <1>5 DEF Drop, Excused, LockTold, ghosts, adopted, ends
    <3> QED
      BY <1>0, <3>1, <3>3, <3>4, PhoneUntouched
  <2> QED
    BY <2>1, <2>2
<1>6. CASE Restart
  <2>1. CASE sock[p] # "off"
    BY <1>4, <1>6, <2>1 DEF Restart
  <2>2. CASE sock[p] = "off"
    <3>1. sock'[p] = "off"
      BY <1>6, <2>2 DEF Restart, Cut
    <3> QED
      BY <3>1 DEF Phone, Fresh, HasReport, KnowsLock
  <2> QED
    BY <2>1, <2>2
<1>7. ASSUME NEW r \in Requests, NEW step, pc[r] # "saved", Goto(r, step) \/ Done({r}),
             UNCHANGED <<stored, session, joins, phoneVars, ends, overtaken, missed, adopted>>,
             overlapped \subseteq overlapped'
      PROVE  Phone(p)'
  <2>1. \A x \in Requests : pc[x] = "saved" => pc'[x] = "saved"
    BY <1>0, <1>7 DEF Goto, Done, SyncTypes, TypeOK
  <2>2. Same
    BY <1>7, <2>1, StillPending DEF ends
  <2>3. LockTold' => LockTold
    BY <1>7 DEF LockTold, ends
  <2> QED
    BY <1>0, <1>7, <2>2, <2>3, QuietStep DEF phoneVars
<1>8. ASSUME NEW r \in Phones, NEW q \in Patches, SendPatch(r, q)
      PROVE  Phone(p)'
  BY <1>7, <1>8 DEF SendPatch, New, Requests, ghosts
<1>9. ASSUME NEW q \in Patches, OtherPatch(q) \/ ReceivePatch(q) \/ LoadReport(q)
      PROVE  Phone(p)'
  BY <1>7, <1>9 DEF OtherPatch, ReceivePatch, LoadReport, New, Requests, ghosts
<1>10. ASSUME NEW r \in Lists, \/ r \in Photos /\ GuardPhoto(r)
                               \/ r \in Deletes /\ GuardDelete(r)
       PROVE  Phone(p)'
  <2>1. overlapped \subseteq overlapped'
    BY <1>10 DEF GuardPhoto, GuardDelete, Overlapping
  <2>2. pc[r] # "saved" /\ UNCHANGED <<stored, session, joins, phoneVars, ends, overtaken, missed, adopted>>
    BY <1>10 DEF GuardPhoto, GuardDelete, New
  <2>3. Goto(r, "save") \/ Done({r})
    BY <1>10 DEF GuardPhoto, GuardDelete, Admit
  <2> QED
    BY <1>7, <2>1, <2>2, <2>3 DEF Requests
<1>11. ASSUME NEW r \in Requests, CallRejects(r)
       PROVE  Phone(p)'
  BY <1>7, <1>11 DEF CallRejects, ghosts
<1>12. ASSUME NEW r \in Requests, Goto(r, "saved"), UNCHANGED <<session, joins, phoneVars, ends, ghosts>>,
              stored'.status = stored.status,
              \/ r \in Patches /\ stored'.photos = stored.photos
              \/ r \in Lists /\ stored'.field = stored.field
       PROVE  Phone(p)'
  <2>1. pc'[r] = "saved" /\ \A x \in Requests : pc[x] = "saved" => pc'[x] = "saved"
    BY <1>0, <1>12 DEF Goto, SyncTypes, TypeOK
  <2>2. Same
    BY <1>12, <2>1, Kinds DEF Pending, At, Requests, ends, ghosts
  <2>3. LockTold' => LockTold
    BY <1>12 DEF LockTold, ends
  <2> QED
    BY <1>0, <1>12, <2>2, <2>3, QuietStep DEF phoneVars, ghosts
<1>13. ASSUME NEW q \in Patches, SavePatch(q)
       PROVE  Phone(p)'
  <2>1. stored'.photos = stored.photos /\ stored'.status = stored.status
    BY <1>0, <1>13 DEF SavePatch, SyncTypes, TypeOK, Report
  <2> QED
    BY <1>12, <1>13, <2>1 DEF SavePatch, Requests
<1>14. ASSUME NEW r \in Lists, \/ r \in Photos /\ SavePhoto(r)
                               \/ r \in Deletes /\ SaveDelete(r)
       PROVE  Phone(p)'
  <2>1. stored'.field = stored.field /\ stored'.status = stored.status
    BY <1>0, <1>14 DEF SavePhoto, SaveDelete, SyncTypes, TypeOK, Report
  <2>2. CASE Goto(r, "saved")
    BY <1>12, <1>14, <2>1, <2>2 DEF SavePhoto, SaveDelete, Requests
  <2>3. CASE Done({r}) /\ UNCHANGED stored
    <3>1. pc[r] # "saved" /\ UNCHANGED <<session, joins, phoneVars, ends, ghosts>>
      BY <1>14 DEF SavePhoto, SaveDelete
    <3> QED
      BY <1>7, <2>3, <3>1 DEF ghosts, Requests
  <2> QED
    BY <1>14, <2>2, <2>3 DEF SavePhoto, SaveDelete
<1>15. ASSUME NEW q \in Patches, BroadcastPatch(q)
       PROVE  Phone(p)'
  <2> DEFINE m == [type |-> "field", value |-> q]
  <2>1. /\ Broadcast(m) /\ m \in Message /\ stored.field = q
        /\ UNCHANGED <<stored, session, joins, ends, missed, adopted, overlapped>>
    BY <1>0, <1>15, MessagesAre DEF BroadcastPatch, OneSaving
  <2>2. \A r \in Lists : pc'[r] = pc[r]
    BY <1>15, SyncAssumption DEF BroadcastPatch, Done, Requests, Lists
  <2>3. \A a \in Attributes : ~Pending(a)' => IF Carries(m, a) THEN Value(m, a) = At(stored', a)
                                              ELSE ~Pending(a) /\ At(stored', a) = At(stored, a)
    BY <2>1, <2>2, Kinds DEF Carries, Value, Pending, At, ends
  <2>4. LockTold' => LockTold
    BY <2>1 DEF LockTold, ends
  <2> QED
    BY <1>0, <2>1, <2>3, <2>4, BroadcastStep
<1>16. ASSUME NEW r \in Lists, BroadcastPhotos(r)
       PROVE  Phone(p)'
  <2> DEFINE m == [type |-> "photos", value |-> Known(r)]
  <2>1. Known(r) \in SUBSET Files
    BY <1>0 DEF Known, SyncTypes, TypeOK, Files
  <2>2. /\ Broadcast(m) /\ m \in Message
        /\ \A f \in Files \ overlapped : f \in Known(r) <=> f \in stored.photos
        /\ UNCHANGED <<stored, session, joins, ends, missed, adopted, overlapped>>
    BY <1>0, <1>16, <2>1, MessagesAre DEF BroadcastPhotos, OneSaving
  <2>3. \A q \in Patches : pc'[q] = pc[q]
    BY <1>16, SyncAssumption DEF BroadcastPhotos, Done, Requests, Lists
  <2>4. ASSUME NEW a \in Attributes, ~Pending(a)'
        PROVE  IF Carries(m, a) THEN Value(m, a) = At(stored', a)
               ELSE ~Pending(a) /\ At(stored', a) = At(stored, a)
    <3>1. CASE a.kind = "photo"
      <4>1. a.of \in Files \ overlapped
        BY <2>2, <2>4, <3>1, Kinds DEF Pending, Field, Status
      <4> QED
        BY <2>2, <3>1, <4>1 DEF Carries, Value, At, In
    <3>2. CASE a.kind # "photo"
      BY <2>2, <2>3, <2>4, <3>2 DEF Carries, Pending, ends
    <3> QED
      BY <3>1, <3>2
  <2>5. LockTold' => LockTold
    BY <2>2 DEF LockTold, ends
  <2> QED
    BY <1>0, <2>2, <2>4, <2>5, BroadcastStep
<1>17. CASE EmitLocked
  <2> DEFINE m == [type |-> "locked"]
  <2>1. /\ Broadcast(m) /\ m \in Message
        /\ UNCHANGED <<stored, joins, requests, seal, missed, adopted, overlapped>>
    BY <1>17, MessagesAre DEF EmitLocked
  <2>2. \A a \in Attributes : ~Carries(m, a) /\ (~Pending(a)' => ~Pending(a) /\ At(stored', a) = At(stored, a))
    BY <2>1, Kinds DEF Carries, Pending, requests
  <2> QED
    BY <1>0, <2>1, <2>2, BroadcastStep
<1>18. CASE EmitSealed
  <2> DEFINE m == [type |-> "sealed"]
  <2>1. /\ Broadcast(m) /\ m \in Message /\ stored.status = "sealed"
        /\ UNCHANGED <<stored, session, joins, requests, lock, missed, adopted, overlapped>>
    BY <1>0, <1>18, MessagesAre DEF EmitSealed, LockOrder
  <2>2. \A a \in Attributes : ~Pending(a)' => IF Carries(m, a) THEN Value(m, a) = At(stored', a)
                                              ELSE ~Pending(a) /\ At(stored', a) = At(stored, a)
    BY <2>1, Kinds DEF Carries, Value, Pending, At, requests
  <2>3. LockTold' => LockTold
    BY <2>1 DEF LockTold
  <2> QED
    BY <1>0, <2>1, <2>2, <2>3, BroadcastStep
<1>19. CASE LockReport \/ SealReport
  <2>1. /\ stored'.field = stored.field /\ stored'.photos = stored.photos
        /\ Pending(Status)'
        /\ LockTold' => LockTold
        /\ UNCHANGED <<joins, phoneVars, requests, ghosts>>
    BY <1>0, <1>19 DEF LockReport, SealReport, SyncTypes, TypeOK, Report, Pending, Status, LockTold
  <2>2. Same
    BY <2>1, Kinds DEF Pending, At, requests, ghosts
  <2> QED
    BY <1>0, <2>1, <2>2, QuietStep DEF phoneVars, ghosts
<1>20. ASSUME UNCHANGED <<stored, joins, inbox, shown, isLocked, requests, ghosts>>,
              LockTold' => LockTold, Pending(Status)' \/ ~Pending(Status)
       PROVE  Phone(p)'
  <2>1. Same
    BY <1>20, Kinds DEF Pending, requests, ghosts
  <2> QED
    BY <1>0, <1>20, <2>1, QuietStep DEF ghosts
<1>21. CASE LockSession \/ LockFails \/ SealSession \/ UNCHANGED vars
  <2>1. UNCHANGED <<stored, joins, inbox, shown, isLocked, requests, ghosts>>
    BY <1>21 DEF LockSession, LockFails, SealSession, phoneVars, vars
  <2>2. LockTold' => LockTold
    BY <1>0, <1>21 DEF LockSession, LockFails, SealSession, vars, ends, LockTold, LockOrder
  <2>3. Pending(Status)' \/ ~Pending(Status)
    BY <1>21 DEF LockSession, LockFails, SealSession, vars, ends, Pending, Status
  <2> QED
    BY <1>20, <2>1, <2>2, <2>3
<1>22. ASSUME \/ OtherFinalizes \/ AttemptFails
              \/ \E r \in Phones : Finalize(r) \/ AnswerLost(r)
       PROVE  Phone(p)'
  <2>1. UNCHANGED <<stored, session, lock, joins, inbox, shown, isLocked, requests, ghosts>>
    BY <1>22 DEF OtherFinalizes, AttemptFails, Finalize, AnswerLost, phoneVars, ends
  <2>2. LockTold' => LockTold
    BY <2>1 DEF LockTold
  <2>3. Pending(Status)' \/ ~Pending(Status)
    BY <1>0, <1>22, <2>1 DEF OtherFinalizes, AttemptFails, Finalize, AnswerLost, ends, Pending, Status, LockOrder
  <2> QED
    BY <1>20, <2>1, <2>2, <2>3
<1>23. CASE SealFails
  <2>1. /\ UNCHANGED <<stored, session, lock, joins, inbox, shown, isLocked, requests, overtaken, missed,
                       outdated, overlapped>>
        /\ sock[p] \in {"read", "joined"} => Excused(p, Status)'
        /\ \A a \in Attributes : Excused(p, a) => Excused(p, a)'
    BY <1>23 DEF SealFails, Excused, Status
  <2>2. \A a \in Attributes : a # Status => (Pending(a)' <=> Pending(a))
    BY <2>1, Kinds DEF Pending, requests
  <2>3. Fresh(p)'
    <3>1. \A a, v : WillShow(p, a, v)' <=> WillShow(p, a, v)
      BY <2>1 DEF WillShow
    <3> QED
      BY <1>0, <2>1, <2>2, <3>1 DEF Phone, Fresh, joins
  <2>4. HasReport(p)'
    BY <1>0, <2>1 DEF Phone, HasReport, WillShow, joins
  <2>5. KnowsLock(p)'
    BY <1>0, <2>1 DEF Phone, KnowsLock, LockTold, WillLock, joins
  <2> QED
    BY <2>3, <2>4, <2>5 DEF Phone
<1> QED
  BY <1>1, <1>2, <1>3, <1>5, <1>6, <1>8, <1>9, <1>10, <1>11, <1>13, <1>14, <1>15, <1>16, <1>17, <1>18, <1>19,
     <1>21, <1>22, <1>23 DEF Next, Joining, Lists

-----------------------------------------------------------------------------
LEMMA SyncInvHolds == Spec => []SyncInv
<1>1. Init => SyncInv
  <2> SUFFICES ASSUME Init PROVE SyncInv
    OBVIOUS
  <2>1. SyncTypes
    BY StartTypes
  <2>2. OneSaving /\ LockOrder
    BY NoneIsNoReport DEF Init, OneSaving, Open, LockOrder, Requests, Lists, LOCKED_STATUSES
  <2>3. ASSUME NEW p \in Phones
        PROVE  Phone(p) /\ Truthful(p) /\ Rising(p)
    <3>1. /\ sock[p] = "off" /\ inbox[p] = <<>>
          /\ shown[p] \notin Report /\ isLocked[p] = FALSE
      BY NoneIsNoReport DEF Init
    <3>2. Len(inbox[p]) = 0
      BY <3>1
    <3>3. 1..Len(inbox[p]) = {}
      BY <3>2
    <3>4. Phone(p)
      BY <3>1 DEF Phone, Fresh, HasReport, KnowsLock
    <3>5. Truthful(p)
      BY <3>1, <3>3 DEF Truthful
    <3>6. Rising(p)
      BY <3>1, <3>3 DEF Rising
    <3> QED
      BY <3>4, <3>5, <3>6
  <2> QED
    BY <2>1, <2>2, <2>3 DEF SyncInv
<1>2. SyncInv /\ [Next]_vars => SyncInv'
  <2> SUFFICES ASSUME SyncInv, [Next]_vars PROVE SyncInv'
    OBVIOUS
  <2>1. SyncTypes /\ OneSaving /\ LockOrder /\ \A p \in Phones : Truthful(p) /\ Rising(p)
    BY DEF SyncInv
  <2>2. SyncTypes' /\ OneSaving' /\ LockOrder'
    BY <2>1, TypesStep, SavingStep, OrderStep
  <2>3. \A p \in Phones : Truthful(p)' /\ Rising(p)' /\ Phone(p)'
    BY <2>1, TruthfulStep, RisingStep, PhonesStep
  <2> QED
    BY <2>2, <2>3 DEF SyncInv
<1> QED
  BY <1>1, <1>2, PTL DEF Spec

(* Of a phone that has joined and has nothing to hear, the copy is all there is. *)
LEMMA SettledShows ==
  ASSUME SyncInv, NEW p \in Phones, Settled(p)
  PROVE  /\ shown[p] \in Report
         /\ \A a \in Attributes : ~Excused(p, a) /\ ~Pending(a) => At(shown[p], a) = At(stored, a)
         /\ p \notin missed /\ LockTold => isLocked[p]
<1>1. /\ sock[p] = "joined" /\ inbox[p] = <<>> /\ Fresh(p) /\ HasReport(p) /\ KnowsLock(p)
      /\ Len(inbox[p]) = 0
  BY DEF Settled, SyncInv, Phone
<1>2. 1..Len(inbox[p]) = {}
  BY <1>1
<1> QED
  BY <1>1, <1>2 DEF Fresh, HasReport, KnowsLock, WillShow, WillLock, LastSays

(* Every variable keeps its type: the document, the joins, the phones' copies, *)
(* the requests and the answers, whatever breaks.                              *)
THEOREM SyncTypeCorrectness == Spec => []TypeOK
<1>1. SyncInv => TypeOK
  BY DEF SyncInv, SyncTypes
<1> QED
  BY <1>1, SyncInvHolds, PTL

(* FieldConverges: report:patch, session:join and the answer of POST          *)
(* /finalize leave a phone with the field as it is stored, but for a snapshot *)
(* a broadcast overtook and an answer older than the store.                   *)
THEOREM FieldIsShown == Spec => []FieldConverges
<1>1. ASSUME SyncInv, NEW p \in Phones \ (overtaken \cup outdated), Settled(p)
      PROVE  shown[p].field = stored.field
  <2>1. ~Pending(Field) /\ ~Excused(p, Field)
    BY <1>1 DEF Settled, Pending, Excused, Field, Requests
  <2>2. At(shown[p], Field) = At(stored, Field)
    BY <1>1, <2>1, Kinds, SettledShows
  <2> QED
    BY <2>2 DEF At, Field
<1>2. SyncInv => FieldConverges
  BY <1>1 DEF FieldConverges
<1> QED
  BY <1>2, SyncInvHolds, PTL

(* PhotosConverge: of a photo that no two overlapping requests are about,     *)
(* POST photos, DELETE photos and session:join leave a phone with what is     *)
(* stored.                                                                    *)
THEOREM PhotosAreShown == Spec => []PhotosConverge
<1>1. ASSUME SyncInv, NEW p \in Phones \ (overtaken \cup outdated), Settled(p), NEW f \in Files \ overlapped
      PROVE  f \in shown[p].photos <=> f \in stored.photos
  <2>1. ~Pending(Photo(f)) /\ ~Excused(p, Photo(f))
    BY <1>1 DEF Settled, Pending, Excused, Photo, Requests
  <2>2. At(shown[p], Photo(f)) = At(stored, Photo(f))
    BY <1>1, <2>1, Kinds, SettledShows
  <2>3. In(f, shown[p].photos) = In(f, stored.photos)
    BY <2>2 DEF At, Photo
  <2> QED
    BY <2>3 DEF In
<1>2. SyncInv => PhotosConverge
  BY <1>1 DEF PhotosConverge
<1> QED
  BY <1>2, SyncInvHolds, PTL

(* LockIsShown: maybeLockReport's broadcast or the snapshot of a later join   *)
(* takes the form away, on every phone that did not join around the broadcast.*)
THEOREM LockReachesThePhones == Spec => []LockIsShown
<1>1. ASSUME SyncInv, NEW p \in Phones \ missed, Settled(p), session \in LOCKED_STATUSES
      PROVE  Screen(p) # "form"
  <2>1. LockTold
    BY <1>1 DEF Settled, SyncInv, LockOrder, LockTold
  <2>2. isLocked[p]
    BY <1>1, <2>1, SettledShows
  <2> QED
    BY <2>2 DEF Screen
<1>2. SyncInv => LockIsShown
  BY <1>1 DEF LockIsShown
<1> QED
  BY <1>2, SyncInvHolds, PTL

(* SealIsShown: runFinalize's broadcast, its answer or a later join's         *)
(* snapshot shows the report as complete, but for a snapshot a broadcast      *)
(* overtook and the phones in the room when the seal's session call rejected. *)
THEOREM SealReachesThePhones == Spec => []SealIsShown
<1>1. ASSUME SyncInv, NEW p \in Phones \ (overtaken \cup untold), Settled(p), stored.status = "sealed"
      PROVE  Screen(p) = "complete"
  <2>1. ~Pending(Status) /\ ~Excused(p, Status)
    BY <1>1 DEF Settled, Pending, Excused, Status
  <2>2. shown[p] \in Report /\ At(shown[p], Status) = At(stored, Status)
    BY <1>1, <2>1, Kinds, SettledShows
  <2>3. shown[p].status = "sealed"
    BY <1>1, <2>2 DEF At, Status
  <2> QED
    BY <2>2, <2>3, NoneIsNoReport DEF Screen
<1>2. SyncInv => SealIsShown
  BY <1>1 DEF SealIsShown
<1> QED
  BY <1>2, SyncInvHolds, PTL

(* NothingAhead: no phone leaves the form before maybeLockReport has stored   *)
(* the lock in the report and in the session, and none shows the report as    *)
(* complete before runFinalize has stored the seal.                           *)
THEOREM PhonesFollowTheStore == Spec => []NothingAhead
<1>1. ASSUME SyncInv, NEW p \in Phones
      PROVE  /\ Screen(p) # "form" => Locked /\ session \in LOCKED_STATUSES
             /\ Screen(p) = "complete" => stored.status = "sealed"
  <2>1. Truthful(p) /\ shown[p] \in Report \cup {None} /\ SyncTypes /\ LockOrder
    BY <1>1 DEF SyncInv, SyncTypes, TypeOK
  <2>2. stored.status = "sealed" => Shut
    BY <2>1 DEF LockOrder, Shut
  <2>3. Shut => Locked
    BY <2>1, ShutIsLocked
  <2> QED
    BY <2>1, <2>2, <2>3, NoneIsNoReport DEF Truthful, TrueReport, Screen, Shut
<1>2. SyncInv => NothingAhead
  BY <1>1 DEF NothingAhead
<1> QED
  BY <1>2, SyncInvHolds, PTL

(* CompleteStays: once a phone has shown the report as complete, neither a    *)
(* snapshot nor a broadcast takes it back, unless its snapshot was overtaken  *)
(* by a broadcast or by the answer of its own POST /finalize.                 *)
THEOREM CompleteIsForGood == Spec => CompleteStays
<1>1. ASSUME SyncInv, [Next]_vars, NEW p \in Phones \ (overtaken \cup ahead)', Screen(p) = "complete"
      PROVE  Screen(p)' = "complete"
  <2>1. Complete(p)
    BY <1>1, NoneIsNoReport DEF Screen, Complete, SyncInv, SyncTypes, TypeOK
  <2>2. Complete(p)'
    BY <1>1, <2>1, RisingStep DEF SyncInv, Excepted
  <2> QED
    BY <2>2, NoneIsNoReport DEF Screen, Complete
<1>2. SyncInv /\ [Next]_vars =>
        [\A p \in Phones \ (overtaken \cup ahead)' : Screen(p) = "complete" => Screen(p)' = "complete"]_vars
  BY <1>1
<1> QED
  BY <1>2, SyncInvHolds, PTL DEF Spec, CompleteStays

-----------------------------------------------------------------------------
(* The lock that the phones are told of is SignedLock's, as in SignOff and   *)
(* Finalize; seen from here both parties have signed.                        *)
Locking == INSTANCE SignedLock WITH Parties <- {}, signedOff <- {}, locked <- Locked,
                                    sessionLocked <- session \in LOCKED_STATUSES

LEMMA NextLocking ==
  ASSUME SyncTypes, LockOrder, [Next]_vars
  PROVE  Locking!Next \/ UNCHANGED Locking!lock
<1>1. Locked => Locked'
  BY StoredGrows
<1>2. CASE UNCHANGED session
  <2>1. CASE Locked <=> Locked'
    BY <1>2, <2>1 DEF Locking!lock
  <2>2. CASE ~Locked /\ Locked'
    BY <1>2, <2>2 DEF Locking!Next, Locking!Lock
  <2> QED
    BY <1>1, <2>1, <2>2
<1>3. CASE LockSession \/ SealSession
  <2>1. stored.status # "waiting" /\ session' \in LOCKED_STATUSES /\ UNCHANGED stored
    BY <1>3 DEF LockSession, SealSession, LockOrder, LOCKED_STATUSES
  <2>2. Locked /\ Locked'
    BY <2>1 DEF Locked, LOCKED_STATUSES, SyncTypes, TypeOK, Report
  <2>3. CASE session \in LOCKED_STATUSES
    BY <2>1, <2>2, <2>3 DEF Locking!lock
  <2>4. CASE session \notin LOCKED_STATUSES
    BY <2>1, <2>2, <2>4 DEF Locking!Next, Locking!LockSession
  <2> QED
    BY <2>3, <2>4
<1> QED
  BY <1>2, <1>3 DEF Next, Connect, LoadSession, EnterRoom, ReadReport, EmitState, JoinFails, Drop, Deliver,
     SendPatch, OtherPatch, ReceivePatch, LoadReport, SavePatch, BroadcastPatch, GuardPhoto, SavePhoto,
     GuardDelete, SaveDelete, BroadcastPhotos, CallRejects, LockReport, LockFails, EmitLocked, Finalize,
     OtherFinalizes, AttemptFails, SealReport, SealFails, EmitSealed, Adopt, AnswerLost, Restart, vars

(* What maybeLockReport and runFinalize do to the report and the session     *)
(* here is what SignedLock allows: the report locks for good, the session    *)
(* after it.                                                                 *)
THEOREM SyncKeepsLocked == Spec => Locking!Spec
<1>1. Init => Locking!Init
  BY DEF Init, Locking!Init, Locked, LOCKED_STATUSES
<1>2. SyncInv /\ [Next]_vars => [Locking!Next]_(Locking!lock)
  BY NextLocking DEF SyncInv
<1> QED
  BY <1>1, <1>2, SyncInvHolds, PTL DEF Spec, Locking!Spec

=============================================================================
