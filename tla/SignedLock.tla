----------------------------- MODULE SignedLock -----------------------------
(***************************************************************************)
(* What locking a report promises, whichever request does it and wherever  *)
(* it is interrupted: the parties sign off one by one and for good; the    *)
(* report locks, once and for good, when all of them have; and the session *)
(* after the report.                                                       *)
(***************************************************************************)
CONSTANT Parties  \* who must sign off

VARIABLES signedOff,     \* the parties that have
          locked,        \* is the report locked?
          sessionLocked  \* is the session?

lock == <<signedOff, locked, sessionLocked>>

Init == signedOff = {} /\ locked = FALSE /\ sessionLocked = FALSE

SignOff(p) == /\ p \notin signedOff
              /\ signedOff' = signedOff \cup {p}
              /\ UNCHANGED <<locked, sessionLocked>>

Lock == /\ signedOff = Parties
        /\ ~locked
        /\ locked' = TRUE
        /\ UNCHANGED <<signedOff, sessionLocked>>

LockSession == /\ locked
               /\ ~sessionLocked
               /\ sessionLocked' = TRUE
               /\ UNCHANGED <<signedOff, locked>>

Next == (\E p \in Parties : SignOff(p)) \/ Lock \/ LockSession

Spec == Init /\ [][Next]_lock

=============================================================================
