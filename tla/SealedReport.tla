---------------------------- MODULE SealedReport ----------------------------
(***************************************************************************)
(* What sealing a report promises, whatever fails on the way: its hashes   *)
(* are stored once, only stored hashes are anchored, the anchor is made    *)
(* once, and only an anchored report is sealed, for good.                  *)
(***************************************************************************)
CONSTANTS Payload,  \* the pairs of hashes a report may be sealed with
          None      \* no hashes

VARIABLES stored,    \* the hashes in the database
          anchored,  \* the hashes on the chain
          sealed     \* is the report sealed?

life == <<stored, anchored, sealed>>

Init == stored = None /\ anchored = None /\ sealed = FALSE

Store == /\ stored = None
         /\ stored' # None
         /\ stored' \in Payload
         /\ UNCHANGED <<anchored, sealed>>

Anchor == /\ stored # None
          /\ anchored = None
          /\ anchored' = stored
          /\ UNCHANGED <<stored, sealed>>

Seal == /\ anchored # None
        /\ ~sealed
        /\ sealed' = TRUE
        /\ UNCHANGED <<stored, anchored>>

Next == Store \/ Anchor \/ Seal

Spec == Init /\ [][Next]_life

=============================================================================
