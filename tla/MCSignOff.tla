------------------------------ MODULE MCSignOff ------------------------------
(***************************************************************************)
(* SignOff on small instances.  Requests of one kind are interchangeable   *)
(* where no liveness is checked.                                           *)
(***************************************************************************)
EXTENDS SignOff, TLC

Symmetry == Permutations(Patches) \cup Permutations(Uploads)

=============================================================================
