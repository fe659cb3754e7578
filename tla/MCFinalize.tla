----------------------------- MODULE MCFinalize -----------------------------
(***************************************************************************)
(* Finalize on small instances.  Liveness is checked: no symmetry.         *)
(***************************************************************************)
EXTENDS Finalize, TLC

=============================================================================
