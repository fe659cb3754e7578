------------------------ MODULE MCFinalizingScreens ------------------------
(***************************************************************************)
(* FinalizingScreens on small instances.  Liveness is checked: no symmetry.*)
(***************************************************************************)
EXTENDS FinalizingScreens, TLC

=============================================================================
