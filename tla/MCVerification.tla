--------------------------- MODULE MCVerification ---------------------------
(***************************************************************************)
(* Verification on small instances.                                        *)
(***************************************************************************)
EXTENDS Verification, TLC

Symmetry == Permutations(Photos)

=============================================================================
