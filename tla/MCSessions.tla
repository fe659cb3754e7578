----------------------------- MODULE MCSessions -----------------------------
(***************************************************************************)
(* Sessions on small instances.  Creations, guests and codes are           *)
(* interchangeable.                                                        *)
(***************************************************************************)
EXTENDS Sessions, TLC

Symmetry == Permutations(Creators) \cup Permutations(Guests) \cup Permutations(Codes)

=============================================================================
