----------------------------- MODULE MCEvidence -----------------------------
(***************************************************************************)
(* Evidence on small instances.  Requests of one kind are interchangeable. *)
(***************************************************************************)
EXTENDS Evidence, TLC

Symmetry == Permutations(Photos) \cup Permutations(Sketches) \cup Permutations(Deletes)

=============================================================================
