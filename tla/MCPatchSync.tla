---------------------------- MODULE MCPatchSync ----------------------------
(***************************************************************************)
(* PatchSync on small instances.  Patches are interchangeable, and so are *)
(* the photos that are there to begin with.                                *)
(***************************************************************************)
EXTENDS PatchSync, TLC

Symmetry == Permutations(Patches) \cup Permutations(Earlier)

=============================================================================
