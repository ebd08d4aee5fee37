---------------------------- MODULE MCModelBuild ----------------------------
(* Small instances of ModelBuild for TLC. *)
EXTENDS ModelBuild, TLC

Symmetry == Permutations(Build)
=============================================================================
