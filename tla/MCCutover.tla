----------------------------- MODULE MCCutover -----------------------------
(* Instances of Cutover.                                                   *)
EXTENDS Cutover, TLC

Symmetry == Permutations(Writers) \union Permutations(Persons)
=============================================================================
