------------------------------- MODULE MCFades -------------------------------
(* Instances of Fades for TLC. *)
EXTENDS Fades, TLC

MCSymmetry == Permutations(Fades) \union Permutations(Sets) \union Permutations(Targets)
==============================================================================
