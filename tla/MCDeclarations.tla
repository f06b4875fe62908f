---------------------------- MODULE MCDeclarations ----------------------------
(* Declarations on a small instance.                                       *)
EXTENDS Declarations, TLC

NameSymmetry == Permutations(Name)
=============================================================================
