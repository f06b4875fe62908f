---------------------------- MODULE MCSymbolTable ----------------------------
(* Small instances of SymbolTable for TLC.                                 *)
EXTENDS SymbolTable, TLC

\* Names are only compared.
NameSymmetry == Permutations(Name)
=============================================================================
