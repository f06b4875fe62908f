------------------------------ MODULE MCListing ------------------------------
(* Scalars, an array that fits and arrays at the limits of an 8-bit int.   *)
EXTENDS Listing

Decl(elem, array, from, to) == [elem |-> elem, array |-> array, from |-> from, to |-> to]

\* "wide" needs more bytes than an int counts, "long" has a bound that is
\* too big for an int, "empty" is refused.
MCDeclared ==
  [t \in VarType |->
    CASE t = "INT"   -> Decl("INT", FALSE, 0, 0)
      [] t = "array" -> Decl("REAL", TRUE, 1, 15)
      [] t = "wide"  -> Decl("INT", TRUE, 0, 100)
      [] t = "long"  -> Decl("INT", TRUE, 0, 258)
      [] t = "empty" -> Decl("REAL", TRUE, 3, 2)]
=============================================================================
