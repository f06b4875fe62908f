------------------------------ MODULE MCTyping ------------------------------
(* One symbol of every kind of type, and a name that is not declared.      *)
EXTENDS Typing

Sym(t, p) == [type |-> t, params |-> p]

MCSymbols ==
  [x \in {"a", "f", "g", "bad"} |->
     CASE x = "a"   -> Sym(Array("AREAL", 1, 2), <<>>)
       [] x = "f"   -> Sym(Function("INT"), <<Plain("INT"), Array("AREAL", 1, 2)>>)
       [] x = "g"   -> Sym(Function("REAL"), <<Err>>)
       [] x = "bad" -> Sym(Err, <<>>)]
=============================================================================
