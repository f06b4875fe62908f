----------------------------- MODULE MCMachines -----------------------------
(* Short lines over every class of characters, longer ones that start with *)
(* a digit and may become a real or a long real.                           *)
EXTENDS Machines

Mixed   == {"a", "E", "0", "1", " ", "#", ".", "+", "*", ":", "<", ">", "=", EOFC}
Numeric == {"0", "1", ".", "E", "+"}

Short == UNION {[1 .. n -> Mixed] : n \in 1 .. 3}
Long  == { <<d>> \o w : d \in Digit, w \in UNION {[1 .. n -> Numeric] : n \in 3 .. 5} }
MCLines == Short \cup Long

MCReserved == [w \in {<<"a", "E">>, <<"a", "a", "a">>} |->
                 IF Len(w) = 2 THEN Tok("MULOP", "AND") ELSE Tok("BEGIN", "none")]
=============================================================================
