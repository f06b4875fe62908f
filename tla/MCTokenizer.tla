---------------------------- MODULE MCTokenizer ----------------------------
(* All short files, and some in which a line is cut in two or is blank.    *)
EXTENDS Tokenizer

Chars == {"a", " ", "#", "+", EOFC, NL, CR}

MCSources ==
  UNION {[1 .. n -> Chars] : n \in 0 .. 2} \cup
  [1 .. 3 -> {"a", " ", "#", EOFC, NL}] \cup
  { <<"a", "a", "a", "a", NL, "+">>, <<"a", "#", " ", NL, "#", "a", "+">>,
    <<" ", NL, NL, CR, NL, "a">>, <<"a", "+", "a", "+", "a", NL>>,
    <<"a", NL, "#", NL, "+", "#">>,
    <<"a", NL, EOFC, "+">>, <<"a", CR, "#", NL, "a">> }

MCJunk == {<<>>, <<"a">>, <<"#">>}
MCReserved == [w \in {<<"a", "a">>} |-> Tok("OF", "none")]
=============================================================================
