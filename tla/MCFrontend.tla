----------------------------- MODULE MCFrontend -----------------------------
(* The parser, with the attribute that counts parameters, and the symbol   *)
(* table together, on short sources.                                       *)
EXTENDS HandUp

Program == <<"PROGRAM", "ID", "LPAREN", "ID", "RPAREN", "SEMICOLON">>
Head1   == <<"FUNCTION", "ID", "COLON", "INTEGER", "SEMICOLON">>
Body0   == <<"BEGIN", "END", "SEMICOLON">>
BadHead == <<"FUNCTION", "NUM", "SEMICOLON">>
Param   == <<"ID", "COLON", "INTEGER", "SEMICOLON">>

\* The source begins before the functions, among the parameters of one, inside
\* one, after one, or after function heads without a name.
MCBeginnings == {
  <<"PROGRAM", "ID", "LPAREN">>,
  Program,
  Program \o <<"FUNCTION", "ID">>,
  Program \o <<"FUNCTION", "ID", "LPAREN">> \o Param,
  Program \o <<"FUNCTION", "ID", "LPAREN">> \o Param \o Param,
  Program \o Head1,
  Program \o Head1 \o Head1,
  Program \o Head1 \o Body0,
  Program \o Head1 \o Head1 \o Body0 \o Body0,
  Program \o Head1 \o BadHead,
  Program \o Head1 \o Body0 \o <<"FUNCTION", "NUM", "VAR", "ID", "COLON">>,
  Program \o BadHead \o BadHead }

\* Tokens of declarations, and those recovery stops at.
MCAlphabet == {"ID", "VAR", "FUNCTION", "INTEGER", "BEGIN", "END", "SEMICOLON",
               "COLON", "PERIOD", "LPAREN", "RPAREN"}

NameSymmetry == Permutations(Name)
=============================================================================
