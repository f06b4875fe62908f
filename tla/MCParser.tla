------------------------------ MODULE MCParser ------------------------------
(* The parser on short sources.                                            *)
EXTENDS Parser

Program == <<"PROGRAM", "ID", "LPAREN", "ID", "RPAREN", "SEMICOLON">>

Function == Program \o <<"FUNCTION", "ID">>
Body     == Program \o <<"BEGIN">>

\* The source begins in the middle of a program head, of a declaration, of a
\* function, or of a statement.
MCBeginnings == {
  <<"PROGRAM">>,
  Program,
  Program \o <<"VAR", "ID", "COLON">>,
  Program \o <<"VAR", "ID", "COLON", "ARRAY", "LBRACKET", "NUM", "PERIOD", "PERIOD">>,
  Function,
  Function \o <<"LPAREN", "ID", "COLON", "INTEGER">>,
  Function \o <<"COLON", "INTEGER", "SEMICOLON", "BEGIN", "END">>,
  Function \o <<"COLON", "INTEGER", "SEMICOLON", "VAR", "ID", "COLON">>,
  Body,
  Body \o <<"IF">>,
  Body \o <<"IF", "ID", "RELOP", "NUM", "THEN", "ID", "ASSIGNOP", "NUM">>,
  Body \o <<"ID", "ASSIGNOP", "ID", "LPAREN", "ID">> }

MCAlphabet == Token \ {"EOF"}
=============================================================================
