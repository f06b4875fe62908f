----------------------------- MODULE MCCompiler -----------------------------
(* The whole program on short sources.                                     *)
EXTENDS Compiler, GrammarFacts

Start == <<"PROGRAM", "ID", "LPAREN", "ID", "RPAREN", "SEMICOLON">>

MCBeginnings == { <<"PROGRAM">>, Start \o <<"BEGIN">>, Start \o <<"BEGIN", "END", "PERIOD">> }

MCAlphabet == {"ID", "VAR", "COLON", "INTEGER", "FUNCTION", "BEGIN", "ASSIGNOP", "NUM", "SEMICOLON",
               "END", "PERIOD"}

\* Memory that malloc did not clear: any of the named bits, or others, of which
\* the exit status shows some, or none, and which make the number negative.
AnyMemory == { [low |-> bits, high |-> 0] : bits \in SUBSET Kind } \cup
             { [low |-> {}, high |-> n] : n \in {1, 32, -1, -32} }
=============================================================================
