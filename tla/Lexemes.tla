------------------------------ MODULE Lexemes ------------------------------
(***************************************************************************)
(* What a lexeme is, without automata: the languages that src/machine.c    *)
(* recognizes as predicates on words, the longest lexeme at a place of a   *)
(* line, and the token it stands for.                                      *)
(*                                                                         *)
(* A character is a string; a line is a sequence of characters, and what   *)
(* is read just behind it is NUL.  EOFC is the character that the source   *)
(* file compares with EOF.                                                 *)
(***************************************************************************)
EXTENDS Integers, Sequences, FiniteSets

CONSTANTS
  Letter, Digit, Blank,    \* is_alpha, is_numeric, is_whitespace
  Other,                   \* characters that no machine knows
  Reserved,                \* the reserved words: a function from words to tokens
  MAX_ID_LEN, MAX_INT_LEN,
  MAX_REAL_XX_LEN, MAX_REAL_YY_LEN, MAX_REAL_ZZ_LEN

NUL  == "NUL"
EOFC == "EOF"

Plus        == {"+", "-"}
Single      == {"+", "-", "*", "/", ",", ";", "(", ")", "[", "]", ".", EOFC}
Punctuation == Single \cup {":", ">", "<", "="}

\* The classes of characters that the automata tell apart are disjoint; the "E"
\* of a long real is no digit.
ASSUME ClassAssumption ==
  /\ "E" \notin Digit
  /\ Letter \cap Digit = {} /\ Letter \cap Blank = {} /\ Digit \cap Blank = {}
  /\ (Letter \cup Digit \cup Blank \cup Other) \cap (Punctuation \cup {NUL}) = {}

Char  == Letter \cup Digit \cup Blank \cup Punctuation \cup Other
Alnum == Letter \cup Digit

Limit == [id  |-> MAX_ID_LEN, int |-> MAX_INT_LEN, xx |-> MAX_REAL_XX_LEN,
          yy |-> MAX_REAL_YY_LEN, zz |-> MAX_REAL_ZZ_LEN]

ASSUME LimitAssumption == \A k \in DOMAIN Limit : Limit[k] \in Nat \ {0}

\* A token: its type and its attribute; for TOKEN_LEXERR that is the error.
Tok(t, a)  == [type |-> t, attribute |-> a]
LexErr(e)  == Tok("LEXERR", e)
NoMatch    == LexErr("NO_MATCH")
Num(kind)  == Tok("NUM", kind)

Word == {"PROGRAM", "VAR", "ARRAY", "OF", "INTEGER", "REAL", "PROCEDURE", "FUNCTION",
         "BEGIN", "END", "IF", "THEN", "ELSE", "WHILE", "DO", "NOT"}
TokenType ==
  Word \cup {"WHITESPACE", "ID", "NUM", "RELOP", "MULOP", "ADDOP", "ASSIGNOP", "SEMICOLON",
             "COLON", "COMMA", "PERIOD", "LPAREN", "RPAREN", "LBRACKET", "RBRACKET",
             "EOF", "LEXERR", "EMPTY"}
Attribute ==
  {"none", "INT", "REAL", "LONGREAL", "GE", "LE", "NE", "AND", "OR", "DIV", "MOD",
   "NO_MATCH", "ID_TOO_LONG", "INT_TOO_LONG", "XX_TOO_LONG", "YY_TOO_LONG",
   "ZZ_TOO_LONG", "LEADING_ZERO"} \cup Punctuation
LexToken == [type : TokenType, attribute : Attribute]

\* What int_to_token_type gives for a reserved word: a keyword or an operator.
ASSUME ReservedAssumption ==
  \A w \in DOMAIN Reserved :
    Reserved[w] \in [type : Word \cup {"ADDOP", "MULOP"}, attribute : Attribute]

-----------------------------------------------------------------------------
(* The languages.                                                          *)

All(w, class) == \A k \in DOMAIN w : w[k] \in class

IsInt(w)   == w # <<>> /\ All(w, Digit)
IsName(w)  == w # <<>> /\ w[1] \in Letter /\ All(w, Alnum)
IsBlank(w) == w # <<>> /\ All(w, Blank)

Upto(w, k)    == SubSeq(w, 1, k - 1)
Beyond(w, k)  == SubSeq(w, k + 1, Len(w))
Unsigned(w)   == IF w # <<>> /\ w[1] \in Plus THEN Tail(w) ELSE w

\* digits . digits, with d the place of the period
IsReal(w, d) == w[d] = "." /\ IsInt(Upto(w, d)) /\ IsInt(Beyond(w, d))

\* digits . digits E digits, the fraction may be empty and the exponent signed
IsLongReal(w, d, e) ==
  /\ w[d] = "." /\ w[e] = "E" /\ d < e
  /\ IsInt(Upto(w, d))
  /\ All(SubSeq(w, d + 1, e - 1), Digit)
  /\ IsInt(Unsigned(Beyond(w, e)))

Symbols == { <<c>> : c \in Punctuation } \cup
           { <<":", "=">>, <<">", "=">>, <<"<", "=">>, <<"<", ">">> }

IsLexeme(w) ==
  \/ IsBlank(w) \/ IsName(w) \/ IsInt(w) \/ w \in Symbols
  \/ \E d \in DOMAIN w : IsReal(w, d) \/ \E e \in DOMAIN w : IsLongReal(w, d, e)

-----------------------------------------------------------------------------
(* The token of a lexeme.                                                  *)

SingleToken(ch) ==
  CASE ch \in {"+", "-"} -> Tok("ADDOP", ch)
    [] ch \in {"*", "/"} -> Tok("MULOP", ch)
    [] ch = ","  -> Tok("COMMA", "none")
    [] ch = ";"  -> Tok("SEMICOLON", "none")
    [] ch = "("  -> Tok("LPAREN", "none")
    [] ch = ")"  -> Tok("RPAREN", "none")
    [] ch = "["  -> Tok("LBRACKET", "none")
    [] ch = "]"  -> Tok("RBRACKET", "none")
    [] ch = "."  -> Tok("PERIOD", "none")
    [] OTHER     -> Tok("EOF", "none")

SymbolToken(w) ==
  CASE w = <<":">>          -> Tok("COLON", "none")
    [] w = <<":", "=">>     -> Tok("ASSIGNOP", "none")
    [] w = <<"<", ">">>     -> Tok("RELOP", "NE")
    [] w = <<"<", "=">>     -> Tok("RELOP", "LE")
    [] w = <<">", "=">>     -> Tok("RELOP", "GE")
    [] w \in {<<"<">>, <<">">>, <<"=">>} -> Tok("RELOP", w[1])
    [] OTHER -> SingleToken(w[1])

NameToken(w) ==
  IF w \in DOMAIN Reserved THEN Reserved[w]
  ELSE IF Len(w) > Limit.id THEN LexErr("ID_TOO_LONG") ELSE Tok("ID", "none")

IntToken(w) ==
  IF Len(w) > Limit.int THEN LexErr("INT_TOO_LONG")
  ELSE IF w[1] = "0" /\ Len(w) > 1 THEN LexErr("LEADING_ZERO") ELSE Num("INT")

\* A real or long real with these lengths of its parts; a leading zero is
\* refused whatever follows it, so 0.5 is too.
FloatToken(first, xx, yy, zz, kind) ==
  IF xx > Limit.xx THEN LexErr("XX_TOO_LONG")
  ELSE IF yy > Limit.yy THEN LexErr("YY_TOO_LONG")
  ELSE IF zz > Limit.zz THEN LexErr("ZZ_TOO_LONG")
  ELSE IF first = "0" THEN LexErr("LEADING_ZERO") ELSE Num(kind)

\* Where a real has its period; the exponent of a long real.
Period(w)   == CHOOSE d \in DOMAIN w : w[d] = "."
Exponent(w) == CHOOSE e \in DOMAIN w : w[e] = "E"

TokenOf(w) ==
  CASE IsBlank(w)   -> Tok("WHITESPACE", "none")
    [] IsName(w)    -> NameToken(w)
    [] IsInt(w)     -> IntToken(w)
    [] w \in Symbols -> SymbolToken(w)
    [] ~IsLexeme(w) -> NoMatch
    [] OTHER ->
         LET d == Period(w) IN
         IF "E" \in {w[k] : k \in DOMAIN w}
         THEN LET e == Exponent(w) IN
              FloatToken(w[1], d - 1, e - d - 1, Len(Unsigned(Beyond(w, e))), "LONGREAL")
         ELSE FloatToken(w[1], d - 1, Len(w) - d, 0, "REAL")

-----------------------------------------------------------------------------
\* The end (exclusive) of the longest lexeme that starts at i; a character
\* that starts none stands alone.
LexemeEnd(line, i) ==
  LET ends == { j \in i + 1 .. Len(line) + 1 : IsLexeme(SubSeq(line, i, j - 1)) }
  IN  IF ends = {} THEN i + 1 ELSE CHOOSE j \in ends : \A k \in ends : k <= j

Lexeme(line, i) ==
  LET j == LexemeEnd(line, i)
  IN  [from |-> i, to |-> j, token |-> TokenOf(SubSeq(line, i, j - 1))]
=============================================================================
