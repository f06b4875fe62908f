--------------------------- MODULE MachinesProofs ---------------------------
(***************************************************************************)
(* The automata of machine.c stay on the line, use it up in order, and     *)
(* find the longest lexeme at each place, for every line, alphabet, set of *)
(* reserved words and limits.                                              *)
(***************************************************************************)
EXTENDS Machines, TLAPS, SequenceTheorems

Piece == [from : Nat, to : Nat, token : LexToken]

-----------------------------------------------------------------------------
(* Characters and tokens.                                                  *)

\* Behind the characters of the line there is only NUL.
LEMMA AtLine ==
  ASSUME line \in Lines, NEW p \in Nat
  PROVE  /\ Len(line) \in Nat /\ End \in Nat
         /\ At(p) \in Char \cup {NUL}
         /\ At(p) # NUL => p \in 1 .. Len(line) /\ p < End
<1>1. line \in Seq(Char) /\ line # <<>>
  BY LinesAssumption
<1>2. Len(line) \in Nat
  BY <1>1
<1>. QED
  BY <1>1, <1>2 DEF At, CharAt, End, NUL

\* A character of one of the classes is not NUL.
LEMMA ClassIsNotNul ==
  \A ch \in Letter \cup Digit \cup Blank \cup Punctuation : ch # NUL
BY ClassAssumption DEF NUL, Punctuation, Single, EOFC

LEMMA EIsNotNul == "E" # NUL
BY DEF NUL

\* What the tables give is a token, and neither the empty one nor NO_MATCH.
LEMMA NameTokenIsToken ==
  ASSUME NEW w PROVE NameToken(w) \in LexToken /\ NameToken(w) # Empty
BY ReservedAssumption DEF NameToken, LexErr, Tok, Empty, LexToken, TokenType, Attribute, Word

LEMMA BlankTokenIsToken == Tok("WHITESPACE", "none") \in LexToken
BY DEF Tok, LexToken, TokenType, Attribute

LEMMA IntTokenIsToken ==
  ASSUME NEW w PROVE IntToken(w) \in LexToken /\ IntToken(w) # Empty
BY DEF IntToken, LexErr, Num, Tok, Empty, LexToken, TokenType, Attribute, Word

LEMMA KindIsAttribute == "REAL" \in Attribute /\ "LONGREAL" \in Attribute
BY DEF Attribute

LEMMA FloatTokenIsToken ==
  ASSUME NEW first, NEW xx, NEW yy, NEW zz, NEW kind \in Attribute
  PROVE  FloatToken(first, xx, yy, zz, kind) \in LexToken /\ FloatToken(first, xx, yy, zz, kind) # Empty
BY DEF FloatToken, LexErr, Num, Tok, Empty, LexToken, TokenType, Attribute, Word

LEMMA OperatorTokens ==
  /\ {":", "=", ">", "<"} \subseteq Punctuation
  /\ {Tok("ASSIGNOP", "none"), Tok("COLON", "none")} \subseteq LexToken \ {Empty}
  /\ \A a \in {"GE", "LE", "NE"} \cup Punctuation : Tok("RELOP", a) \in LexToken \ {Empty}
BY DEF Punctuation, Tok, Empty, LexToken, TokenType, Attribute

LEMMA SingleTokenIsToken ==
  ASSUME NEW ch \in Single PROVE SingleToken(ch) \in LexToken /\ SingleToken(ch) # Empty
BY DEF SingleToken, Tok, Empty, LexToken, TokenType, Attribute, Word, Punctuation, Single, EOFC

-----------------------------------------------------------------------------
(* The steps of the machines.                                              *)

\* A turn of a machine's loop leaves the line and the lexemes found alone.
LEMMA TurnKeepsLexemes ==
  ASSUME PlaceInvariant, UNCHANGED <<line, in, m, out>>
  PROVE  /\ line' \in Lines /\ End' = End /\ LexemesTile'
         /\ m' \in Machine \cup {"none"} /\ in' \in Nat
         /\ out' \in Seq([from : Nat, to : Nat, token : LexToken])
BY DEF PlaceInvariant, MTypeOK, LexemesTile, End

LEMMA WhitespaceKeeps == PlaceInvariant /\ WhitespaceMachine => PlaceInvariant'
<1>. SUFFICES ASSUME PlaceInvariant, WhitespaceMachine PROVE PlaceInvariant'
  OBVIOUS
<1>. USE DEF PlaceInvariant
<1>1. /\ line' \in Lines /\ End' = End /\ LexemesTile' /\ m = "whitespace" /\ m' = m
      /\ m' \in Machine \cup {"none"} /\ in' \in Nat
      /\ out' \in Seq([from : Nat, to : Nat, token : LexToken])
  BY TurnKeepsLexemes DEF WhitespaceMachine, Runs
<1>2. in \in 1 .. Len(line) /\ f \in Nat /\ c \in Char \cup {NUL} /\ (c # NUL => f < End) /\ End = Len(line) + 1 /\ End \in Nat
  BY AtLine DEF Position, MTypeOK, c, WhitespaceMachine, Runs, End
<1>3. MTypeOK'
  <2>1. /\ s \in States[m] /\ token \in LexToken /\ dot \in Nat /\ e \in Nat /\ sign \in Nat
    BY <1>1 DEF MTypeOK, Machine
  <2>2. /\ UNCHANGED <<dot, e, sign>>
        /\ \/ s = 1 /\ GoTo(IF c \in Blank THEN 2 ELSE 0)
           \/ s = 2 /\ c \in Blank /\ GoTo(2)
           \/ s = 2 /\ c \notin Blank /\ Accept(Tok("WHITESPACE", "none"), f)
    BY DEF WhitespaceMachine, marks
  <2>3. s' \in 0 .. 2 /\ f' \in Nat /\ token' \in LexToken
    <3>1. CASE s = 1 /\ GoTo(IF c \in Blank THEN 2 ELSE 0)
      BY <1>2, <2>1, <3>1 DEF GoTo
    <3>2. CASE s = 2 /\ GoTo(2)
      BY <1>2, <2>1, <3>2 DEF GoTo
    <3>3. CASE s = 2 /\ Accept(Tok("WHITESPACE", "none"), f)
      BY <1>2, <2>1, <3>3, BlankTokenIsToken DEF Accept
    <3>. QED
      BY <2>2, <3>1, <3>2, <3>3
  <2>. QED
    BY <1>1, <2>1, <2>2, <2>3 DEF MTypeOK, States, Machine
<1>4. Position'
  BY <1>1, <1>2, ClassIsNotNul DEF Position, Returns, Looks, WhitespaceMachine, Runs, GoTo, Accept, Empty, NoMatch, LexErr, Tok
<1>5. MarksAreSet'
  BY <1>1 DEF MarksAreSet
<1>. QED
  BY <1>1, <1>3, <1>4, <1>5

LEMMA IdResKeeps == PlaceInvariant /\ IdResMachine => PlaceInvariant'
<1>. SUFFICES ASSUME PlaceInvariant, IdResMachine PROVE PlaceInvariant'
  OBVIOUS
<1>. USE DEF PlaceInvariant
<1>1. /\ line' \in Lines /\ End' = End /\ LexemesTile' /\ m = "idres" /\ m' = m
      /\ m' \in Machine \cup {"none"} /\ in' \in Nat
      /\ out' \in Seq([from : Nat, to : Nat, token : LexToken])
  BY TurnKeepsLexemes DEF IdResMachine, Runs
<1>2. in \in 1 .. Len(line) /\ f \in Nat /\ c \in Char \cup {NUL} /\ (c # NUL => f < End)
      /\ End = Len(line) + 1 /\ End \in Nat
  BY AtLine DEF Position, MTypeOK, c, IdResMachine, Runs, End
<1>3. MTypeOK'
  <2>1. /\ s \in States[m] /\ token \in LexToken /\ dot \in Nat /\ e \in Nat /\ sign \in Nat
    BY <1>1 DEF MTypeOK, Machine
  <2>2. /\ UNCHANGED <<dot, e, sign>>
        /\ \/ s = 1 /\ GoTo(IF c \in Letter THEN 2 ELSE 0)
           \/ s = 2 /\ c \in Alnum /\ GoTo(2)
           \/ s = 2 /\ c \notin Alnum /\ Accept(NameToken(Lexed(in, f)), f)
    BY DEF IdResMachine, marks
  <2>3. s' \in 0 .. 2 /\ f' \in Nat /\ token' \in LexToken
    <3>1. CASE s = 1 /\ GoTo(IF c \in Letter THEN 2 ELSE 0)
      BY <1>2, <2>1, <3>1 DEF GoTo
    <3>2. CASE s = 2 /\ GoTo(2)
      BY <1>2, <2>1, <3>2 DEF GoTo
    <3>3. CASE s = 2 /\ Accept(NameToken(Lexed(in, f)), f)
      BY <1>2, <2>1, <3>3, NameTokenIsToken DEF Accept
    <3>. QED
      BY <2>2, <3>1, <3>2, <3>3
  <2>. QED
    BY <1>1, <2>1, <2>2, <2>3 DEF MTypeOK, States, Machine
<1>4. Position'
  BY <1>1, <1>2, ClassIsNotNul, NameTokenIsToken DEF Position, Returns, Looks, MTypeOK, IdResMachine, Runs, GoTo, Accept,
     Empty, NoMatch, LexErr, Tok, marks, MarksAreSet, Alnum
<1>5. MarksAreSet'
  BY <1>1, <1>2, NameTokenIsToken DEF MarksAreSet, Position, Looks, MTypeOK, IdResMachine, Runs, GoTo, Accept, Empty, Tok, marks, Alnum
<1>. QED
  BY <1>1, <1>3, <1>4, <1>5

LEMMA IntKeeps == PlaceInvariant /\ IntMachine => PlaceInvariant'
<1>. SUFFICES ASSUME PlaceInvariant, IntMachine PROVE PlaceInvariant'
  OBVIOUS
<1>. USE DEF PlaceInvariant
<1>1. /\ line' \in Lines /\ End' = End /\ LexemesTile' /\ m = "int" /\ m' = m
      /\ m' \in Machine \cup {"none"} /\ in' \in Nat
      /\ out' \in Seq([from : Nat, to : Nat, token : LexToken])
  BY TurnKeepsLexemes DEF IntMachine, Runs
<1>2. in \in 1 .. Len(line) /\ f \in Nat /\ c \in Char \cup {NUL} /\ (c # NUL => f < End)
      /\ End = Len(line) + 1 /\ End \in Nat
  BY AtLine DEF Position, MTypeOK, c, IntMachine, Runs, End
<1>3. MTypeOK'
  <2>1. /\ s \in States[m] /\ token \in LexToken /\ dot \in Nat /\ e \in Nat /\ sign \in Nat
    BY <1>1 DEF MTypeOK, Machine
  <2>2. /\ UNCHANGED <<dot, e, sign>>
        /\ \/ s = 1 /\ GoTo(IF c \in Digit THEN 2 ELSE 0)
           \/ s = 2 /\ c \in Digit /\ GoTo(2)
           \/ s = 2 /\ c \notin Digit /\ Accept(IntToken(Lexed(in, f)), f)
    BY DEF IntMachine, marks
  <2>3. s' \in 0 .. 2 /\ f' \in Nat /\ token' \in LexToken
    <3>1. CASE s = 1 /\ GoTo(IF c \in Digit THEN 2 ELSE 0)
      BY <1>2, <2>1, <3>1 DEF GoTo
    <3>2. CASE s = 2 /\ GoTo(2)
      BY <1>2, <2>1, <3>2 DEF GoTo
    <3>3. CASE s = 2 /\ Accept(IntToken(Lexed(in, f)), f)
      BY <1>2, <2>1, <3>3, IntTokenIsToken DEF Accept
    <3>. QED
      BY <2>2, <3>1, <3>2, <3>3
  <2>. QED
    BY <1>1, <2>1, <2>2, <2>3 DEF MTypeOK, States, Machine
<1>4. Position'
  BY <1>1, <1>2, ClassIsNotNul, IntTokenIsToken DEF Position, Returns, Looks, MTypeOK, IntMachine, Runs, GoTo, Accept,
     Empty, NoMatch, LexErr, Tok, marks, MarksAreSet
<1>5. MarksAreSet'
  BY <1>1, <1>2, IntTokenIsToken DEF MarksAreSet, Position, Looks, MTypeOK, IntMachine, Runs, GoTo, Accept, Empty, Tok, marks
<1>. QED
  BY <1>1, <1>3, <1>4, <1>5

LEMMA RealKeeps == PlaceInvariant /\ RealMachine => PlaceInvariant'
<1>. SUFFICES ASSUME PlaceInvariant, RealMachine PROVE PlaceInvariant'
  OBVIOUS
<1>1. /\ line' \in Lines /\ End' = End /\ LexemesTile' /\ m = "real" /\ m' = m
      /\ m' \in Machine \cup {"none"} /\ in' = in /\ line' = line /\ token = Empty
      /\ out' \in Seq([from : Nat, to : Nat, token : LexToken])
  BY TurnKeepsLexemes DEF RealMachine, Runs
<1>2. /\ in \in 1 .. Len(line) /\ f \in Nat /\ c \in Char \cup {NUL} /\ (c # NUL => f < End)
      /\ End = Len(line) + 1 /\ End \in Nat
  BY <1>1, AtLine DEF PlaceInvariant, Position, MTypeOK, c, End
<1>3. /\ in \in Nat /\ dot \in Nat /\ e \in Nat /\ sign \in Nat /\ token \in LexToken /\ s \in States[m]
  BY <1>1 DEF PlaceInvariant, MTypeOK, Machine
<1>4. /\ s = 1 => f = in
      /\ s \notin {0, 1} => in < f
      /\ Looks => f <= End
      /\ s \in 3 .. 5 => in < dot /\ dot < f
      /\ s = 5 => dot + 1 < f /\ f <= End + 1
  BY <1>1 DEF PlaceInvariant, Position, MarksAreSet, Machine
<1>5. c \in Digit \cup Plus \cup Punctuation => f < End
  BY <1>2, ClassIsNotNul DEF Plus, Punctuation, Single
<1>. DEFINE Goal == MTypeOK' /\ Position' /\ MarksAreSet'
<1>6. ASSUME s = 1, GoTo(IF c \in Digit THEN 2 ELSE 0), UNCHANGED marks PROVE Goal
  <2>1. /\ s' \in {0, 2} /\ f' = f + 1 /\ f' <= End
        /\ token' = token /\ UNCHANGED <<dot, e, sign>>
    BY <1>1, <1>2, <1>3, <1>4, <1>5, <1>6 DEF GoTo, Accept, marks, Looks, Empty, Tok
  <2>2. MTypeOK'
    BY <1>1, <1>2, <1>3, <1>4, <2>1 DEF MTypeOK, States, Machine
  <2>3. Position' /\ MarksAreSet'
    BY <1>1, <1>2, <1>3, <1>4, <1>6, <2>1 DEF Position, MarksAreSet, Looks, Returns
  <2>. QED
    BY <2>2, <2>3
<1>7. ASSUME s = 2, c = ".", GoTo(3), MarkDot PROVE Goal
  <2>1. /\ s' = 3 /\ f' = f + 1 /\ f' <= End
        /\ token' = token /\ dot' = f /\ e' = e /\ sign' = sign
    BY <1>1, <1>2, <1>3, <1>4, <1>5, <1>7 DEF GoTo, Accept, marks, Looks, Empty, Tok, MarkDot, Punctuation, Single
  <2>2. MTypeOK'
    BY <1>1, <1>2, <1>3, <1>4, <2>1 DEF MTypeOK, States, Machine
  <2>3. Position' /\ MarksAreSet'
    BY <1>1, <1>2, <1>3, <1>4, <1>7, <2>1 DEF Position, MarksAreSet, Looks, Returns
  <2>. QED
    BY <2>2, <2>3
<1>8. ASSUME s = 2, c # ".", GoTo(IF c \in Digit THEN 2 ELSE 0), UNCHANGED marks PROVE Goal
  <2>1. /\ s' \in {0, 2} /\ f' = f + 1 /\ (s' = 2 => f' <= End)
        /\ token' = token /\ UNCHANGED <<dot, e, sign>>
    BY <1>1, <1>2, <1>3, <1>4, <1>5, <1>8 DEF GoTo, Accept, marks, Looks, Empty, Tok
  <2>2. MTypeOK'
    BY <1>1, <1>2, <1>3, <1>4, <2>1 DEF MTypeOK, States, Machine
  <2>3. Position' /\ MarksAreSet'
    BY <1>1, <1>2, <1>3, <1>4, <1>8, <2>1 DEF Position, MarksAreSet, Looks, Returns
  <2>. QED
    BY <2>2, <2>3
<1>9. ASSUME s = 3, c \in Digit, GoTo(4), UNCHANGED marks PROVE Goal
  <2>1. /\ s' = 4 /\ f' = f + 1 /\ f' <= End
        /\ token' = token /\ UNCHANGED <<dot, e, sign>>
    BY <1>1, <1>2, <1>3, <1>4, <1>5, <1>9 DEF GoTo, Accept, marks, Looks, Empty, Tok
  <2>2. MTypeOK'
    BY <1>1, <1>2, <1>3, <1>4, <2>1 DEF MTypeOK, States, Machine
  <2>3. Position' /\ MarksAreSet'
    BY <1>1, <1>2, <1>3, <1>4, <1>9, <2>1 DEF Position, MarksAreSet, Looks, Returns
  <2>. QED
    BY <2>2, <2>3
<1>10. ASSUME s = 3, c \notin Digit, s' = 0, UNCHANGED <<f, token, marks>> PROVE Goal
  <2>1. /\ s' = 0 /\ f' = f
        /\ token' = token /\ UNCHANGED <<dot, e, sign>>
    BY <1>1, <1>2, <1>3, <1>4, <1>5, <1>10 DEF GoTo, Accept, marks, Looks, Empty, Tok
  <2>2. MTypeOK'
    BY <1>1, <1>2, <1>3, <1>4, <2>1 DEF MTypeOK, States, Machine
  <2>3. Position' /\ MarksAreSet'
    BY <1>1, <1>2, <1>3, <1>4, <1>10, <2>1 DEF Position, MarksAreSet, Looks, Returns
  <2>. QED
    BY <2>2, <2>3
<1>11. ASSUME s = 4, GoTo(IF c \in Digit THEN 4 ELSE 5), UNCHANGED marks PROVE Goal
  <2>1. /\ s' \in {4, 5} /\ f' = f + 1 /\ f' <= End + 1 /\ (s' = 4 => f' <= End)
        /\ token' = token /\ UNCHANGED <<dot, e, sign>>
    BY <1>1, <1>2, <1>3, <1>4, <1>5, <1>11 DEF GoTo, Accept, marks, Looks, Empty, Tok
  <2>2. MTypeOK'
    BY <1>1, <1>2, <1>3, <1>4, <2>1 DEF MTypeOK, States, Machine
  <2>3. Position' /\ MarksAreSet'
    BY <1>1, <1>2, <1>3, <1>4, <1>11, <2>1 DEF Position, MarksAreSet, Looks, Returns
  <2>. QED
    BY <2>2, <2>3
<1>12. ASSUME s = 5, Accept(FloatToken(line[in], dot - in, (f - 1) - dot - 1, 0, "REAL"), f - 1),
         UNCHANGED marks PROVE Goal
  <2>1. /\ s' = s /\ token' \in LexToken /\ token' # Empty
        /\ f' = f - 1 /\ in < f' /\ f' <= End /\ f' \in Nat
        /\ UNCHANGED <<dot, e, sign>>
    BY <1>1, <1>2, <1>3, <1>4, <1>5, <1>12, FloatTokenIsToken, KindIsAttribute DEF GoTo, Accept, marks, Looks, Empty, Tok
  <2>2. MTypeOK'
    BY <1>1, <1>2, <1>3, <1>4, <2>1 DEF MTypeOK, States, Machine
  <2>3. Position' /\ MarksAreSet'
    BY <1>1, <1>2, <1>3, <1>4, <1>12, <2>1 DEF Position, MarksAreSet, Looks, Returns
  <2>. QED
    BY <2>2, <2>3
<1>13. Goal
  BY <1>6, <1>7, <1>8, <1>9, <1>10, <1>11, <1>12 DEF RealMachine
<1>. QED
  BY <1>1, <1>13 DEF PlaceInvariant

LEMMA LongRealKeeps == PlaceInvariant /\ LongRealMachine => PlaceInvariant'
<1>. SUFFICES ASSUME PlaceInvariant, LongRealMachine PROVE PlaceInvariant'
  OBVIOUS
<1>1. /\ line' \in Lines /\ End' = End /\ LexemesTile' /\ m = "longreal" /\ m' = m
      /\ m' \in Machine \cup {"none"} /\ in' = in /\ line' = line /\ token = Empty
      /\ out' \in Seq([from : Nat, to : Nat, token : LexToken])
  BY TurnKeepsLexemes DEF LongRealMachine, Runs
<1>2. /\ in \in 1 .. Len(line) /\ f \in Nat /\ c \in Char \cup {NUL} /\ (c # NUL => f < End)
      /\ End = Len(line) + 1 /\ End \in Nat
  BY <1>1, AtLine DEF PlaceInvariant, Position, MTypeOK, c, End
<1>3. /\ in \in Nat /\ dot \in Nat /\ e \in Nat /\ sign \in Nat /\ token \in LexToken /\ s \in States[m]
  BY <1>1 DEF PlaceInvariant, MTypeOK, Machine
<1>4. /\ s = 1 => f = in
      /\ s \notin {0, 1} => in < f
      /\ Looks => f <= End
      /\ s \in 3 .. 7 => in < dot /\ dot < f
      /\ s \in 4 .. 7 => dot < e /\ e < f
      /\ s = 7 => e + 1 < f /\ f <= End + 1
  BY <1>1 DEF PlaceInvariant, Position, MarksAreSet, Machine
<1>5. c \in Digit \cup Plus \cup Punctuation => f < End
  BY <1>2, ClassIsNotNul DEF Plus, Punctuation, Single
<1>. DEFINE Goal == MTypeOK' /\ Position' /\ MarksAreSet'
<1>6. ASSUME s = 1, GoTo(IF c \in Digit THEN 2 ELSE 0), UNCHANGED marks PROVE Goal
  <2>1. /\ s' \in {0, 2} /\ f' = f + 1 /\ f' <= End
        /\ token' = token /\ UNCHANGED <<dot, e, sign>>
    BY <1>1, <1>2, <1>3, <1>4, <1>5, <1>6 DEF GoTo, Accept, marks, Looks, Empty, Tok
  <2>2. MTypeOK'
    BY <1>1, <1>2, <1>3, <1>4, <2>1 DEF MTypeOK, States, Machine
  <2>3. Position' /\ MarksAreSet'
    BY <1>1, <1>2, <1>3, <1>4, <1>6, <2>1 DEF Position, MarksAreSet, Looks, Returns
  <2>. QED
    BY <2>2, <2>3
<1>7. ASSUME s = 2, c = ".", GoTo(3), MarkDot PROVE Goal
  <2>1. /\ s' = 3 /\ f' = f + 1 /\ f' <= End
        /\ token' = token /\ dot' = f /\ e' = e /\ sign' = sign
    BY <1>1, <1>2, <1>3, <1>4, <1>5, <1>7 DEF GoTo, Accept, marks, Looks, Empty, Tok, MarkDot, Punctuation, Single
  <2>2. MTypeOK'
    BY <1>1, <1>2, <1>3, <1>4, <2>1 DEF MTypeOK, States, Machine
  <2>3. Position' /\ MarksAreSet'
    BY <1>1, <1>2, <1>3, <1>4, <1>7, <2>1 DEF Position, MarksAreSet, Looks, Returns
  <2>. QED
    BY <2>2, <2>3
<1>8. ASSUME s = 2, c # ".", GoTo(IF c \in Digit THEN 2 ELSE 0), UNCHANGED marks PROVE Goal
  <2>1. /\ s' \in {0, 2} /\ f' = f + 1 /\ (s' = 2 => f' <= End)
        /\ token' = token /\ UNCHANGED <<dot, e, sign>>
    BY <1>1, <1>2, <1>3, <1>4, <1>5, <1>8 DEF GoTo, Accept, marks, Looks, Empty, Tok
  <2>2. MTypeOK'
    BY <1>1, <1>2, <1>3, <1>4, <2>1 DEF MTypeOK, States, Machine
  <2>3. Position' /\ MarksAreSet'
    BY <1>1, <1>2, <1>3, <1>4, <1>8, <2>1 DEF Position, MarksAreSet, Looks, Returns
  <2>. QED
    BY <2>2, <2>3
<1>9. ASSUME s = 3, c = "E", GoTo(4), MarkE PROVE Goal
  <2>1. /\ s' = 4 /\ f' = f + 1 /\ f' <= End
        /\ token' = token /\ e' = f /\ dot' = dot /\ sign' = sign
    BY <1>1, <1>2, <1>3, <1>4, <1>5, <1>9, EIsNotNul DEF GoTo, Accept, marks, Looks, Empty, Tok, MarkE
  <2>2. MTypeOK'
    BY <1>1, <1>2, <1>3, <1>4, <2>1 DEF MTypeOK, States, Machine
  <2>3. Position' /\ MarksAreSet'
    BY <1>1, <1>2, <1>3, <1>4, <1>9, <2>1 DEF Position, MarksAreSet, Looks, Returns
  <2>. QED
    BY <2>2, <2>3
<1>10. ASSUME s = 3, c # "E", GoTo(IF c \in Digit THEN 3 ELSE 0), UNCHANGED marks PROVE Goal
  <2>1. /\ s' \in {0, 3} /\ f' = f + 1 /\ (s' = 3 => f' <= End)
        /\ token' = token /\ UNCHANGED <<dot, e, sign>>
    BY <1>1, <1>2, <1>3, <1>4, <1>5, <1>10 DEF GoTo, Accept, marks, Looks, Empty, Tok
  <2>2. MTypeOK'
    BY <1>1, <1>2, <1>3, <1>4, <2>1 DEF MTypeOK, States, Machine
  <2>3. Position' /\ MarksAreSet'
    BY <1>1, <1>2, <1>3, <1>4, <1>10, <2>1 DEF Position, MarksAreSet, Looks, Returns
  <2>. QED
    BY <2>2, <2>3
<1>11. ASSUME s = 4, UNCHANGED marks, GoTo(IF c \in Plus THEN 5 ELSE IF c \in Digit THEN 6 ELSE 0) PROVE Goal
  <2>1. /\ s' \in {0, 5, 6} /\ f' = f + 1 /\ (s' # 0 => f' <= End)
        /\ token' = token /\ UNCHANGED <<dot, e, sign>>
    BY <1>1, <1>2, <1>3, <1>4, <1>5, <1>11 DEF GoTo, Accept, marks, Looks, Empty, Tok
  <2>2. MTypeOK'
    BY <1>1, <1>2, <1>3, <1>4, <2>1 DEF MTypeOK, States, Machine
  <2>3. Position' /\ MarksAreSet'
    BY <1>1, <1>2, <1>3, <1>4, <1>11, <2>1 DEF Position, MarksAreSet, Looks, Returns
  <2>. QED
    BY <2>2, <2>3
<1>12. ASSUME s = 5, GoTo(IF c \in Digit THEN 6 ELSE 0), MarkSign PROVE Goal
  <2>1. /\ s' \in {0, 6} /\ f' = f + 1 /\ (s' # 0 => f' <= End)
        /\ token' = token /\ dot' = dot /\ e' = e /\ sign' = 1
    BY <1>1, <1>2, <1>3, <1>4, <1>5, <1>12 DEF GoTo, Accept, marks, Looks, Empty, Tok, MarkSign
  <2>2. MTypeOK'
    BY <1>1, <1>2, <1>3, <1>4, <2>1 DEF MTypeOK, States, Machine
  <2>3. Position' /\ MarksAreSet'
    BY <1>1, <1>2, <1>3, <1>4, <1>12, <2>1 DEF Position, MarksAreSet, Looks, Returns
  <2>. QED
    BY <2>2, <2>3
<1>13. ASSUME s = 6, GoTo(IF c \in Digit THEN 6 ELSE 7), UNCHANGED marks PROVE Goal
  <2>1. /\ s' \in {6, 7} /\ f' = f + 1 /\ f' <= End + 1 /\ (s' = 6 => f' <= End)
        /\ token' = token /\ UNCHANGED <<dot, e, sign>>
    BY <1>1, <1>2, <1>3, <1>4, <1>5, <1>13 DEF GoTo, Accept, marks, Looks, Empty, Tok
  <2>2. MTypeOK'
    BY <1>1, <1>2, <1>3, <1>4, <2>1 DEF MTypeOK, States, Machine
  <2>3. Position' /\ MarksAreSet'
    BY <1>1, <1>2, <1>3, <1>4, <1>13, <2>1 DEF Position, MarksAreSet, Looks, Returns
  <2>. QED
    BY <2>2, <2>3
<1>14. ASSUME s = 7, Accept(FloatToken(line[in], dot - in, e - dot - 1, (f - 1) - e - sign - 1, "LONGREAL"), f - 1),
         UNCHANGED marks PROVE Goal
  <2>1. /\ s' = s /\ token' \in LexToken /\ token' # Empty
        /\ f' = f - 1 /\ in < f' /\ f' <= End /\ f' \in Nat
        /\ UNCHANGED <<dot, e, sign>>
    BY <1>1, <1>2, <1>3, <1>4, <1>5, <1>14, FloatTokenIsToken, KindIsAttribute DEF GoTo, Accept, marks, Looks, Empty, Tok
  <2>2. MTypeOK'
    BY <1>1, <1>2, <1>3, <1>4, <2>1 DEF MTypeOK, States, Machine
  <2>3. Position' /\ MarksAreSet'
    BY <1>1, <1>2, <1>3, <1>4, <1>14, <2>1 DEF Position, MarksAreSet, Looks, Returns
  <2>. QED
    BY <2>2, <2>3
<1>15. Goal
  BY <1>6, <1>7, <1>8, <1>9, <1>10, <1>11, <1>12, <1>13, <1>14 DEF LongRealMachine
<1>. QED
  BY <1>1, <1>15 DEF PlaceInvariant

LEMMA CatchAllKeeps == PlaceInvariant /\ CatchAllMachine => PlaceInvariant'
<1>. SUFFICES ASSUME PlaceInvariant, CatchAllMachine PROVE PlaceInvariant'
  OBVIOUS
<1>1. /\ line' \in Lines /\ End' = End /\ LexemesTile' /\ m = "catchall" /\ m' = m
      /\ UNCHANGED marks
      /\ m' \in Machine \cup {"none"} /\ in' = in /\ line' = line /\ token = Empty
      /\ out' \in Seq([from : Nat, to : Nat, token : LexToken])
  BY TurnKeepsLexemes DEF CatchAllMachine, Runs
<1>2. /\ in \in 1 .. Len(line) /\ f \in Nat /\ c \in Char \cup {NUL} /\ (c # NUL => f < End)
      /\ End = Len(line) + 1 /\ End \in Nat
  BY <1>1, AtLine DEF PlaceInvariant, Position, MTypeOK, c, End
<1>3. /\ in \in Nat /\ dot \in Nat /\ e \in Nat /\ sign \in Nat /\ token \in LexToken /\ s \in States[m]
  BY <1>1 DEF PlaceInvariant, MTypeOK, Machine
<1>4. /\ s = 1 => f = in
      /\ s \notin {0, 1} => in < f
      /\ Looks => f <= End
      /\ s \in {0, 5} => f = in + 1
      /\ s \in 3 .. 5 => At(f - 1) \in {">", "<", "="}
  BY <1>1 DEF PlaceInvariant, Position, MarksAreSet, Machine
<1>5. c \in Digit \cup Plus \cup Punctuation => f < End
  BY <1>2, ClassIsNotNul DEF Plus, Punctuation, Single
<1>. DEFINE Goal == MTypeOK' /\ Position' /\ MarksAreSet'
<1>6. ASSUME s = 1, c \in Single, Accept(SingleToken(c), f + 1), UNCHANGED marks PROVE Goal
  <2>1. /\ s' = s /\ token' \in LexToken /\ token' # Empty
        /\ f' = f + 1 /\ in < f' /\ f' <= End /\ f' \in Nat
        /\ UNCHANGED <<dot, e, sign>>
    BY <1>1, <1>2, <1>3, <1>4, <1>5, <1>6, SingleTokenIsToken DEF GoTo, Accept, marks, Looks, Empty, Tok, Punctuation
  <2>2. MTypeOK'
    BY <1>1, <1>2, <1>3, <1>4, <2>1 DEF MTypeOK, States, Machine
  <2>3. Position' /\ MarksAreSet'
    BY <1>1, <1>2, <1>3, <1>4, <1>6, <2>1 DEF Position, MarksAreSet, Looks, Returns, At, CharAt, c
  <2>. QED
    BY <2>2, <2>3
<1>7. ASSUME s = 1, c \notin Single, UNCHANGED marks,
         GoTo(CASE c = ":" -> 2 [] c = ">" -> 3 [] c = "<" -> 4 [] c = "=" -> 5 [] OTHER -> 0) PROVE Goal
  <2>1. /\ s' \in {0, 2, 3, 4, 5} /\ f' = f + 1 /\ f' = in + 1 /\ f' <= End /\ f' - 1 = f
        /\ s' \in 3 .. 5 => c \in {">", "<", "="}
        /\ token' = token /\ UNCHANGED <<dot, e, sign>>
    <3>1. f' = f + 1 /\ token' = token /\ UNCHANGED <<dot, e, sign>>
      BY <1>7 DEF GoTo, marks
    <3>2. f = in /\ in \in 1 .. Len(line) /\ End = Len(line) + 1
      BY <1>2, <1>4, <1>7
    <3>3. s' = CASE c = ":" -> 2 [] c = ">" -> 3 [] c = "<" -> 4 [] c = "=" -> 5 [] OTHER -> 0
      BY <1>7 DEF GoTo
    <3>4. CASE c \in {":", ">", "<", "="}
      BY <3>1, <3>2, <3>3, <3>4
    <3>5. CASE c \notin {":", ">", "<", "="}
      BY <3>1, <3>2, <3>3, <3>5
    <3>. QED
      BY <3>4, <3>5
  <2>2. MTypeOK'
    BY <1>1, <1>2, <1>3, <1>4, <2>1 DEF MTypeOK, States, Machine
  <2>3. Position' /\ MarksAreSet'
    BY <1>1, <1>2, <1>3, <1>4, <1>7, <2>1 DEF Position, MarksAreSet, Looks, Returns, At, CharAt, c
  <2>. QED
    BY <2>2, <2>3
<1>8. ASSUME s = 2, c = "=", Accept(Tok("ASSIGNOP", "none"), f + 1), UNCHANGED marks PROVE Goal
  <2>1. /\ s' = s /\ token' \in LexToken /\ token' # Empty
        /\ f' = f + 1 /\ in < f' /\ f' <= End /\ f' \in Nat
        /\ UNCHANGED <<dot, e, sign>>
    BY <1>1, <1>2, <1>3, <1>4, <1>5, <1>8, OperatorTokens DEF GoTo, Accept, marks, Looks, Empty, Tok
  <2>2. MTypeOK'
    BY <1>1, <1>2, <1>3, <1>4, <2>1 DEF MTypeOK, States, Machine
  <2>3. Position' /\ MarksAreSet'
    BY <1>1, <1>2, <1>3, <1>4, <1>8, <2>1 DEF Position, MarksAreSet, Looks, Returns, At, CharAt, c
  <2>. QED
    BY <2>2, <2>3
<1>9. ASSUME s = 2, c # "=", Accept(Tok("COLON", "none"), f), UNCHANGED marks PROVE Goal
  <2>1. /\ s' = s /\ token' \in LexToken /\ token' # Empty
        /\ f' = f /\ in < f' /\ f' <= End /\ f' \in Nat
        /\ UNCHANGED <<dot, e, sign>>
    BY <1>1, <1>2, <1>3, <1>4, <1>5, <1>9, OperatorTokens DEF GoTo, Accept, marks, Looks, Empty, Tok
  <2>2. MTypeOK'
    BY <1>1, <1>2, <1>3, <1>4, <2>1 DEF MTypeOK, States, Machine
  <2>3. Position' /\ MarksAreSet'
    BY <1>1, <1>2, <1>3, <1>4, <1>9, <2>1 DEF Position, MarksAreSet, Looks, Returns, At, CharAt, c
  <2>. QED
    BY <2>2, <2>3
<1>10. ASSUME s \in {3, 4}, c = "=", Accept(Tok("RELOP", IF s = 3 THEN "GE" ELSE "LE"), f + 1), UNCHANGED marks PROVE Goal
  <2>1. /\ s' = s /\ token' \in LexToken /\ token' # Empty
        /\ f' = f + 1 /\ in < f' /\ f' <= End /\ f' \in Nat
        /\ UNCHANGED <<dot, e, sign>>
    BY <1>1, <1>2, <1>3, <1>4, <1>5, <1>10, OperatorTokens DEF GoTo, Accept, marks, Looks, Empty, Tok
  <2>2. MTypeOK'
    BY <1>1, <1>2, <1>3, <1>4, <2>1 DEF MTypeOK, States, Machine
  <2>3. Position' /\ MarksAreSet'
    BY <1>1, <1>2, <1>3, <1>4, <1>10, <2>1 DEF Position, MarksAreSet, Looks, Returns, At, CharAt, c
  <2>. QED
    BY <2>2, <2>3
<1>11. ASSUME s = 4, c = ">", Accept(Tok("RELOP", "NE"), f + 1), UNCHANGED marks PROVE Goal
  <2>1. /\ s' = s /\ token' \in LexToken /\ token' # Empty
        /\ f' = f + 1 /\ in < f' /\ f' <= End /\ f' \in Nat
        /\ UNCHANGED <<dot, e, sign>>
    BY <1>1, <1>2, <1>3, <1>4, <1>5, <1>11, OperatorTokens DEF GoTo, Accept, marks, Looks, Empty, Tok
  <2>2. MTypeOK'
    BY <1>1, <1>2, <1>3, <1>4, <2>1 DEF MTypeOK, States, Machine
  <2>3. Position' /\ MarksAreSet'
    BY <1>1, <1>2, <1>3, <1>4, <1>11, <2>1 DEF Position, MarksAreSet, Looks, Returns, At, CharAt, c
  <2>. QED
    BY <2>2, <2>3
<1>12. ASSUME s \in 3 .. 5, Accept(Tok("RELOP", At(f - 1)), f), UNCHANGED marks PROVE Goal
  <2>1. /\ s' = s /\ token' \in LexToken /\ token' # Empty
        /\ f' = f /\ in < f' /\ f' <= End /\ f' \in Nat
        /\ UNCHANGED <<dot, e, sign>>
    BY <1>1, <1>2, <1>3, <1>4, <1>5, <1>12, OperatorTokens DEF GoTo, Accept, marks, Looks, Empty, Tok
  <2>2. MTypeOK'
    BY <1>1, <1>2, <1>3, <1>4, <2>1 DEF MTypeOK, States, Machine
  <2>3. Position' /\ MarksAreSet'
    BY <1>1, <1>2, <1>3, <1>4, <1>12, <2>1 DEF Position, MarksAreSet, Looks, Returns, At, CharAt, c
  <2>. QED
    BY <2>2, <2>3
<1>13. Goal
  BY <1>6, <1>7, <1>8, <1>9, <1>10, <1>11, <1>12 DEF CatchAllMachine
<1>. QED
  BY <1>1, <1>13 DEF PlaceInvariant

LEMMA FailKeeps == PlaceInvariant /\ Fail => PlaceInvariant'
<1>. SUFFICES ASSUME PlaceInvariant, Fail PROVE PlaceInvariant'
  OBVIOUS
<1>1. /\ line' \in Lines /\ End' = End /\ LexemesTile' /\ m \in Machine /\ m' = m
      /\ in' = in /\ in \in Nat /\ in \in 1 .. Len(line) /\ line' = line
      /\ out' \in Seq([from : Nat, to : Nat, token : LexToken])
  BY TurnKeepsLexemes DEF Fail, PlaceInvariant, MTypeOK, Position, Machine
<1>2. /\ token' = NoMatch /\ NoMatch # Empty /\ NoMatch \in LexToken
      /\ s' = s /\ f' = f /\ UNCHANGED <<dot, e, sign>>
  BY DEF Fail, Accept, marks, NoMatch, LexErr, Tok, Empty, LexToken, TokenType, Attribute
<1>3. /\ m = "catchall" => f = in + 1
      /\ End = Len(line) + 1 /\ Len(line) \in Nat
  BY <1>1, AtLine DEF Fail, PlaceInvariant, MTypeOK, Position, Machine, End
<1>4. MTypeOK' /\ MarksAreSet'
  BY <1>1, <1>2 DEF PlaceInvariant, MTypeOK, MarksAreSet, Fail
<1>5. Position'
  BY <1>1, <1>2, <1>3 DEF Position, Returns, Machine
<1>. QED
  BY <1>1, <1>4, <1>5 DEF PlaceInvariant

\* A machine that starts at a character of the line is where it should be.
LEMMA StartIsInPosition ==
  ASSUME NEW machine \in Machine, line \in Lines, line' = line,
         in' \in 1 .. Len(line), Start(machine, in')
  PROVE  /\ m' \in Machine /\ {in', f', dot', e', sign'} \subseteq Nat /\ s' \in States[m']
         /\ token' \in LexToken /\ Position' /\ MarksAreSet'
<1>1. /\ m' = machine /\ s' = 1 /\ f' = in' /\ dot' = 0 /\ e' = 0 /\ sign' = 0 /\ token' = Empty
  BY DEF Start, Unset
<1>2. Len(line) \in Nat /\ End = Len(line) + 1 /\ End' = End /\ in' \in Nat
  BY AtLine DEF End
<1>3. Empty \in LexToken
  BY DEF Empty, Tok, LexToken, TokenType, Attribute
<1>4. Position'
  BY <1>1, <1>2 DEF Position, Looks, Returns, Machine
<1>. QED
  BY <1>1, <1>2, <1>3, <1>4 DEF MarksAreSet, States, Machine

LEMMA TryNextKeeps == PlaceInvariant /\ TryNext => PlaceInvariant'
<1>. SUFFICES ASSUME PlaceInvariant, TryNext PROVE PlaceInvariant'
  OBVIOUS
<1>1. NoMatch # Empty
  BY DEF NoMatch, LexErr, Empty, Tok
<1>2. m \in Machine \ {"catchall"} /\ in \in 1 .. Len(line) /\ in' = in
  BY <1>1 DEF TryNext, PlaceInvariant, MTypeOK, Position
<1>3. NextMachine[m] \in Machine
  BY <1>2 DEF NextMachine, Machine
<1>4. /\ m' \in Machine /\ {in', f', dot', e', sign'} \subseteq Nat /\ s' \in States[m']
      /\ token' \in LexToken /\ Position' /\ MarksAreSet'
  BY <1>2, <1>3, StartIsInPosition DEF TryNext, PlaceInvariant
<1>5. LexemesTile' /\ line' \in Lines /\ out' = out
  BY <1>2 DEF TryNext, PlaceInvariant, LexemesTile, End
<1>6. MTypeOK'
  BY <1>4, <1>5 DEF PlaceInvariant, MTypeOK
<1>. QED
  BY <1>4, <1>5, <1>6 DEF PlaceInvariant

LEMMA ReturnKeeps == PlaceInvariant /\ Return => PlaceInvariant'
<1>. SUFFICES ASSUME PlaceInvariant, Return PROVE PlaceInvariant'
  OBVIOUS
<1>. DEFINE piece == [from |-> in, to |-> f, token |-> token]
<1>1. /\ line' = line /\ line \in Lines /\ End' = End /\ End = Len(line) + 1 /\ Len(line) \in Nat
      /\ in \in Nat /\ f \in Nat /\ in < f /\ f <= End /\ token # Empty
  BY AtLine DEF Return, Returns, PlaceInvariant, MTypeOK, Position, End
<1>2. piece \in [from : Nat, to : Nat, token : LexToken]
  BY <1>1 DEF PlaceInvariant, MTypeOK
<1>3. out \in Seq([from : Nat, to : Nat, token : LexToken])
  BY DEF PlaceInvariant, MTypeOK
<1>4. /\ out' = Append(out, piece) /\ in' = f
  BY DEF Return
<1>5. /\ out' \in Seq([from : Nat, to : Nat, token : LexToken])
      /\ Len(out') = Len(out) + 1 /\ Len(out) \in Nat /\ DOMAIN out' = 1 .. Len(out) + 1
      /\ out'[Len(out) + 1] = piece
      /\ \A k \in 1 .. Len(out) : out'[k] = out[k]
  BY <1>2, <1>3, <1>4
<1>6. LexemesTile'
  <2>1. in = IF Len(out) = 0 THEN 1 ELSE out[Len(out)].to
    BY <1>3 DEF PlaceInvariant, LexemesTile
  <2>2. ASSUME NEW k \in DOMAIN out'
        PROVE  /\ out'[k].from = IF k = 1 THEN 1 ELSE out'[k - 1].to
               /\ out'[k].from < out'[k].to /\ out'[k].to <= End'
    <3>1. CASE k = Len(out) + 1
      BY <1>1, <1>5, <2>1, <3>1
    <3>2. CASE k \in 1 .. Len(out)
      <4>1. /\ out[k].from = IF k = 1 THEN 1 ELSE out[k - 1].to
            /\ out[k].from < out[k].to /\ out[k].to <= End
        BY <1>3, <3>2 DEF PlaceInvariant, LexemesTile
      <4>2. out'[k] = out[k] /\ (k # 1 => k - 1 \in 1 .. Len(out))
        BY <1>5, <3>2
      <4>3. k # 1 => out'[k - 1] = out[k - 1]
        BY <1>5, <4>2
      <4>. QED
        BY <1>1, <4>1, <4>2, <4>3
    <3>. QED
      BY <1>5, <3>1, <3>2
  <2>3. in' = IF out' = <<>> THEN 1 ELSE out'[Len(out')].to
    BY <1>4, <1>5
  <2>. QED
    BY <2>2, <2>3 DEF LexemesTile
<1>7. CASE At(f) # NUL /\ Start("whitespace", f)
  <2>1. in' \in 1 .. Len(line)
    BY <1>1, <1>4, <1>7, AtLine
  <2>2. /\ m' \in Machine /\ {in', f', dot', e', sign'} \subseteq Nat /\ s' \in States[m']
        /\ token' \in LexToken /\ Position' /\ MarksAreSet'
    BY <1>1, <1>4, <1>7, <2>1, StartIsInPosition DEF Machine
  <2>. QED
    BY <1>1, <1>5, <1>6, <2>2 DEF PlaceInvariant, MTypeOK
<1>8. CASE At(f) = NUL /\ m' = "none" /\ token' = Empty /\ UNCHANGED <<s, f, marks>>
  <2>1. f = End
    <3>. SUFFICES ASSUME f # End PROVE FALSE
      OBVIOUS
    <3>1. f \in 1 .. Len(line)
      BY <1>1
    <3>2. line[f] \in Char
      BY <1>1, <3>1, LinesAssumption
    <3>3. NUL \notin Char
      BY ClassAssumption DEF Char, NUL, Punctuation, Single, EOFC
    <3>. QED
      BY <1>8, <3>1, <3>2, <3>3 DEF At, CharAt
  <2>2. Empty \in LexToken
    BY DEF Empty, Tok, LexToken, TokenType, Attribute
  <2>3. MTypeOK'
    BY <1>1, <1>4, <1>5, <1>8, <2>2 DEF PlaceInvariant, MTypeOK, marks, Machine
  <2>4. Position' /\ MarksAreSet'
    BY <1>1, <1>4, <1>8, <2>1 DEF Position, MarksAreSet, Looks, Returns
  <2>. QED
    BY <1>1, <1>6, <2>3, <2>4 DEF PlaceInvariant
<1>. QED
  BY <1>7, <1>8 DEF Return

-----------------------------------------------------------------------------
(* Words and places.                                                       *)

\* The word that lies from i up to j.
LEMMA WordAt ==
  ASSUME NEW w \in Seq(Char), NEW i \in 1 .. Len(w), NEW j \in i .. Len(w) + 1
  PROVE  /\ SubSeq(w, i, j - 1) \in Seq(Char)
         /\ Len(SubSeq(w, i, j - 1)) = j - i
         /\ DOMAIN SubSeq(w, i, j - 1) = 1 .. j - i
         /\ \A k \in 1 .. j - i : SubSeq(w, i, j - 1)[k] = w[i + k - 1]
         /\ \A k \in 1 .. j - i : SubSeq(w, i, j - 1)[k] = CharAt(w, i + k - 1)
<1>1. Len(w) \in Nat /\ DOMAIN w = 1 .. Len(w)
  OBVIOUS
<1>2. /\ SubSeq(w, i, j - 1) \in Seq(Char)
      /\ Len(SubSeq(w, i, j - 1)) = IF i <= j - 1 THEN (j - 1) - i + 1 ELSE 0
      /\ \A k \in 1 .. (j - 1) - i + 1 : SubSeq(w, i, j - 1)[k] = w[i + k - 1]
  <2>1. i \in 1 .. Len(w) + 1 /\ j - 1 \in i - 1 .. Len(w)
    BY <1>1
  <2>. QED
    BY <2>1, SubSeqProperties
<1>3. Len(SubSeq(w, i, j - 1)) = j - i /\ (j - 1) - i + 1 = j - i
  BY <1>1, <1>2
<1>4. \A k \in 1 .. j - i : i + k - 1 \in DOMAIN w
  BY <1>1
<1>. QED
  BY <1>2, <1>3, <1>4 DEF CharAt

\* Its characters are of a class when those that lie there are.
LEMMA AllIsSpan ==
  ASSUME NEW w \in Seq(Char), NEW i \in 1 .. Len(w), NEW j \in i .. Len(w) + 1, NEW class
  PROVE  All(SubSeq(w, i, j - 1), class) <=> Span(w, class, i, j)
<1>. DEFINE v == SubSeq(w, i, j - 1)
<1>1. DOMAIN v = 1 .. j - i /\ \A k \in 1 .. j - i : v[k] = CharAt(w, i + k - 1)
  BY WordAt
<1>2. ASSUME All(v, class), NEW k \in i .. j - 1 PROVE CharAt(w, k) \in class
  <2>1. k - i + 1 \in 1 .. j - i /\ i + (k - i + 1) - 1 = k
    OBVIOUS
  <2>. QED
    BY <1>1, <1>2, <2>1 DEF All
<1>3. ASSUME Span(w, class, i, j), NEW k \in DOMAIN v PROVE v[k] \in class
  <2>1. k \in 1 .. j - i /\ i + k - 1 \in i .. j - 1
    BY <1>1
  <2>. QED
    BY <1>1, <1>3, <2>1 DEF Span
<1>. QED
  BY <1>2, <1>3 DEF All, Span

\* A word with a first character is not empty.
LEMMA WordIsNotEmpty ==
  ASSUME NEW w \in Seq(Char), NEW i \in 1 .. Len(w), NEW j \in i .. Len(w) + 1
  PROVE  (SubSeq(w, i, j - 1) # <<>>) <=> i < j
<1>1. SubSeq(w, i, j - 1) \in Seq(Char) /\ Len(SubSeq(w, i, j - 1)) = j - i
  BY WordAt
<1>2. \A v \in Seq(Char) : v = <<>> <=> Len(v) = 0
  OBVIOUS
<1>. QED
  BY <1>1, <1>2

LEMMA SimpleKinds ==
  ASSUME NEW w \in Seq(Char), NEW i \in 1 .. Len(w), NEW j \in i .. Len(w) + 1
  PROVE  /\ IsBlank(SubSeq(w, i, j - 1)) <=> i < j /\ Span(w, Blank, i, j)
         /\ IsInt(SubSeq(w, i, j - 1)) <=> i < j /\ Span(w, Digit, i, j)
         /\ IsName(SubSeq(w, i, j - 1)) <=> i < j /\ CharAt(w, i) \in Letter /\ Span(w, Alnum, i, j)
<1>1. i < j => SubSeq(w, i, j - 1)[1] = CharAt(w, i)
  <2>1. \A k \in 1 .. j - i : SubSeq(w, i, j - 1)[k] = CharAt(w, i + k - 1)
    BY WordAt
  <2>2. i < j => 1 \in 1 .. j - i /\ i + 1 - 1 = i
    OBVIOUS
  <2>3. i < j => SubSeq(w, i, j - 1)[1] = CharAt(w, i + 1 - 1)
    BY <2>1, <2>2
  <2>. QED
    BY <2>2, <2>3
<1>. QED
  BY <1>1, AllIsSpan, WordIsNotEmpty DEF IsBlank, IsInt, IsName

\* The parts of a word before and behind one of its characters.
LEMMA PartsOfWord ==
  ASSUME NEW w \in Seq(Char), NEW i \in 1 .. Len(w), NEW j \in i .. Len(w) + 1, NEW d \in i .. j - 1
  PROVE  /\ SubSeq(w, i, j - 1)[d - i + 1] = CharAt(w, d)
         /\ Upto(SubSeq(w, i, j - 1), d - i + 1) = SubSeq(w, i, d - 1)
         /\ d + 1 < j => Beyond(SubSeq(w, i, j - 1), d - i + 1) = SubSeq(w, d + 1, j - 1)
         /\ d + 1 = j => Beyond(SubSeq(w, i, j - 1), d - i + 1) = <<>>
<1>. DEFINE v == SubSeq(w, i, j - 1)
            q == d - i + 1
<1>0. Len(w) \in Nat
  OBVIOUS
<1>1. /\ v \in Seq(Char) /\ Len(v) = j - i
      /\ \A k \in 1 .. j - i : v[k] = CharAt(w, i + k - 1)
  BY WordAt
<1>2. q \in 1 .. j - i /\ i + q - 1 = d
  OBVIOUS
<1>3. v[q] = CharAt(w, d)
  BY <1>1, <1>2
<1>4. i \in 1 .. Len(w) /\ j - 1 \in 1 .. Len(w) /\ (j - 1) - i + 1 = j - i
  BY <1>0
<1>5. SubSeq(v, 1, q - 1) = SubSeq(w, i, d - 1)
  <2>1. CASE q = 1
    <3>1. q - 1 = 0 /\ d - 1 = i - 1
      BY <2>1
    <3>2. SubSeq(v, 1, 0) = <<>>
      BY <1>1, SubSeqEmpty
    <3>3. SubSeq(w, i, i - 1) = <<>>
      BY <1>4, SubSeqEmpty
    <3>. QED
      BY <3>1, <3>2, <3>3
  <2>2. CASE q # 1
    <3>1. 1 \in 1 .. (j - 1) - i + 1 /\ q - 1 \in 1 .. (j - 1) - i + 1 /\ i + 1 - 1 = i /\ i + (q - 1) - 1 = d - 1
      BY <1>2, <2>2
    <3>2. SubSeq(v, 1, q - 1) = SubSeq(w, i + 1 - 1, i + (q - 1) - 1)
      BY <1>4, <3>1, SubSeqOfSubSeq
    <3>. QED
      BY <3>1, <3>2
  <2>. QED
    BY <2>1, <2>2
<1>6. ASSUME d + 1 < j PROVE SubSeq(v, q + 1, Len(v)) = SubSeq(w, d + 1, j - 1)
  <2>1. q + 1 \in 1 .. (j - 1) - i + 1 /\ j - i \in 1 .. (j - 1) - i + 1 /\ i + (q + 1) - 1 = d + 1 /\ i + (j - i) - 1 = j - 1
    BY <1>2, <1>6
  <2>2. SubSeq(v, q + 1, j - i) = SubSeq(w, i + (q + 1) - 1, i + (j - i) - 1)
    BY <1>4, <2>1, SubSeqOfSubSeq
  <2>. QED
    BY <1>1, <2>1, <2>2
<1>7. ASSUME d + 1 = j PROVE SubSeq(v, q + 1, Len(v)) = <<>>
  <2>1. q + 1 > Len(v) /\ q + 1 \in Int /\ Len(v) \in Int
    BY <1>1, <1>2, <1>7
  <2>. QED
    BY <1>1, <2>1, SubSeqEmpty
<1>. QED
  BY <1>3, <1>5, <1>6, <1>7 DEF Upto, Beyond

\* A real has one period, where the digits end.
LEMMA RealKind ==
  ASSUME NEW w \in Seq(Char), NEW i \in 1 .. Len(w), NEW j \in i .. Len(w) + 1, NEW d \in i .. j - 1
  PROVE  IsReal(SubSeq(w, i, j - 1), d - i + 1) <=> RealAt(w, i, d, j)
<1>. DEFINE v == SubSeq(w, i, j - 1)
            q == d - i + 1
<1>1. /\ v[q] = CharAt(w, d)
      /\ Upto(v, q) = SubSeq(w, i, d - 1)
      /\ d + 1 < j => Beyond(v, q) = SubSeq(w, d + 1, j - 1)
      /\ d + 1 = j => Beyond(v, q) = <<>>
  BY PartsOfWord
<1>2. IsInt(Upto(v, q)) <=> i < d /\ Span(w, Digit, i, d)
  <2>1. d \in i .. Len(w) + 1
    OBVIOUS
  <2>. QED
    BY <1>1, <2>1, SimpleKinds
<1>3. IsInt(Beyond(v, q)) <=> d + 1 < j /\ Span(w, Digit, d + 1, j)
  <2>1. CASE d + 1 < j
    <3>1. d + 1 \in 1 .. Len(w) /\ j \in d + 1 .. Len(w) + 1
      BY <2>1
    <3>. QED
      BY <1>1, <2>1, <3>1, SimpleKinds
  <2>2. CASE d + 1 = j
    BY <1>1, <2>2 DEF IsInt
  <2>. QED
    BY <2>1, <2>2
<1>. QED
  BY <1>1, <1>2, <1>3 DEF IsReal, RealAt, WholeAt

\* The exponent of a long real, without its sign.
LEMMA ExponentOfWord ==
  ASSUME NEW w \in Seq(Char), NEW i \in 1 .. Len(w), NEW j \in i .. Len(w) + 1, NEW x \in i .. j - 1
  PROVE  LET u == Unsigned(Beyond(SubSeq(w, i, j - 1), x - i + 1))
             g == ExponentFrom(w, x)
         IN  /\ IsInt(u) <=> g < j /\ Span(w, Digit, g, j)
             /\ g < j => Len(u) = j - g
<1>. DEFINE b == Beyond(SubSeq(w, i, j - 1), x - i + 1)
            u == Unsigned(b)
            g == ExponentFrom(w, x)
<1>. SUFFICES (IsInt(u) <=> g < j /\ Span(w, Digit, g, j)) /\ (g < j => Len(u) = j - g)
  OBVIOUS
<1>0. Len(w) \in Nat /\ g \in {x + 1, x + 2}
  BY DEF ExponentFrom
<1>1. CASE x + 1 = j
  <2>1. b = <<>>
    BY <1>1, PartsOfWord
  <2>2. u = <<>> /\ ~(g < j)
    BY <1>0, <1>1, <2>1 DEF Unsigned
  <2>. QED
    BY <2>2 DEF IsInt
<1>2. CASE x + 1 < j
  <2>1. b = SubSeq(w, x + 1, j - 1)
    BY <1>2, PartsOfWord
  <2>2. x + 1 \in 1 .. Len(w) /\ j \in x + 1 .. Len(w) + 1
    BY <1>0, <1>2
  <2>3. /\ b \in Seq(Char) /\ Len(b) = j - (x + 1)
        /\ \A k \in 1 .. j - (x + 1) : b[k] = CharAt(w, x + 1 + k - 1)
    <3>1. /\ SubSeq(w, x + 1, j - 1) \in Seq(Char) /\ Len(SubSeq(w, x + 1, j - 1)) = j - (x + 1)
          /\ \A k \in 1 .. j - (x + 1) : SubSeq(w, x + 1, j - 1)[k] = CharAt(w, x + 1 + k - 1)
      BY <2>2, WordAt
    <3>. HIDE DEF b
    <3>. QED
      BY <2>1, <3>1
  <2>4. b # <<>>
    BY <1>2, <2>1, <2>2, WordIsNotEmpty
  <2>5. b[1] = CharAt(w, x + 1)
    <3>1. 1 \in 1 .. j - (x + 1) /\ x + 1 + 1 - 1 = x + 1
      BY <1>2
    <3>2. b[1] = CharAt(w, x + 1 + 1 - 1)
      BY <2>3, <3>1
    <3>. QED
      BY <3>1, <3>2
  <2>6. CASE CharAt(w, x + 1) \notin Plus
    <3>1. u = b /\ g = x + 1
      BY <2>5, <2>6 DEF Unsigned, ExponentFrom
    <3>2. IsInt(b) <=> x + 1 < j /\ Span(w, Digit, x + 1, j)
      BY <2>1, <2>2, SimpleKinds
    <3>. HIDE DEF b, u, g
    <3>. QED
      BY <2>3, <3>1, <3>2
  <2>7. CASE CharAt(w, x + 1) \in Plus
    <3>1. u = Tail(b) /\ g = x + 2
      BY <2>4, <2>5, <2>7 DEF Unsigned, ExponentFrom
    <3>2. Tail(b) = SubSeq(b, 2, Len(b)) /\ Len(Tail(b)) = Len(b) - 1
      BY <2>3, <2>4, TailIsSubSeq
    <3>3. Beyond(b, 1) = SubSeq(b, 2, Len(b))
      BY DEF Beyond
    <3>. HIDE DEF b, u, g
    <3>4. x + 1 \in x + 1 .. j - 1 /\ (x + 1) - (x + 1) + 1 = 1 /\ x + 1 + 1 = x + 2
      BY <1>2
    <3>9. b = SubSeq(w, x + 1, j - 1)
      BY <2>1
    <3>5. x + 1 + 1 < j => Beyond(b, (x + 1) - (x + 1) + 1) = SubSeq(w, x + 1 + 1, j - 1)
      BY <2>2, <3>4, <3>9, PartsOfWord
    <3>6. x + 1 + 1 = j => Beyond(b, (x + 1) - (x + 1) + 1) = <<>>
      BY <2>2, <3>4, <3>9, PartsOfWord
    <3>7. CASE x + 2 < j
      <4>1. u = SubSeq(w, x + 2, j - 1)
        BY <3>1, <3>2, <3>3, <3>4, <3>5, <3>7
      <4>2. x + 2 \in 1 .. Len(w) /\ j \in x + 2 .. Len(w) + 1
        BY <1>0, <3>7
      <4>3. IsInt(SubSeq(w, x + 2, j - 1)) <=> x + 2 < j /\ Span(w, Digit, x + 2, j)
        BY <4>2, SimpleKinds
      <4>4. IsInt(u) <=> g < j /\ Span(w, Digit, g, j)
        BY <3>1, <4>1, <4>3
      <4>5. Len(u) = j - g
        BY <2>3, <3>1, <3>2
      <4>. QED
        BY <4>4, <4>5
    <3>8. CASE x + 2 = j
      <4>1. u = <<>>
        BY <3>1, <3>2, <3>3, <3>4, <3>6, <3>8
      <4>. QED
        BY <3>1, <3>8, <4>1 DEF IsInt
    <3>. QED
      BY <1>2, <3>7, <3>8
  <2>. QED
    BY <2>6, <2>7
<1>. QED
  BY <1>1, <1>2

\* A long real has its period and its "E" where the digits end.
LEMMA LongRealKind ==
  ASSUME NEW w \in Seq(Char), NEW i \in 1 .. Len(w), NEW j \in i .. Len(w) + 1,
         NEW d \in i .. j - 1, NEW x \in i .. j - 1
  PROVE  IsLongReal(SubSeq(w, i, j - 1), d - i + 1, x - i + 1) <=> LongRealAt(w, i, d, x, j)
<1>. DEFINE v == SubSeq(w, i, j - 1)
            q == d - i + 1
            z == x - i + 1
            g == ExponentFrom(w, x)
<1>0. Len(w) \in Nat /\ (q < z <=> d < x)
  OBVIOUS
<1>1. v[q] = CharAt(w, d) /\ Upto(v, q) = SubSeq(w, i, d - 1)
  BY PartsOfWord
<1>2. v[z] = CharAt(w, x)
  BY PartsOfWord
<1>3. IsInt(Upto(v, q)) <=> i < d /\ Span(w, Digit, i, d)
  <2>1. d \in i .. Len(w) + 1
    BY <1>0
  <2>. QED
    BY <1>1, <2>1, SimpleKinds
<1>4. ASSUME d < x PROVE All(SubSeq(v, q + 1, z - 1), Digit) <=> Span(w, Digit, d + 1, x)
  <2>1. /\ v \in Seq(Char) /\ Len(v) = j - i
        /\ \A k \in 1 .. j - i : v[k] = CharAt(w, i + k - 1)
    BY WordAt
  <2>2. q \in 1 .. Len(v) /\ q + 1 \in 1 .. Len(v) /\ z \in q + 1 .. Len(v) + 1
    BY <1>4, <2>1
  <2>3. All(SubSeq(v, q + 1, z - 1), Digit) <=> Span(v, Digit, q + 1, z)
    BY <2>1, <2>2, AllIsSpan
  <2>4. \A k \in 1 .. j - i : CharAt(v, k) = CharAt(w, i + k - 1)
    <3>1. DOMAIN v = 1 .. j - i
      BY <2>1
    <3>. QED
      BY <2>1, <3>1 DEF CharAt
  <2>5. ASSUME Span(v, Digit, q + 1, z), NEW k \in d + 1 .. x - 1 PROVE CharAt(w, k) \in Digit
    <3>1. k - i + 1 \in q + 1 .. z - 1 /\ k - i + 1 \in 1 .. j - i /\ i + (k - i + 1) - 1 = k
      OBVIOUS
    <3>. QED
      BY <2>4, <2>5, <3>1 DEF Span
  <2>6. ASSUME Span(w, Digit, d + 1, x), NEW k \in q + 1 .. z - 1 PROVE CharAt(v, k) \in Digit
    <3>1. i + k - 1 \in d + 1 .. x - 1 /\ k \in 1 .. j - i
      OBVIOUS
    <3>. QED
      BY <2>4, <2>6, <3>1 DEF Span
  <2>. QED
    BY <2>3, <2>5, <2>6 DEF Span
<1>5. IsInt(Unsigned(Beyond(v, z))) <=> g < j /\ Span(w, Digit, g, j)
  BY ExponentOfWord
<1>. QED
  BY <1>0, <1>1, <1>2, <1>3, <1>4, <1>5 DEF IsLongReal, LongRealAt, FractionAt, WholeAt

\* No character is of two classes.
LEMMA ClassesAreDisjoint ==
  /\ \A ch \in Letter : ch \notin Digit \cup Blank \cup Punctuation \cup {NUL}
  /\ \A ch \in Digit : ch \notin Letter \cup Blank \cup Punctuation \cup {NUL, "E", "."}
  /\ \A ch \in Blank : ch \notin Letter \cup Digit \cup Punctuation \cup {NUL}
  /\ \A ch \in Punctuation : ch \notin Letter \cup Digit \cup Blank \cup {NUL}
  /\ Plus \subseteq Punctuation /\ "." \in Punctuation /\ Single \subseteq Punctuation /\ "." # "E"
BY ClassAssumption DEF NUL, Punctuation, Single, Plus, EOFC

\* The symbols by their characters.
SymbolAt(w, i, j) ==
  \/ j = i + 1 /\ CharAt(w, i) \in Punctuation
  \/ /\ j = i + 2
     /\ <<CharAt(w, i), CharAt(w, i + 1)>> \in
          {<<":", "=">>, <<">", "=">>, <<"<", "=">>, <<"<", ">">>}

LEMMA ShortSequences ==
  ASSUME NEW S, NEW v \in Seq(S)
  PROVE  /\ Len(v) = 1 => v = <<v[1]>>
         /\ Len(v) = 2 => v = <<v[1], v[2]>>
<1>1. ASSUME Len(v) = 1 PROVE v = <<v[1]>>
  <2>1. v[1] \in S
    BY <1>1
  <2>2. <<v[1]>> \in Seq(S) /\ Len(<<v[1]>>) = 1 /\ <<v[1]>>[1] = v[1]
    BY <2>1
  <2>3. \A k \in 1 .. Len(v) : v[k] = <<v[1]>>[k]
    BY <1>1, <2>2
  <2>. QED
    BY <1>1, <2>2, <2>3, SeqEqual
<1>2. ASSUME Len(v) = 2 PROVE v = <<v[1], v[2]>>
  <2>1. v[1] \in S /\ v[2] \in S
    BY <1>2
  <2>2. /\ <<v[1], v[2]>> \in Seq(S) /\ Len(<<v[1], v[2]>>) = 2
        /\ <<v[1], v[2]>>[1] = v[1] /\ <<v[1], v[2]>>[2] = v[2]
    BY <2>1
  <2>3. \A k \in 1 .. Len(v) : v[k] = <<v[1], v[2]>>[k]
    BY <1>2, <2>2
  <2>. QED
    BY <1>2, <2>2, <2>3, SeqEqual
<1>. QED
  BY <1>1, <1>2

\* A word of one or two characters.
LEMMA ShortWord ==
  ASSUME NEW w \in Seq(Char), NEW i \in 1 .. Len(w), NEW j \in i + 1 .. Len(w) + 1
  PROVE  /\ j = i + 1 => SubSeq(w, i, j - 1) = <<CharAt(w, i)>>
         /\ j = i + 2 => SubSeq(w, i, j - 1) = <<CharAt(w, i), CharAt(w, i + 1)>>
         /\ SubSeq(w, i, j - 1)[1] = CharAt(w, i)
<1>. DEFINE v == SubSeq(w, i, j - 1)
<1>0. j \in i .. Len(w) + 1
  OBVIOUS
<1>1. /\ v \in Seq(Char) /\ Len(v) = j - i /\ DOMAIN v = 1 .. j - i
  BY <1>0, WordAt
<1>2. \A k \in 1 .. j - i : v[k] = CharAt(w, i + k - 1)
  BY <1>0, WordAt
<1>. HIDE DEF v
<1>3. v[1] = CharAt(w, i)
  <2>1. 1 \in 1 .. j - i /\ i + 1 - 1 = i
    OBVIOUS
  <2>. QED
    BY <1>2, <2>1
<1>4. ASSUME j = i + 2 PROVE v[2] = CharAt(w, i + 1)
  <2>1. 2 \in 1 .. j - i /\ i + 2 - 1 = i + 1
    BY <1>4
  <2>. QED
    BY <1>2, <2>1
<1>5. ASSUME j = i + 1 PROVE v = <<CharAt(w, i)>>
  <2>1. Len(v) = 1
    BY <1>1, <1>5
  <2>2. v = <<v[1]>>
    BY <1>1, <2>1, ShortSequences
  <2>. QED
    BY <1>3, <2>2
<1>6. ASSUME j = i + 2 PROVE v = <<CharAt(w, i), CharAt(w, i + 1)>>
  <2>1. Len(v) = 2
    BY <1>1, <1>6
  <2>2. v = <<v[1], v[2]>>
    BY <1>1, <2>1, ShortSequences
  <2>. QED
    BY <1>3, <1>4, <1>6, <2>2
<1>. QED
  BY <1>3, <1>5, <1>6 DEF v

LEMMA SymbolKind ==
  ASSUME NEW w \in Seq(Char), NEW i \in 1 .. Len(w), NEW j \in i + 1 .. Len(w) + 1
  PROVE  SubSeq(w, i, j - 1) \in Symbols <=> SymbolAt(w, i, j)
<1>. DEFINE v == SubSeq(w, i, j - 1)
<1>1. Len(v) = j - i
  <2>1. j \in i .. Len(w) + 1
    OBVIOUS
  <2>. QED
    BY <2>1, WordAt
<1>2. /\ j = i + 1 => v = <<CharAt(w, i)>>
      /\ j = i + 2 => v = <<CharAt(w, i), CharAt(w, i + 1)>>
  BY ShortWord
<1>. HIDE DEF v
<1>3. ASSUME v \in Symbols PROVE j - i \in {1, 2}
  <2>1. CASE v \in { <<ch>> : ch \in Punctuation }
    <3>1. PICK ch \in Punctuation : v = <<ch>>
      BY <2>1
    <3>2. Len(v) = 1
      BY <3>1
    <3>. QED
      BY <1>1, <3>2
  <2>2. CASE v \in {<<":", "=">>, <<">", "=">>, <<"<", "=">>, <<"<", ">">>}
    <3>1. Len(v) = 2
      BY <2>2
    <3>. QED
      BY <1>1, <3>1
  <2>. QED
    BY <1>3, <2>1, <2>2 DEF Symbols
<1>4. CASE j = i + 1
  <2>1. v = <<CharAt(w, i)>>
    BY <1>2, <1>4
  <2>2. v \in Symbols <=> CharAt(w, i) \in Punctuation
    <3>1. \A ch : <<ch>> \in Symbols <=> ch \in Punctuation
      BY DEF Symbols
    <3>. QED
      BY <2>1, <3>1
  <2>. QED
    BY <1>4, <2>2 DEF SymbolAt, v
<1>5. CASE j = i + 2
  <2>1. v = <<CharAt(w, i), CharAt(w, i + 1)>>
    BY <1>2, <1>5
  <2>2. \A x, y : <<x, y>> \in Symbols <=> <<x, y>> \in {<<":", "=">>, <<">", "=">>, <<"<", "=">>, <<"<", ">">>}
    BY DEF Symbols
  <2>3. v \in Symbols <=> <<CharAt(w, i), CharAt(w, i + 1)>> \in {<<":", "=">>, <<">", "=">>, <<"<", "=">>, <<"<", ">">>}
    BY <2>1, <2>2
  <2>4. SymbolAt(w, i, j) <=> <<CharAt(w, i), CharAt(w, i + 1)>> \in {<<":", "=">>, <<">", "=">>, <<"<", "=">>, <<"<", ">">>}
    BY <1>5 DEF SymbolAt
  <2>. QED
    BY <2>3, <2>4 DEF v
<1>6. CASE j # i + 1 /\ j # i + 2
  <2>1. j - i \notin {1, 2}
    BY <1>6
  <2>. QED
    BY <1>3, <1>6, <2>1 DEF SymbolAt, v
<1>. QED
  BY <1>4, <1>5, <1>6

\* What a lexeme is, by the characters that lie there.
LEMMA LexemeKinds ==
  ASSUME NEW w \in Seq(Char), NEW i \in 1 .. Len(w), NEW j \in i + 1 .. Len(w) + 1
  PROVE  IsLexeme(SubSeq(w, i, j - 1)) <=>
           \/ Span(w, Blank, i, j)
           \/ CharAt(w, i) \in Letter /\ Span(w, Alnum, i, j)
           \/ Span(w, Digit, i, j)
           \/ SymbolAt(w, i, j)
           \/ \E d \in i .. j - 1 : RealAt(w, i, d, j)
           \/ \E d, x \in i .. j - 1 : LongRealAt(w, i, d, x, j)
<1>. DEFINE v == SubSeq(w, i, j - 1)
<1>0. j \in i .. Len(w) + 1 /\ i < j
  OBVIOUS
<1>1. DOMAIN v = 1 .. j - i
  BY <1>0, WordAt
<1>2. /\ IsBlank(v) <=> Span(w, Blank, i, j)
      /\ IsInt(v) <=> Span(w, Digit, i, j)
      /\ IsName(v) <=> CharAt(w, i) \in Letter /\ Span(w, Alnum, i, j)
  BY <1>0, SimpleKinds
<1>3. v \in Symbols <=> SymbolAt(w, i, j)
  BY SymbolKind
<1>4. \A d \in i .. j - 1 : IsReal(v, d - i + 1) <=> RealAt(w, i, d, j)
  BY <1>0, RealKind
<1>5. \A d, x \in i .. j - 1 : IsLongReal(v, d - i + 1, x - i + 1) <=> LongRealAt(w, i, d, x, j)
  BY <1>0, LongRealKind
<1>6. /\ \A q \in 1 .. j - i : q + i - 1 \in i .. j - 1 /\ (q + i - 1) - i + 1 = q
      /\ \A d \in i .. j - 1 : d - i + 1 \in 1 .. j - i
  OBVIOUS
<1>. HIDE DEF v
<1>7. (\E q \in DOMAIN v : IsReal(v, q)) <=> (\E d \in i .. j - 1 : RealAt(w, i, d, j))
  <2>1. ASSUME NEW q \in DOMAIN v, IsReal(v, q) PROVE \E d \in i .. j - 1 : RealAt(w, i, d, j)
    <3>1. q + i - 1 \in i .. j - 1 /\ (q + i - 1) - i + 1 = q
      BY <1>1, <1>6
    <3>. QED
      BY <1>4, <2>1, <3>1
  <2>2. ASSUME NEW d \in i .. j - 1, RealAt(w, i, d, j) PROVE \E q \in DOMAIN v : IsReal(v, q)
    BY <1>1, <1>4, <1>6, <2>2
  <2>. QED
    BY <2>1, <2>2
<1>8. (\E q, z \in DOMAIN v : IsLongReal(v, q, z)) <=> (\E d, x \in i .. j - 1 : LongRealAt(w, i, d, x, j))
  <2>1. ASSUME NEW q \in DOMAIN v, NEW z \in DOMAIN v, IsLongReal(v, q, z)
        PROVE  \E d, x \in i .. j - 1 : LongRealAt(w, i, d, x, j)
    <3>1. /\ q + i - 1 \in i .. j - 1 /\ (q + i - 1) - i + 1 = q
          /\ z + i - 1 \in i .. j - 1 /\ (z + i - 1) - i + 1 = z
      BY <1>1, <1>6
    <3>. QED
      BY <1>5, <2>1, <3>1
  <2>2. ASSUME NEW d \in i .. j - 1, NEW x \in i .. j - 1, LongRealAt(w, i, d, x, j)
        PROVE  \E q, z \in DOMAIN v : IsLongReal(v, q, z)
    BY <1>1, <1>5, <1>6, <2>2
  <2>. QED
    BY <2>1, <2>2
<1>9. IsLexeme(v) <=> \/ IsBlank(v) \/ IsName(v) \/ IsInt(v) \/ v \in Symbols
                      \/ \E q \in DOMAIN v : IsReal(v, q)
                      \/ \E q, z \in DOMAIN v : IsLongReal(v, q, z)
  BY DEF IsLexeme
<1>. QED
  BY <1>2, <1>3, <1>7, <1>8, <1>9 DEF v

-----------------------------------------------------------------------------
(* The longest lexeme, and its token, by kind.                             *)

\* A lexeme that none extends is the longest.
LEMMA LongestIs ==
  ASSUME NEW w \in Seq(Char), NEW i \in 1 .. Len(w), NEW j \in i + 1 .. Len(w) + 1,
         IsLexeme(SubSeq(w, i, j - 1)),
         \A k \in j + 1 .. Len(w) + 1 : ~IsLexeme(SubSeq(w, i, k - 1))
  PROVE  Lexeme(w, i) = [from |-> i, to |-> j, token |-> TokenOf(SubSeq(w, i, j - 1))]
<1>. DEFINE ends == { k \in i + 1 .. Len(w) + 1 : IsLexeme(SubSeq(w, i, k - 1)) }
<1>1. j \in ends /\ \A k \in ends : k <= j
  OBVIOUS
<1>2. \A z \in ends : (\A k \in ends : k <= z) => z = j
  BY <1>1
<1>3. LexemeEnd(w, i) = j
  <2>1. LexemeEnd(w, i) = CHOOSE z \in ends : \A k \in ends : k <= z
    BY <1>1 DEF LexemeEnd
  <2>. HIDE DEF ends
  <2>. QED
    BY <1>1, <1>2, <2>1
<1>. QED
  BY <1>3 DEF Lexeme

\* Where none starts, the character stands alone.
LEMMA NoneIs ==
  ASSUME NEW w \in Seq(Char), NEW i \in 1 .. Len(w),
         \A k \in i + 1 .. Len(w) + 1 : ~IsLexeme(SubSeq(w, i, k - 1))
  PROVE  Lexeme(w, i) = [from |-> i, to |-> i + 1, token |-> TokenOf(SubSeq(w, i, (i + 1) - 1))]
<1>1. { k \in i + 1 .. Len(w) + 1 : IsLexeme(SubSeq(w, i, k - 1)) } = {}
  OBVIOUS
<1>2. LexemeEnd(w, i) = i + 1
  BY <1>1 DEF LexemeEnd
<1>. QED
  BY <1>2 DEF Lexeme

\* The first character decides what a lexeme can be.
LEMMA FirstDecides ==
  ASSUME NEW w \in Seq(Char), NEW i \in 1 .. Len(w), NEW j \in i + 1 .. Len(w) + 1
  PROVE  /\ \A class : Span(w, class, i, j) => CharAt(w, i) \in class
         /\ SymbolAt(w, i, j) => CharAt(w, i) \in Punctuation
         /\ \A d \in Int : WholeAt(w, i, d) => CharAt(w, i) \in Digit
         /\ CharAt(w, i) \in Blank => (IsLexeme(SubSeq(w, i, j - 1)) <=> Span(w, Blank, i, j))
         /\ CharAt(w, i) \in Letter => (IsLexeme(SubSeq(w, i, j - 1)) <=> Span(w, Alnum, i, j))
         /\ CharAt(w, i) \in Punctuation => (IsLexeme(SubSeq(w, i, j - 1)) <=> SymbolAt(w, i, j))
         /\ CharAt(w, i) \in Digit =>
              (IsLexeme(SubSeq(w, i, j - 1)) <=>
                 \/ Span(w, Digit, i, j)
                 \/ \E d \in i .. j - 1 : RealAt(w, i, d, j)
                 \/ \E d, x \in i .. j - 1 : LongRealAt(w, i, d, x, j))
         /\ CharAt(w, i) \notin Blank \cup Letter \cup Punctuation \cup Digit =>
              ~IsLexeme(SubSeq(w, i, j - 1))
<1>1. i \in i .. j - 1 /\ i \in Int
  OBVIOUS
<1>2. \A class : Span(w, class, i, j) => CharAt(w, i) \in class
  BY <1>1 DEF Span
<1>3. SymbolAt(w, i, j) => CharAt(w, i) \in Punctuation
  <2>1. {":", ">", "<"} \subseteq Punctuation
    BY DEF Punctuation
  <2>. QED
    BY <2>1 DEF SymbolAt
<1>4. ASSUME NEW d \in Int, WholeAt(w, i, d) PROVE CharAt(w, i) \in Digit
  <2>1. i \in i .. d - 1
    BY <1>1, <1>4 DEF WholeAt
  <2>. QED
    BY <1>4, <2>1 DEF WholeAt, Span
<1>5. \A d \in i .. j - 1 : RealAt(w, i, d, j) => CharAt(w, i) \in Digit
  BY <1>4 DEF RealAt
<1>6. \A d, x \in i .. j - 1 : LongRealAt(w, i, d, x, j) => CharAt(w, i) \in Digit
  BY <1>4 DEF LongRealAt, FractionAt
<1>7. IsLexeme(SubSeq(w, i, j - 1)) <=>
           \/ Span(w, Blank, i, j)
           \/ CharAt(w, i) \in Letter /\ Span(w, Alnum, i, j)
           \/ Span(w, Digit, i, j)
           \/ SymbolAt(w, i, j)
           \/ \E d \in i .. j - 1 : RealAt(w, i, d, j)
           \/ \E d, x \in i .. j - 1 : LongRealAt(w, i, d, x, j)
  BY LexemeKinds
<1>8. /\ CharAt(w, i) \in Letter => CharAt(w, i) \notin Digit \cup Blank \cup Punctuation
      /\ CharAt(w, i) \in Digit => CharAt(w, i) \notin Letter \cup Blank \cup Punctuation
      /\ CharAt(w, i) \in Blank => CharAt(w, i) \notin Letter \cup Digit \cup Punctuation
      /\ CharAt(w, i) \in Punctuation => CharAt(w, i) \notin Letter \cup Digit \cup Blank
  BY ClassesAreDisjoint
<1>9. /\ Span(w, Blank, i, j) => CharAt(w, i) \in Blank
      /\ Span(w, Digit, i, j) => CharAt(w, i) \in Digit
  BY <1>2
<1>. QED
  BY <1>2, <1>3, <1>4, <1>5, <1>6, <1>7, <1>8, <1>9

\* The token of a lexeme, by kind.
LEMMA TokenKinds ==
  ASSUME NEW w \in Seq(Char), NEW i \in 1 .. Len(w), NEW j \in i + 1 .. Len(w) + 1
  PROVE  LET v == SubSeq(w, i, j - 1) IN
         /\ Span(w, Blank, i, j) => TokenOf(v) = Tok("WHITESPACE", "none")
         /\ CharAt(w, i) \in Letter /\ Span(w, Alnum, i, j) => TokenOf(v) = NameToken(v)
         /\ Span(w, Digit, i, j) => TokenOf(v) = IntToken(v)
         /\ SymbolAt(w, i, j) => TokenOf(v) = SymbolToken(v)
         /\ ~IsLexeme(v) => TokenOf(v) = NoMatch
         /\ IsLexeme(v) /\ CharAt(w, i) \in Digit /\ ~Span(w, Digit, i, j) =>
              TokenOf(v) =
                IF "E" \in {v[k] : k \in DOMAIN v}
                THEN FloatToken(v[1], Period(v) - 1, Exponent(v) - Period(v) - 1,
                                Len(Unsigned(Beyond(v, Exponent(v)))), "LONGREAL")
                ELSE FloatToken(v[1], Period(v) - 1, Len(v) - Period(v), 0, "REAL")
<1>. DEFINE v == SubSeq(w, i, j - 1)
<1>0. j \in i .. Len(w) + 1 /\ i < j
  OBVIOUS
<1>1. /\ IsBlank(v) <=> Span(w, Blank, i, j)
      /\ IsInt(v) <=> Span(w, Digit, i, j)
      /\ IsName(v) <=> CharAt(w, i) \in Letter /\ Span(w, Alnum, i, j)
  BY <1>0, SimpleKinds
<1>2. v \in Symbols <=> SymbolAt(w, i, j)
  BY SymbolKind
<1>3. /\ Span(w, Blank, i, j) => CharAt(w, i) \in Blank
      /\ Span(w, Digit, i, j) => CharAt(w, i) \in Digit
      /\ SymbolAt(w, i, j) => CharAt(w, i) \in Punctuation
  BY FirstDecides
<1>4. /\ CharAt(w, i) \in Letter => CharAt(w, i) \notin Digit \cup Blank \cup Punctuation
      /\ CharAt(w, i) \in Digit => CharAt(w, i) \notin Letter \cup Blank \cup Punctuation
      /\ CharAt(w, i) \in Blank => CharAt(w, i) \notin Letter \cup Digit \cup Punctuation
      /\ CharAt(w, i) \in Punctuation => CharAt(w, i) \notin Letter \cup Digit \cup Blank
  BY ClassesAreDisjoint
<1>5. IsBlank(v) \/ IsName(v) \/ IsInt(v) \/ v \in Symbols => IsLexeme(v)
  BY DEF IsLexeme
<1>6. /\ IsBlank(v) => ~IsName(v) /\ ~IsInt(v) /\ v \notin Symbols
      /\ IsName(v) => ~IsInt(v) /\ v \notin Symbols
      /\ IsInt(v) => v \notin Symbols
  BY <1>1, <1>2, <1>3, <1>4
<1>. HIDE DEF v
<1>7. ASSUME IsBlank(v) PROVE TokenOf(v) = Tok("WHITESPACE", "none")
  <2>1. ~IsName(v) /\ ~IsInt(v) /\ v \notin Symbols /\ IsLexeme(v)
    BY <1>5, <1>6, <1>7
  <2>. QED
    BY <1>7, <2>1 DEF TokenOf
<1>8. ASSUME IsName(v) PROVE TokenOf(v) = NameToken(v)
  <2>1. ~IsBlank(v) /\ ~IsInt(v) /\ v \notin Symbols /\ IsLexeme(v)
    BY <1>5, <1>6, <1>8
  <2>. QED
    BY <1>8, <2>1 DEF TokenOf
<1>9. ASSUME IsInt(v) PROVE TokenOf(v) = IntToken(v)
  <2>1. ~IsBlank(v) /\ ~IsName(v) /\ v \notin Symbols /\ IsLexeme(v)
    BY <1>5, <1>6, <1>9
  <2>. QED
    BY <1>9, <2>1 DEF TokenOf
<1>10. v \in Symbols => TokenOf(v) = SymbolToken(v)
  BY <1>5, <1>6 DEF TokenOf
<1>11. ~IsLexeme(v) => TokenOf(v) = NoMatch
  BY <1>5 DEF TokenOf
<1>12. IsLexeme(v) /\ ~IsBlank(v) /\ ~IsName(v) /\ ~IsInt(v) /\ v \notin Symbols =>
         TokenOf(v) =
           IF "E" \in {v[k] : k \in DOMAIN v}
           THEN FloatToken(v[1], Period(v) - 1, Exponent(v) - Period(v) - 1,
                           Len(Unsigned(Beyond(v, Exponent(v)))), "LONGREAL")
           ELSE FloatToken(v[1], Period(v) - 1, Len(v) - Period(v), 0, "REAL")
  BY DEF TokenOf
<1>. QED
  BY <1>1, <1>2, <1>3, <1>4, <1>5, <1>7, <1>8, <1>9, <1>10, <1>11, <1>12 DEF v

\* What the automata for reals and long reals leave out.
NoReal(w, i) == \A d, j \in i .. Len(w) + 1 : ~RealAt(w, i, d, j)
NoLongReal(w, i) ==
  \A d \in i .. Len(w) + 1 : WholeAt(w, i, d) => \A x, j \in d .. Len(w) + 1 : ~LongRealAt(w, i, d, x, j)

LEMMA NoLongRealMeans ==
  ASSUME NEW w \in Seq(Char), NEW i \in 1 .. Len(w), NoLongReal(w, i), NEW j \in i + 1 .. Len(w) + 1
  PROVE  ~ \E d, x \in i .. j - 1 : LongRealAt(w, i, d, x, j)
<1>1. SUFFICES ASSUME NEW d \in i .. j - 1, NEW x \in i .. j - 1, LongRealAt(w, i, d, x, j) PROVE FALSE
  OBVIOUS
<1>2. WholeAt(w, i, d) /\ d < x
  BY <1>1 DEF LongRealAt, FractionAt
<1>3. d \in i .. Len(w) + 1 /\ x \in d .. Len(w) + 1 /\ j \in d .. Len(w) + 1
  BY <1>2
<1>. QED
  BY <1>1, <1>2, <1>3 DEF NoLongReal

\* Blanks up to something else.
LEMMA BlankFound ==
  ASSUME NEW w \in Seq(Char), NEW i \in 1 .. Len(w), NEW j \in i + 1 .. Len(w) + 1,
         Span(w, Blank, i, j), CharAt(w, j) \notin Blank
  PROVE  Lexeme(w, i) = [from |-> i, to |-> j, token |-> Tok("WHITESPACE", "none")]
<1>1. CharAt(w, i) \in Blank
  BY FirstDecides
<1>2. IsLexeme(SubSeq(w, i, j - 1)) /\ TokenOf(SubSeq(w, i, j - 1)) = Tok("WHITESPACE", "none")
  BY <1>1, FirstDecides, TokenKinds
<1>3. ASSUME NEW k \in j + 1 .. Len(w) + 1 PROVE ~IsLexeme(SubSeq(w, i, k - 1))
  <2>1. k \in i + 1 .. Len(w) + 1 /\ j \in i .. k - 1
    OBVIOUS
  <2>2. ~Span(w, Blank, i, k)
    BY <2>1 DEF Span
  <2>. QED
    BY <1>1, <2>1, <2>2, FirstDecides
<1>. QED
  BY <1>2, <1>3, LongestIs

\* A letter and what may follow it, up to something else.
LEMMA NameFound ==
  ASSUME NEW w \in Seq(Char), NEW i \in 1 .. Len(w), NEW j \in i + 1 .. Len(w) + 1,
         CharAt(w, i) \in Letter, Span(w, Alnum, i, j), CharAt(w, j) \notin Alnum
  PROVE  Lexeme(w, i) = [from |-> i, to |-> j, token |-> NameToken(SubSeq(w, i, j - 1))]
<1>1. IsLexeme(SubSeq(w, i, j - 1)) /\ TokenOf(SubSeq(w, i, j - 1)) = NameToken(SubSeq(w, i, j - 1))
  BY FirstDecides, TokenKinds
<1>2. ASSUME NEW k \in j + 1 .. Len(w) + 1 PROVE ~IsLexeme(SubSeq(w, i, k - 1))
  <2>1. k \in i + 1 .. Len(w) + 1 /\ j \in i .. k - 1
    OBVIOUS
  <2>2. ~Span(w, Alnum, i, k)
    BY <2>1 DEF Span
  <2>. QED
    BY <2>1, <2>2, FirstDecides
<1>. QED
  BY <1>1, <1>2, LongestIs

\* Digits up to something else, where no real starts.
LEMMA IntFound ==
  ASSUME NEW w \in Seq(Char), NEW i \in 1 .. Len(w), NEW j \in i + 1 .. Len(w) + 1,
         Span(w, Digit, i, j), CharAt(w, j) \notin Digit, NoReal(w, i), NoLongReal(w, i)
  PROVE  Lexeme(w, i) = [from |-> i, to |-> j, token |-> IntToken(SubSeq(w, i, j - 1))]
<1>1. CharAt(w, i) \in Digit
  BY FirstDecides
<1>2. IsLexeme(SubSeq(w, i, j - 1)) /\ TokenOf(SubSeq(w, i, j - 1)) = IntToken(SubSeq(w, i, j - 1))
  BY <1>1, FirstDecides, TokenKinds
<1>3. ASSUME NEW k \in j + 1 .. Len(w) + 1 PROVE ~IsLexeme(SubSeq(w, i, k - 1))
  <2>1. k \in i + 1 .. Len(w) + 1 /\ j \in i .. k - 1
    OBVIOUS
  <2>2. ~Span(w, Digit, i, k)
    BY <2>1 DEF Span
  <2>3. ~ \E d \in i .. k - 1 : RealAt(w, i, d, k)
    <3>1. \A d \in i .. k - 1 : d \in i .. Len(w) + 1 /\ k \in i .. Len(w) + 1
      OBVIOUS
    <3>. QED
      BY <3>1 DEF NoReal
  <2>4. ~ \E d, x \in i .. k - 1 : LongRealAt(w, i, d, x, k)
    BY <2>1, NoLongRealMeans
  <2>. QED
    BY <1>1, <2>1, <2>2, <2>3, <2>4, FirstDecides
<1>. QED
  BY <1>2, <1>3, LongestIs

\* Digits end at one place.
LEMMA WholeIsUnique ==
  ASSUME NEW w, NEW i \in Int, NEW d \in Int, NEW p \in Int, WholeAt(w, i, d), WholeAt(w, i, p)
  PROVE  p = d
<1>1. "." \notin Digit
  BY ClassesAreDisjoint
<1>2. ASSUME NEW a \in Int, NEW b \in Int, a < b, WholeAt(w, i, a), WholeAt(w, i, b) PROVE FALSE
  <2>1. a \in i .. b - 1
    BY <1>2 DEF WholeAt
  <2>. QED
    BY <1>1, <1>2, <2>1 DEF WholeAt, Span
<1>. QED
  BY <1>2

LEMMA FractionIsUnique ==
  ASSUME NEW w, NEW i \in Int, NEW d \in Int, NEW x \in Int, NEW z \in Int,
         FractionAt(w, i, d, x), CharAt(w, x) = "E", FractionAt(w, i, d, z), CharAt(w, z) = "E"
  PROVE  z = x
<1>1. "E" \notin Digit
  BY ClassesAreDisjoint
<1>2. ASSUME NEW a \in Int, NEW b \in Int, a < b, FractionAt(w, i, d, a), CharAt(w, a) = "E", FractionAt(w, i, d, b) PROVE FALSE
  <2>1. a \in d + 1 .. b - 1
    BY <1>2 DEF FractionAt
  <2>. QED
    BY <1>1, <1>2, <2>1 DEF FractionAt, Span
<1>. QED
  BY <1>2

\* Digits, a period and digits up to something else, where no long real starts.
LEMMA RealFound ==
  ASSUME NEW w \in Seq(Char), NEW i \in 1 .. Len(w), NEW j \in i + 1 .. Len(w) + 1, NEW d \in Int,
         RealAt(w, i, d, j), CharAt(w, j) \notin Digit, NoLongReal(w, i)
  PROVE  Lexeme(w, i) = [from |-> i, to |-> j,
                         token |-> FloatToken(CharAt(w, i), d - i, j - d - 1, 0, "REAL")]
<1>. DEFINE v == SubSeq(w, i, j - 1)
            q == d - i + 1
<1>1. /\ WholeAt(w, i, d) /\ i < d /\ d + 1 < j /\ CharAt(w, d) = "." /\ d \in i .. j - 1
      /\ Span(w, Digit, i, d) /\ Span(w, Digit, d + 1, j)
  BY DEF RealAt, WholeAt
<1>2. CharAt(w, i) \in Digit
  BY <1>1, FirstDecides
<1>3. "." \notin Digit /\ "E" \notin Digit /\ "." # "E"
  BY ClassesAreDisjoint
<1>4. IsLexeme(v)
  BY <1>1, <1>2, FirstDecides
<1>5. \A k \in j .. Len(w) + 1 : ~Span(w, Digit, i, k)
  <2>1. \A k \in j .. Len(w) + 1 : d \in i .. k - 1
    BY <1>1
  <2>. QED
    BY <1>1, <1>3, <2>1 DEF Span
<1>6. ASSUME NEW k \in j + 1 .. Len(w) + 1 PROVE ~IsLexeme(SubSeq(w, i, k - 1))
  <2>1. k \in i + 1 .. Len(w) + 1 /\ k \in j .. Len(w) + 1 /\ j \in d + 1 .. k - 1
    BY <1>1
  <2>2. ASSUME NEW p \in i .. k - 1, RealAt(w, i, p, k) PROVE FALSE
    <3>1. p = d
      BY <1>1, <2>2, WholeIsUnique DEF RealAt
    <3>2. Span(w, Digit, d + 1, k)
      BY <2>2, <3>1 DEF RealAt
    <3>. QED
      BY <2>1, <3>2 DEF Span
  <2>3. ~ \E p, x \in i .. k - 1 : LongRealAt(w, i, p, x, k)
    BY <2>1, NoLongRealMeans
  <2>. QED
    BY <1>2, <1>5, <2>1, <2>2, <2>3, FirstDecides
<1>7. /\ Len(v) = j - i /\ DOMAIN v = 1 .. j - i
      /\ \A k \in 1 .. j - i : v[k] = CharAt(w, i + k - 1)
  <2>1. j \in i .. Len(w) + 1
    OBVIOUS
  <2>. QED
    BY <2>1, WordAt
<1>8. v[1] = CharAt(w, i)
  BY ShortWord
<1>9. TokenOf(v) = IF "E" \in {v[k] : k \in DOMAIN v}
                   THEN FloatToken(v[1], Period(v) - 1, Exponent(v) - Period(v) - 1,
                                   Len(Unsigned(Beyond(v, Exponent(v)))), "LONGREAL")
                   ELSE FloatToken(v[1], Period(v) - 1, Len(v) - Period(v), 0, "REAL")
  <2>1. ~Span(w, Digit, i, j)
    BY <1>5
  <2>. QED
    BY <1>2, <1>4, <2>1, TokenKinds
<1>10. Lexeme(w, i) = [from |-> i, to |-> j, token |-> TokenOf(v)]
  BY <1>4, <1>6, LongestIs
<1>. HIDE DEF v
<1>11. q \in DOMAIN v /\ v[q] = "."
  <2>1. q \in 1 .. j - i /\ i + q - 1 = d
    BY <1>1
  <2>. QED
    BY <1>1, <1>7, <2>1
<1>12. ASSUME NEW k \in DOMAIN v, k # q PROVE v[k] \in Digit
  <2>1. k \in 1 .. j - i /\ (i + k - 1 \in i .. d - 1 \/ i + k - 1 \in d + 1 .. j - 1)
    BY <1>1, <1>7, <1>12
  <2>. QED
    BY <1>1, <1>7, <2>1 DEF Span
<1>13. Period(v) = q
  <2>1. \A k \in DOMAIN v : v[k] = "." <=> k = q
    BY <1>3, <1>11, <1>12
  <2>. QED
    BY <1>11, <2>1 DEF Period
<1>14. "E" \notin {v[k] : k \in DOMAIN v}
  BY <1>3, <1>11, <1>12
<1>15. q - 1 = d - i /\ Len(v) - q = j - d - 1
  BY <1>7
<1>. QED
  BY <1>8, <1>9, <1>10, <1>13, <1>14, <1>15

\* The same with an exponent.
LEMMA LongRealFound ==
  ASSUME NEW w \in Seq(Char), NEW i \in 1 .. Len(w), NEW j \in i + 1 .. Len(w) + 1,
         NEW d \in Int, NEW x \in Int, LongRealAt(w, i, d, x, j), CharAt(w, j) \notin Digit
  PROVE  Lexeme(w, i) = [from |-> i, to |-> j,
                         token |-> FloatToken(CharAt(w, i), d - i, x - d - 1,
                                              j - ExponentFrom(w, x), "LONGREAL")]
<1>. DEFINE v == SubSeq(w, i, j - 1)
            q == d - i + 1
            z == x - i + 1
            g == ExponentFrom(w, x)
<1>0. g \in {x + 1, x + 2} /\ (g = x + 2 => CharAt(w, x + 1) \in Plus)
  BY DEF ExponentFrom
<1>1. /\ WholeAt(w, i, d) /\ i < d /\ d < x /\ g < j /\ x < j /\ CharAt(w, d) = "." /\ CharAt(w, x) = "E"
      /\ d \in i .. j - 1 /\ x \in i .. j - 1 /\ FractionAt(w, i, d, x)
      /\ Span(w, Digit, i, d) /\ Span(w, Digit, d + 1, x) /\ Span(w, Digit, g, j)
  BY <1>0 DEF LongRealAt, FractionAt, WholeAt
<1>2. CharAt(w, i) \in Digit
  BY <1>1, FirstDecides
<1>3. "." \notin Digit /\ "E" \notin Digit /\ "." # "E" /\ "." \notin Plus /\ "E" \notin Plus
  BY ClassesAreDisjoint DEF Plus
<1>4. IsLexeme(v)
  BY <1>1, <1>2, FirstDecides
<1>5. \A k \in j .. Len(w) + 1 : ~Span(w, Digit, i, k)
  <2>1. \A k \in j .. Len(w) + 1 : d \in i .. k - 1
    BY <1>1
  <2>. QED
    BY <1>1, <1>3, <2>1 DEF Span
<1>6. ASSUME NEW k \in j + 1 .. Len(w) + 1 PROVE ~IsLexeme(SubSeq(w, i, k - 1))
  <2>1. k \in i + 1 .. Len(w) + 1 /\ k \in j .. Len(w) + 1 /\ j \in g .. k - 1 /\ x \in d + 1 .. k - 1
    BY <1>0, <1>1
  <2>2. ASSUME NEW p \in i .. k - 1, RealAt(w, i, p, k) PROVE FALSE
    <3>1. p = d
      BY <1>1, <2>2, WholeIsUnique DEF RealAt
    <3>2. Span(w, Digit, d + 1, k)
      BY <2>2, <3>1 DEF RealAt
    <3>. QED
      BY <1>1, <1>3, <2>1, <3>2 DEF Span
  <2>3. ASSUME NEW p \in i .. k - 1, NEW y \in i .. k - 1, LongRealAt(w, i, p, y, k) PROVE FALSE
    <3>1. p = d
      BY <1>1, <2>3, WholeIsUnique DEF LongRealAt, FractionAt
    <3>2. y = x
      BY <1>1, <2>3, <3>1, FractionIsUnique DEF LongRealAt
    <3>3. Span(w, Digit, g, k)
      BY <2>3, <3>2 DEF LongRealAt
    <3>. QED
      BY <2>1, <3>3 DEF Span
  <2>. QED
    BY <1>2, <1>5, <2>1, <2>2, <2>3, FirstDecides
<1>7. /\ Len(v) = j - i /\ DOMAIN v = 1 .. j - i
      /\ \A k \in 1 .. j - i : v[k] = CharAt(w, i + k - 1)
  <2>1. j \in i .. Len(w) + 1
    OBVIOUS
  <2>. QED
    BY <2>1, WordAt
<1>8. v[1] = CharAt(w, i)
  BY ShortWord
<1>9. TokenOf(v) = IF "E" \in {v[k] : k \in DOMAIN v}
                   THEN FloatToken(v[1], Period(v) - 1, Exponent(v) - Period(v) - 1,
                                   Len(Unsigned(Beyond(v, Exponent(v)))), "LONGREAL")
                   ELSE FloatToken(v[1], Period(v) - 1, Len(v) - Period(v), 0, "REAL")
  <2>1. ~Span(w, Digit, i, j)
    BY <1>5
  <2>. QED
    BY <1>2, <1>4, <2>1, TokenKinds
<1>10. Lexeme(w, i) = [from |-> i, to |-> j, token |-> TokenOf(v)]
  BY <1>4, <1>6, LongestIs
<1>11. Len(Unsigned(Beyond(v, z))) = j - g
  <2>1. j \in i .. Len(w) + 1
    OBVIOUS
  <2>. QED
    BY <1>1, <2>1, ExponentOfWord
<1>. HIDE DEF v
<1>12. q \in DOMAIN v /\ v[q] = "." /\ z \in DOMAIN v /\ v[z] = "E"
  <2>1. q \in 1 .. j - i /\ i + q - 1 = d /\ z \in 1 .. j - i /\ i + z - 1 = x
    BY <1>1
  <2>. QED
    BY <1>1, <1>7, <2>1
<1>13. ASSUME NEW k \in DOMAIN v, k # q, k # z PROVE v[k] \in Digit \cup Plus
  <2>1. k \in 1 .. j - i
    BY <1>7
  <2>2. PICK n \in Int : n = i + k - 1
    BY <2>1
  <2>3. n \in i .. j - 1 /\ n # d /\ n # x
    BY <1>13, <2>1, <2>2
  <2>4. v[k] = CharAt(w, n)
    BY <1>7, <2>1, <2>2
  <2>5. \/ n \in i .. d - 1
        \/ n \in d + 1 .. x - 1
        \/ n \in g .. j - 1
        \/ n = x + 1 /\ g = x + 2
    BY <1>0, <1>1, <2>3
  <2>. QED
    BY <1>0, <1>1, <2>4, <2>5 DEF Span
<1>14. Period(v) = q
  <2>1. \A k \in DOMAIN v : v[k] = "." <=> k = q
    BY <1>3, <1>12, <1>13
  <2>. QED
    BY <1>12, <2>1 DEF Period
<1>15. Exponent(v) = z
  <2>1. \A k \in DOMAIN v : v[k] = "E" <=> k = z
    BY <1>3, <1>12, <1>13
  <2>. QED
    BY <1>12, <2>1 DEF Exponent
<1>16. "E" \in {v[k] : k \in DOMAIN v}
  BY <1>12
<1>17. q - 1 = d - i /\ z - q - 1 = x - d - 1
  OBVIOUS
<1>. HIDE DEF q, z, g
<1>18. TokenOf(v) = FloatToken(CharAt(w, i), d - i, x - d - 1, j - g, "LONGREAL")
  BY <1>8, <1>9, <1>11, <1>14, <1>15, <1>16, <1>17
<1>. QED
  BY <1>10, <1>18 DEF g

\* A symbol that no second character extends.
LEMMA SymbolFound ==
  ASSUME NEW w \in Seq(Char), NEW i \in 1 .. Len(w), NEW j \in i + 1 .. Len(w) + 1,
         SymbolAt(w, i, j), j = i + 1 => ~SymbolAt(w, i, i + 2)
  PROVE  Lexeme(w, i) = [from |-> i, to |-> j, token |-> SymbolToken(SubSeq(w, i, j - 1))]
<1>1. CharAt(w, i) \in Punctuation
  BY FirstDecides
<1>2. IsLexeme(SubSeq(w, i, j - 1)) /\ TokenOf(SubSeq(w, i, j - 1)) = SymbolToken(SubSeq(w, i, j - 1))
  BY <1>1, FirstDecides, TokenKinds
<1>3. ASSUME NEW k \in j + 1 .. Len(w) + 1 PROVE ~IsLexeme(SubSeq(w, i, k - 1))
  <2>1. k \in i + 1 .. Len(w) + 1
    OBVIOUS
  <2>2. ~SymbolAt(w, i, k)
    <3>1. SUFFICES ASSUME SymbolAt(w, i, k) PROVE FALSE
      OBVIOUS
    <3>2. k \in {i + 1, i + 2}
      BY <3>1 DEF SymbolAt
    <3>3. k = i + 2 /\ j = i + 1
      BY <3>2
    <3>. QED
      BY <3>1, <3>3
  <2>. QED
    BY <1>1, <2>1, <2>2, FirstDecides
<1>. QED
  BY <1>2, <1>3, LongestIs

Pairs == {<<":", "=">>, <<">", "=">>, <<"<", "=">>, <<"<", ">">>}

LEMMA OneCharacterFound ==
  ASSUME NEW w \in Seq(Char), NEW i \in 1 .. Len(w), CharAt(w, i) \in Punctuation,
         <<CharAt(w, i), CharAt(w, i + 1)>> \notin Pairs
  PROVE  Lexeme(w, i) = [from |-> i, to |-> i + 1, token |-> SymbolToken(<<CharAt(w, i)>>)]
<1>1. i + 1 \in i + 1 .. Len(w) + 1 /\ i + 1 # i + 2
  OBVIOUS
<1>2. SymbolAt(w, i, i + 1) /\ ~SymbolAt(w, i, i + 2)
  <2>1. i + 2 # i + 1
    OBVIOUS
  <2>. QED
    BY <2>1 DEF SymbolAt, Pairs
<1>3. SubSeq(w, i, (i + 1) - 1) = <<CharAt(w, i)>>
  BY <1>1, ShortWord
<1>4. Lexeme(w, i) = [from |-> i, to |-> i + 1, token |-> SymbolToken(SubSeq(w, i, (i + 1) - 1))]
  BY <1>1, <1>2, SymbolFound
<1>. QED
  BY <1>3, <1>4

LEMMA TwoCharactersFound ==
  ASSUME NEW w \in Seq(Char), NEW i \in 1 .. Len(w), i + 1 \in 1 .. Len(w),
         <<CharAt(w, i), CharAt(w, i + 1)>> \in Pairs
  PROVE  Lexeme(w, i) = [from |-> i, to |-> i + 2,
                         token |-> SymbolToken(<<CharAt(w, i), CharAt(w, i + 1)>>)]
<1>1. i + 2 \in i + 1 .. Len(w) + 1 /\ i + 1 # i + 2
  OBVIOUS
<1>2. SymbolAt(w, i, i + 2)
  BY DEF SymbolAt, Pairs
<1>3. SubSeq(w, i, (i + 2) - 1) = <<CharAt(w, i), CharAt(w, i + 1)>>
  BY <1>1, ShortWord
<1>4. Lexeme(w, i) = [from |-> i, to |-> i + 2, token |-> SymbolToken(SubSeq(w, i, (i + 2) - 1))]
  BY <1>1, <1>2, SymbolFound
<1>. QED
  BY <1>3, <1>4

\* The tokens of the symbols.
LEMMA SymbolTokens ==
  /\ SymbolToken(<<":">>) = Tok("COLON", "none")
  /\ SymbolToken(<<":", "=">>) = Tok("ASSIGNOP", "none")
  /\ SymbolToken(<<">", "=">>) = Tok("RELOP", "GE")
  /\ SymbolToken(<<"<", "=">>) = Tok("RELOP", "LE")
  /\ SymbolToken(<<"<", ">">>) = Tok("RELOP", "NE")
  /\ \A ch \in {"<", ">", "="} : SymbolToken(<<ch>>) = Tok("RELOP", ch)
  /\ \A ch \in Single : SymbolToken(<<ch>>) = SingleToken(ch)
<1>1. /\ \A x, y, z : <<x>> # <<y, z>>
      /\ \A x, y : <<x>> = <<y>> => x = y
      /\ \A x, y, a, b : <<x, y>> = <<a, b>> => x = a /\ y = b
  OBVIOUS
<1>2. \A ch \in Single : ch \notin {":", "<", ">", "="}
  BY DEF Single, EOFC
<1>3. SymbolToken(<<":">>) = Tok("COLON", "none")
  BY <1>1 DEF SymbolToken
<1>4. SymbolToken(<<":", "=">>) = Tok("ASSIGNOP", "none")
  BY <1>1 DEF SymbolToken
<1>5. SymbolToken(<<">", "=">>) = Tok("RELOP", "GE")
  BY <1>1 DEF SymbolToken
<1>6. SymbolToken(<<"<", "=">>) = Tok("RELOP", "LE")
  BY <1>1 DEF SymbolToken
<1>7. SymbolToken(<<"<", ">">>) = Tok("RELOP", "NE")
  BY <1>1 DEF SymbolToken
<1>8. ASSUME NEW ch \in {"<", ">", "="} PROVE SymbolToken(<<ch>>) = Tok("RELOP", ch)
  <2>1. <<ch>> \in {<<"<">>, <<">">>, <<"=">>} /\ <<ch>>[1] = ch /\ <<ch>> # <<":">>
    BY <1>1
  <2>. QED
    BY <1>1, <2>1 DEF SymbolToken
<1>9. ASSUME NEW ch \in Single PROVE SymbolToken(<<ch>>) = SingleToken(ch)
  <2>1. <<ch>> \notin {<<"<">>, <<">">>, <<"=">>} /\ <<ch>>[1] = ch /\ <<ch>> # <<":">>
    BY <1>1, <1>2
  <2>. QED
    BY <1>1, <2>1 DEF SymbolToken
<1>. QED
  BY <1>3, <1>4, <1>5, <1>6, <1>7, <1>8, <1>9

\* A character of no class is not recognized.
LEMMA NothingFound ==
  ASSUME NEW w \in Seq(Char), NEW i \in 1 .. Len(w),
         CharAt(w, i) \notin Blank \cup Letter \cup Digit \cup Punctuation
  PROVE  Lexeme(w, i) = [from |-> i, to |-> i + 1, token |-> NoMatch]
<1>1. \A k \in i + 1 .. Len(w) + 1 : ~IsLexeme(SubSeq(w, i, k - 1))
  BY FirstDecides
<1>2. i + 1 \in i + 1 .. Len(w) + 1
  OBVIOUS
<1>3. TokenOf(SubSeq(w, i, (i + 1) - 1)) = NoMatch
  BY <1>1, <1>2, TokenKinds
<1>. QED
  BY <1>1, <1>3, NoneIs

-----------------------------------------------------------------------------
(* The steps of the machines, again: what they know of the word.           *)

LEMMA SpanGrows ==
  ASSUME NEW w, NEW class, NEW a \in Int, NEW b \in Int, a <= b
  PROVE  /\ Span(w, class, a, a)
         /\ Span(w, class, a, b) /\ CharAt(w, b) \in class => Span(w, class, a, b + 1)
BY DEF Span

\* Where a running machine is, from the invariant.
LEMMA RunningMachine ==
  ASSUME PlaceInvariant, Munches, m \in Machine, token = Empty
  PROVE  /\ line \in Seq(Char) /\ in \in 1 .. Len(line) /\ End = Len(line) + 1
         /\ f \in Int /\ dot \in Int /\ e \in Int /\ sign \in Int
         /\ s = 1 => f = in
         /\ s \notin {0, 1} => in < f
         /\ Looks => f <= End
         /\ Tried /\ Seen
BY LinesAssumption DEF PlaceInvariant, MTypeOK, Position, Munches, Machine, End

\* A turn of the loop leaves what earlier machines found out.
LEMMA TurnKeepsTried ==
  ASSUME Tried, UNCHANGED <<line, in, m>>
  PROVE  Tried'
BY DEF Tried, Refuted, At, End

LEMMA MunchesOn ==
  ASSUME Munches, m \in Machine, UNCHANGED <<line, in, m>>,
         \/ token' = Empty /\ Seen'
         \/ /\ token' \notin {Empty, NoMatch}
            /\ Lexeme(line, in) = [from |-> in, to |-> f', token |-> token']
  PROVE  Munches'
<1>1. Tried'
  BY TurnKeepsTried DEF Munches, Machine
<1>2. Empty # NoMatch
  BY DEF NoMatch, LexErr, Empty, Tok
<1>. QED
  BY <1>1, <1>2 DEF Munches

LEMMA WhitespaceMunches == PlaceInvariant /\ Munches /\ WhitespaceMachine => Munches'
<1>. SUFFICES ASSUME PlaceInvariant, Munches, WhitespaceMachine PROVE Munches'
  OBVIOUS
<1>1. m = "whitespace" /\ m \in Machine /\ token = Empty /\ UNCHANGED <<line, in, m>>
  BY DEF WhitespaceMachine, Runs, Machine
<1>2. /\ line \in Seq(Char) /\ in \in 1 .. Len(line) /\ End = Len(line) + 1 /\ f \in Int
      /\ s = 1 => f = in
      /\ s \notin {0, 1} => in < f
      /\ Looks => f <= End
      /\ s = 2 => Span(line, Blank, in, f)
  BY <1>1, RunningMachine DEF Seen
<1>3. c = CharAt(line, f)
  BY DEF c, At
<1>4. CASE s = 1 /\ GoTo(IF c \in Blank THEN 2 ELSE 0)
  <2>1. token' = Empty /\ f' = in + 1 /\ s' = IF c \in Blank THEN 2 ELSE 0
    BY <1>1, <1>2, <1>4 DEF GoTo
  <2>2. c \in Blank => Span(line, Blank, in, in + 1)
    BY <1>2, <1>3, <1>4, SpanGrows
  <2>3. c \notin Blank => Refuted(m)'
    BY <1>1, <1>2, <1>3, <1>4 DEF Refuted, At
  <2>4. Seen'
    BY <1>1, <2>1, <2>2, <2>3 DEF Seen
  <2>. QED
    BY <1>1, <2>1, <2>4, MunchesOn
<1>5. CASE s = 2 /\ c \in Blank /\ GoTo(2)
  <2>1. token' = Empty /\ f' = f + 1 /\ s' = 2
    BY <1>1, <1>5 DEF GoTo
  <2>2. Span(line, Blank, in, f + 1)
    BY <1>2, <1>3, <1>5, SpanGrows
  <2>3. Seen'
    BY <1>1, <2>1, <2>2 DEF Seen
  <2>. QED
    BY <1>1, <2>1, <2>3, MunchesOn
<1>6. CASE s = 2 /\ c \notin Blank /\ Accept(Tok("WHITESPACE", "none"), f)
  <2>1. f' = f /\ token' = Tok("WHITESPACE", "none") /\ token' \notin {Empty, NoMatch}
    BY <1>6 DEF Accept, Tok, Empty, NoMatch, LexErr
  <2>2. f \in in + 1 .. Len(line) + 1
    BY <1>1, <1>2, <1>6 DEF Looks
  <2>3. Lexeme(line, in) = [from |-> in, to |-> f, token |-> Tok("WHITESPACE", "none")]
    BY <1>2, <1>3, <1>6, <2>2, BlankFound
  <2>. QED
    BY <1>1, <2>1, <2>3, MunchesOn
<1>. QED
  BY <1>4, <1>5, <1>6 DEF WhitespaceMachine

\* What the tables give for a name and a number is not "no match".
LEMMA TokensAreMatches ==
  /\ \A w : NameToken(w) \notin {Empty, NoMatch}
  /\ \A w : IntToken(w) \notin {Empty, NoMatch}
  /\ \A first, xx, yy, zz, kind : FloatToken(first, xx, yy, zz, kind) \notin {Empty, NoMatch}
  /\ \A ch \in Single : SingleToken(ch) \notin {Empty, NoMatch}
  /\ \A a : Tok("RELOP", a) \notin {Empty, NoMatch}
  /\ Tok("COLON", "none") \notin {Empty, NoMatch} /\ Tok("ASSIGNOP", "none") \notin {Empty, NoMatch}
<1>1. \A t, a : Tok(t, a) \in {Empty, NoMatch} => t = "EMPTY" \/ (t = "LEXERR" /\ a = "NO_MATCH")
  BY DEF Tok, Empty, NoMatch, LexErr
<1>2. ASSUME NEW w PROVE NameToken(w) \notin {Empty, NoMatch}
  <2>1. CASE w \in DOMAIN Reserved
    <3>1. Reserved[w].type \in Word \cup {"ADDOP", "MULOP"} /\ NameToken(w) = Reserved[w]
      BY <2>1, ReservedAssumption DEF NameToken
    <3>. QED
      BY <3>1 DEF Word, Tok, Empty, NoMatch, LexErr
  <2>2. CASE w \notin DOMAIN Reserved
    BY <1>1, <2>2 DEF NameToken, LexErr
  <2>. QED
    BY <2>1, <2>2
<1>3. \A w : IntToken(w) \notin {Empty, NoMatch}
  BY <1>1 DEF IntToken, LexErr, Num
<1>4. \A first, xx, yy, zz, kind : FloatToken(first, xx, yy, zz, kind) \notin {Empty, NoMatch}
  BY <1>1 DEF FloatToken, LexErr, Num
<1>5. ASSUME NEW ch \in Single PROVE SingleToken(ch) \notin {Empty, NoMatch}
  BY DEF SingleToken, Tok, Empty, NoMatch, LexErr, Single, EOFC
<1>6. \A a : Tok("RELOP", a) \notin {Empty, NoMatch}
  BY <1>1
<1>7. Tok("COLON", "none") \notin {Empty, NoMatch} /\ Tok("ASSIGNOP", "none") \notin {Empty, NoMatch}
  BY <1>1
<1>. QED
  BY <1>2, <1>3, <1>4, <1>5, <1>6, <1>7

LEMMA IdResMunches == PlaceInvariant /\ Munches /\ IdResMachine => Munches'
<1>. SUFFICES ASSUME PlaceInvariant, Munches, IdResMachine PROVE Munches'
  OBVIOUS
<1>1. m = "idres" /\ m \in Machine /\ token = Empty /\ UNCHANGED <<line, in, m>>
  BY DEF IdResMachine, Runs, Machine
<1>2. /\ line \in Seq(Char) /\ in \in 1 .. Len(line) /\ End = Len(line) + 1 /\ f \in Int
      /\ s = 1 => f = in
      /\ s \notin {0, 1} => in < f
      /\ Looks => f <= End
      /\ s = 2 => CharAt(line, in) \in Letter /\ Span(line, Alnum, in, f)
  BY <1>1, RunningMachine DEF Seen, At
<1>3. c = CharAt(line, f)
  BY DEF c, At
<1>4. CASE s = 1 /\ GoTo(IF c \in Letter THEN 2 ELSE 0)
  <2>1. token' = Empty /\ f' = in + 1 /\ s' = IF c \in Letter THEN 2 ELSE 0
    BY <1>1, <1>2, <1>4 DEF GoTo
  <2>2. c \in Letter => CharAt(line, in) \in Letter /\ Span(line, Alnum, in, in + 1)
    BY <1>2, <1>3, <1>4, SpanGrows DEF Alnum
  <2>3. c \notin Letter => Refuted(m)'
    BY <1>1, <1>2, <1>3, <1>4 DEF Refuted, At
  <2>4. Seen'
    BY <1>1, <2>1, <2>2, <2>3 DEF Seen, At
  <2>. QED
    BY <1>1, <2>1, <2>4, MunchesOn
<1>5. CASE s = 2 /\ c \in Alnum /\ GoTo(2)
  <2>1. token' = Empty /\ f' = f + 1 /\ s' = 2
    BY <1>1, <1>5 DEF GoTo
  <2>2. Span(line, Alnum, in, f + 1)
    BY <1>2, <1>3, <1>5, SpanGrows
  <2>3. Seen'
    BY <1>1, <1>2, <1>5, <2>1, <2>2 DEF Seen, At
  <2>. QED
    BY <1>1, <2>1, <2>3, MunchesOn
<1>6. CASE s = 2 /\ c \notin Alnum /\ Accept(NameToken(Lexed(in, f)), f)
  <2>1. f' = f /\ token' = NameToken(SubSeq(line, in, f - 1)) /\ token' \notin {Empty, NoMatch}
    BY <1>6, TokensAreMatches DEF Accept, Lexed
  <2>2. f \in in + 1 .. Len(line) + 1
    BY <1>1, <1>2, <1>6 DEF Looks
  <2>3. Lexeme(line, in) = [from |-> in, to |-> f, token |-> NameToken(SubSeq(line, in, f - 1))]
    BY <1>2, <1>3, <1>6, <2>2, NameFound
  <2>. QED
    BY <1>1, <2>1, <2>3, MunchesOn
<1>. QED
  BY <1>4, <1>5, <1>6 DEF IdResMachine

LEMMA IntMunches == PlaceInvariant /\ Munches /\ IntMachine => Munches'
<1>. SUFFICES ASSUME PlaceInvariant, Munches, IntMachine PROVE Munches'
  OBVIOUS
<1>1. m = "int" /\ m \in Machine /\ token = Empty /\ UNCHANGED <<line, in, m>>
  BY DEF IntMachine, Runs, Machine
<1>2. /\ line \in Seq(Char) /\ in \in 1 .. Len(line) /\ End = Len(line) + 1 /\ f \in Int
      /\ s = 1 => f = in
      /\ s \notin {0, 1} => in < f
      /\ Looks => f <= End
      /\ s = 2 => Span(line, Digit, in, f)
  BY <1>1, RunningMachine DEF Seen
<1>3. c = CharAt(line, f)
  BY DEF c, At
<1>4. CASE s = 1 /\ GoTo(IF c \in Digit THEN 2 ELSE 0)
  <2>1. token' = Empty /\ f' = in + 1 /\ s' = IF c \in Digit THEN 2 ELSE 0
    BY <1>1, <1>2, <1>4 DEF GoTo
  <2>2. c \in Digit => Span(line, Digit, in, in + 1)
    BY <1>2, <1>3, <1>4, SpanGrows
  <2>3. c \notin Digit => Refuted(m)'
    BY <1>1, <1>2, <1>3, <1>4 DEF Refuted, At
  <2>4. Seen'
    BY <1>1, <2>1, <2>2, <2>3 DEF Seen
  <2>. QED
    BY <1>1, <2>1, <2>4, MunchesOn
<1>5. CASE s = 2 /\ c \in Digit /\ GoTo(2)
  <2>1. token' = Empty /\ f' = f + 1 /\ s' = 2
    BY <1>1, <1>5 DEF GoTo
  <2>2. Span(line, Digit, in, f + 1)
    BY <1>2, <1>3, <1>5, SpanGrows
  <2>3. Seen'
    BY <1>1, <2>1, <2>2 DEF Seen
  <2>. QED
    BY <1>1, <2>1, <2>3, MunchesOn
<1>6. CASE s = 2 /\ c \notin Digit /\ Accept(IntToken(Lexed(in, f)), f)
  <2>1. f' = f /\ token' = IntToken(SubSeq(line, in, f - 1)) /\ token' \notin {Empty, NoMatch}
    BY <1>6, TokensAreMatches DEF Accept, Lexed
  <2>2. f \in in + 1 .. Len(line) + 1
    BY <1>1, <1>2, <1>6 DEF Looks
  <2>3. NoReal(line, in) /\ NoLongReal(line, in)
    BY <1>1, <1>2, RunningMachine DEF Tried, Refuted, NoReal, NoLongReal
  <2>4. Lexeme(line, in) = [from |-> in, to |-> f, token |-> IntToken(SubSeq(line, in, f - 1))]
    BY <1>2, <1>3, <1>6, <2>2, <2>3, IntFound
  <2>. QED
    BY <1>1, <2>1, <2>4, MunchesOn
<1>. QED
  BY <1>4, <1>5, <1>6 DEF IntMachine

\* A real is left out where there are no digits, no period behind them, or no
\* digit behind that.
LEMMA NoRealBy ==
  ASSUME NEW w \in Seq(Char), NEW i \in 1 .. Len(w), NEW p \in Int, i <= p,
         \/ CharAt(w, i) \notin Digit
         \/ Span(w, Digit, i, p) /\ CharAt(w, p) \notin Digit \cup {"."}
         \/ WholeAt(w, i, p) /\ CharAt(w, p + 1) \notin Digit
  PROVE  NoReal(w, i)
<1>1. SUFFICES ASSUME NEW d \in i .. Len(w) + 1, NEW j \in i .. Len(w) + 1, RealAt(w, i, d, j) PROVE FALSE
  BY DEF NoReal
<1>2. /\ WholeAt(w, i, d) /\ i < d /\ Span(w, Digit, i, d) /\ CharAt(w, d) = "."
      /\ d + 1 < j /\ Span(w, Digit, d + 1, j) /\ "." \notin Digit
  BY <1>1, ClassesAreDisjoint DEF RealAt, WholeAt
<1>3. CharAt(w, i) \in Digit
  <2>1. i \in i .. d - 1
    BY <1>2
  <2>. QED
    BY <1>2, <2>1 DEF Span
<1>4. CASE Span(w, Digit, i, p) /\ CharAt(w, p) \notin Digit \cup {"."}
  <2>1. p # d /\ ~(p < d)
    <3>1. p < d => p \in i .. d - 1
      OBVIOUS
    <3>. QED
      BY <1>2, <1>4, <3>1 DEF Span
  <2>2. d \in i .. p - 1
    BY <2>1
  <2>. QED
    BY <1>2, <1>4, <2>2 DEF Span
<1>5. CASE WholeAt(w, i, p) /\ CharAt(w, p + 1) \notin Digit
  <2>1. d = p
    BY <1>2, <1>5, WholeIsUnique
  <2>2. p + 1 \in p + 1 .. j - 1
    BY <1>2, <2>1
  <2>. QED
    BY <1>2, <1>5, <2>1, <2>2 DEF Span
<1>. QED
  BY <1>3, <1>4, <1>5

LEMMA RealMunches == PlaceInvariant /\ Munches /\ RealMachine => Munches'
<1>. SUFFICES ASSUME PlaceInvariant, Munches, RealMachine PROVE Munches'
  OBVIOUS
<1>1. m = "real" /\ m \in Machine /\ token = Empty /\ UNCHANGED <<line, in, m>>
  BY DEF RealMachine, Runs, Machine
<1>2. /\ line \in Seq(Char) /\ in \in 1 .. Len(line) /\ End = Len(line) + 1 /\ f \in Int /\ dot \in Int
      /\ s = 1 => f = in
      /\ s \notin {0, 1} => in < f
      /\ Looks => f <= End
      /\ s = 2 => Span(line, Digit, in, f)
      /\ s = 3 => WholeAt(line, in, dot) /\ f = dot + 1
      /\ s = 4 => RealAt(line, in, dot, f)
      /\ s = 5 => RealAt(line, in, dot, f - 1) /\ CharAt(line, f - 1) \notin Digit
  BY <1>1, RunningMachine DEF Seen, At
<1>3. c = CharAt(line, f) /\ End' = End
  BY <1>1 DEF c, At, End
<1>4. NoReal(line, in) => Refuted(m)'
  BY <1>1, <1>2, <1>3 DEF Refuted, NoReal
<1>5. CASE s = 1 /\ GoTo(IF c \in Digit THEN 2 ELSE 0)
  <2>1. token' = Empty /\ f' = in + 1 /\ s' = IF c \in Digit THEN 2 ELSE 0
    BY <1>1, <1>2, <1>5 DEF GoTo
  <2>2. c \in Digit => Span(line, Digit, in, in + 1)
    BY <1>2, <1>3, <1>5, SpanGrows
  <2>3. c \notin Digit => NoReal(line, in)
    BY <1>2, <1>3, <1>5, NoRealBy
  <2>4. Seen'
    BY <1>1, <1>4, <2>1, <2>2, <2>3 DEF Seen
  <2>. QED
    BY <1>1, <2>1, <2>4, MunchesOn
<1>6. CASE s = 2 /\ c = "." /\ GoTo(3) /\ MarkDot
  <2>1. token' = Empty /\ f' = f + 1 /\ s' = 3 /\ dot' = f
    BY <1>1, <1>6 DEF GoTo, MarkDot
  <2>2. WholeAt(line, in, f)
    BY <1>2, <1>3, <1>6 DEF WholeAt
  <2>3. Seen'
    BY <1>1, <2>1, <2>2 DEF Seen
  <2>. QED
    BY <1>1, <2>1, <2>3, MunchesOn
<1>7. CASE s = 2 /\ c # "." /\ GoTo(IF c \in Digit THEN 2 ELSE 0)
  <2>1. token' = Empty /\ f' = f + 1 /\ s' = IF c \in Digit THEN 2 ELSE 0
    BY <1>1, <1>7 DEF GoTo
  <2>2. c \in Digit => Span(line, Digit, in, f + 1)
    BY <1>2, <1>3, <1>7, SpanGrows
  <2>3. c \notin Digit => NoReal(line, in)
    BY <1>2, <1>3, <1>7, NoRealBy
  <2>4. Seen'
    BY <1>1, <1>4, <2>1, <2>2, <2>3 DEF Seen
  <2>. QED
    BY <1>1, <2>1, <2>4, MunchesOn
<1>8. CASE s = 3 /\ c \in Digit /\ GoTo(4) /\ UNCHANGED marks
  <2>1. token' = Empty /\ f' = f + 1 /\ s' = 4 /\ dot' = dot
    BY <1>1, <1>8 DEF GoTo, marks
  <2>2. RealAt(line, in, dot, f + 1)
    BY <1>2, <1>3, <1>8, SpanGrows DEF RealAt
  <2>3. Seen'
    BY <1>1, <2>1, <2>2 DEF Seen
  <2>. QED
    BY <1>1, <2>1, <2>3, MunchesOn
<1>9. CASE s = 3 /\ c \notin Digit /\ s' = 0 /\ UNCHANGED <<f, token, marks>>
  <2>1. NoReal(line, in)
    <3>1. in <= dot
      BY <1>2, <1>9 DEF WholeAt
    <3>. QED
      BY <1>2, <1>3, <1>9, <3>1, NoRealBy
  <2>2. Seen'
    BY <1>1, <1>4, <1>9, <2>1 DEF Seen
  <2>. QED
    BY <1>1, <1>9, <2>2, MunchesOn
<1>10. CASE s = 4 /\ GoTo(IF c \in Digit THEN 4 ELSE 5) /\ UNCHANGED marks
  <2>1. token' = Empty /\ f' = f + 1 /\ dot' = dot /\ f' - 1 = f /\ s' = IF c \in Digit THEN 4 ELSE 5
    BY <1>1, <1>2, <1>10 DEF GoTo, marks
  <2>2. c \in Digit => RealAt(line, in, dot, f + 1)
    <3>1. dot + 1 <= f /\ dot + 1 < f + 1
      BY <1>2, <1>10 DEF RealAt
    <3>. QED
      BY <1>2, <1>3, <1>10, <3>1, SpanGrows DEF RealAt
  <2>3. c \in Digit => Seen'
    BY <1>1, <2>1, <2>2 DEF Seen
  <2>4. c \notin Digit => Seen'
    BY <1>1, <1>2, <1>3, <1>10, <2>1 DEF Seen, At
  <2>. QED
    BY <1>1, <2>1, <2>3, <2>4, MunchesOn
<1>11. CASE s = 5 /\ Accept(FloatToken(line[in], dot - in, (f - 1) - dot - 1, 0, "REAL"), f - 1)
  <2>1. /\ f' = f - 1 /\ line[in] = CharAt(line, in)
        /\ token' = FloatToken(CharAt(line, in), dot - in, (f - 1) - dot - 1, 0, "REAL")
        /\ token' \notin {Empty, NoMatch}
    BY <1>2, <1>11, TokensAreMatches DEF Accept, CharAt
  <2>2. f - 1 \in in + 1 .. Len(line) + 1
    <3>1. f <= End + 1
      BY <1>1, <1>11 DEF PlaceInvariant, Position
    <3>2. in < dot /\ dot + 1 < f - 1
      BY <1>2, <1>11 DEF RealAt, WholeAt
    <3>. QED
      BY <1>2, <3>1, <3>2
  <2>3. NoLongReal(line, in)
    BY <1>1, <1>2, RunningMachine DEF Tried, Refuted, NoLongReal
  <2>4. Lexeme(line, in) = [from |-> in, to |-> f - 1,
                            token |-> FloatToken(CharAt(line, in), dot - in, (f - 1) - dot - 1, 0, "REAL")]
    BY <1>2, <1>11, <2>2, <2>3, RealFound
  <2>. QED
    BY <1>1, <2>1, <2>4, MunchesOn
<1>. QED
  BY <1>5, <1>6, <1>7, <1>8, <1>9, <1>10, <1>11 DEF RealMachine

\* A long real is left out where there are no digits, no period behind them, no
\* "E" behind the fraction, or no digit where the exponent should be.
LEMMA NoLongRealBy ==
  ASSUME NEW w \in Seq(Char), NEW i \in 1 .. Len(w), NEW p \in Int, NEW q \in Int, i <= p,
         \/ CharAt(w, i) \notin Digit
         \/ Span(w, Digit, i, p) /\ CharAt(w, p) \notin Digit \cup {"."}
         \/ FractionAt(w, i, p, q) /\ CharAt(w, q) \notin Digit \cup {"E"}
         \/ FractionAt(w, i, p, q) /\ CharAt(w, q) = "E" /\ CharAt(w, ExponentFrom(w, q)) \notin Digit
  PROVE  NoLongReal(w, i)
<1>1. SUFFICES ASSUME NEW d \in i .. Len(w) + 1, NEW x \in d .. Len(w) + 1, NEW j \in d .. Len(w) + 1,
                      LongRealAt(w, i, d, x, j)
               PROVE  FALSE
  BY DEF NoLongReal
<1>2. /\ WholeAt(w, i, d) /\ i < d /\ Span(w, Digit, i, d) /\ CharAt(w, d) = "."
      /\ FractionAt(w, i, d, x) /\ d < x /\ Span(w, Digit, d + 1, x) /\ CharAt(w, x) = "E"
      /\ ExponentFrom(w, x) < j /\ Span(w, Digit, ExponentFrom(w, x), j)
      /\ "." \notin Digit /\ "E" \notin Digit
  BY <1>1, ClassesAreDisjoint DEF LongRealAt, FractionAt, WholeAt
<1>3. CharAt(w, i) \in Digit
  <2>1. i \in i .. d - 1
    BY <1>2
  <2>. QED
    BY <1>2, <2>1 DEF Span
<1>4. CASE Span(w, Digit, i, p) /\ CharAt(w, p) \notin Digit \cup {"."}
  <2>1. p # d /\ ~(p < d)
    <3>1. p < d => p \in i .. d - 1
      OBVIOUS
    <3>. QED
      BY <1>2, <1>4, <3>1 DEF Span
  <2>2. d \in i .. p - 1
    BY <2>1
  <2>. QED
    BY <1>2, <1>4, <2>2 DEF Span
<1>5. CASE FractionAt(w, i, p, q) /\ CharAt(w, q) \notin Digit \cup {"E"}
  <2>1. p = d /\ d < q /\ Span(w, Digit, d + 1, q)
    BY <1>2, <1>5, WholeIsUnique DEF FractionAt
  <2>2. q # x /\ ~(q < x)
    <3>1. q < x => q \in d + 1 .. x - 1
      BY <2>1
    <3>. QED
      BY <1>2, <1>5, <3>1 DEF Span
  <2>3. x \in d + 1 .. q - 1
    BY <1>2, <2>2
  <2>. QED
    BY <1>2, <2>1, <2>3 DEF Span
<1>6. CASE FractionAt(w, i, p, q) /\ CharAt(w, q) = "E" /\ CharAt(w, ExponentFrom(w, q)) \notin Digit
  <2>1. p = d
    BY <1>2, <1>6, WholeIsUnique DEF FractionAt
  <2>2. q = x
    BY <1>2, <1>6, <2>1, FractionIsUnique
  <2>3. ExponentFrom(w, x) \in ExponentFrom(w, x) .. j - 1
    BY <1>2 DEF ExponentFrom
  <2>. QED
    BY <1>2, <1>6, <2>2, <2>3 DEF Span
<1>. QED
  BY <1>3, <1>4, <1>5, <1>6

LEMMA LongRealMunches == PlaceInvariant /\ Munches /\ LongRealMachine => Munches'
<1>. SUFFICES ASSUME PlaceInvariant, Munches, LongRealMachine PROVE Munches'
  OBVIOUS
<1>1. m = "longreal" /\ m \in Machine /\ token = Empty /\ UNCHANGED <<line, in, m>>
  BY DEF LongRealMachine, Runs, Machine
<1>2. /\ line \in Seq(Char) /\ in \in 1 .. Len(line) /\ End = Len(line) + 1
      /\ f \in Int /\ dot \in Int /\ e \in Int /\ sign \in Int
      /\ s = 1 => f = in
      /\ s \notin {0, 1} => in < f
      /\ Looks => f <= End
      /\ s = 2 => Span(line, Digit, in, f)
      /\ s \in 1 .. 5 => sign = 0
      /\ s = 3 => FractionAt(line, in, dot, f)
      /\ s \in 4 .. 7 => FractionAt(line, in, dot, e) /\ CharAt(line, e) = "E"
      /\ s = 4 => f = e + 1
      /\ s = 5 => f = e + 2 /\ CharAt(line, e + 1) \in Plus
      /\ s \in 6 .. 7 => ExponentFrom(line, e) = e + 1 + sign
      /\ s = 6 => LongRealAt(line, in, dot, e, f)
      /\ s = 7 => LongRealAt(line, in, dot, e, f - 1) /\ CharAt(line, f - 1) \notin Digit
  BY <1>1, RunningMachine DEF Seen, At
<1>3. c = CharAt(line, f) /\ End' = End
  BY <1>1 DEF c, At, End
<1>4. NoLongReal(line, in) => Refuted(m)'
  BY <1>1, <1>2, <1>3 DEF Refuted, NoLongReal
<1>5. CASE s = 1 /\ GoTo(IF c \in Digit THEN 2 ELSE 0) /\ UNCHANGED marks
  <2>1. token' = Empty /\ f' = in + 1 /\ sign' = 0 /\ s' = IF c \in Digit THEN 2 ELSE 0
    BY <1>1, <1>2, <1>5 DEF GoTo, marks
  <2>2. c \in Digit => Span(line, Digit, in, in + 1)
    BY <1>2, <1>3, <1>5, SpanGrows
  <2>3. c \notin Digit => NoLongReal(line, in)
    BY <1>2, <1>3, <1>5, NoLongRealBy
  <2>4. Seen'
    BY <1>1, <1>4, <2>1, <2>2, <2>3 DEF Seen
  <2>. QED
    BY <1>1, <2>1, <2>4, MunchesOn
<1>6. CASE s = 2 /\ c = "." /\ GoTo(3) /\ MarkDot
  <2>1. token' = Empty /\ f' = f + 1 /\ s' = 3 /\ dot' = f /\ sign' = 0
    BY <1>1, <1>2, <1>6 DEF GoTo, MarkDot
  <2>2. FractionAt(line, in, f, f + 1)
    BY <1>2, <1>3, <1>6, SpanGrows DEF WholeAt, FractionAt
  <2>3. Seen'
    BY <1>1, <2>1, <2>2 DEF Seen
  <2>. QED
    BY <1>1, <2>1, <2>3, MunchesOn
<1>7. CASE s = 2 /\ c # "." /\ GoTo(IF c \in Digit THEN 2 ELSE 0) /\ UNCHANGED marks
  <2>1. token' = Empty /\ f' = f + 1 /\ sign' = 0 /\ s' = IF c \in Digit THEN 2 ELSE 0
    BY <1>1, <1>2, <1>7 DEF GoTo, marks
  <2>2. c \in Digit => Span(line, Digit, in, f + 1)
    BY <1>2, <1>3, <1>7, SpanGrows
  <2>3. c \notin Digit => NoLongReal(line, in)
    BY <1>2, <1>3, <1>7, NoLongRealBy
  <2>4. Seen'
    BY <1>1, <1>4, <2>1, <2>2, <2>3 DEF Seen
  <2>. QED
    BY <1>1, <2>1, <2>4, MunchesOn
<1>8. CASE s = 3 /\ c = "E" /\ GoTo(4) /\ MarkE
  <2>1. token' = Empty /\ f' = f + 1 /\ s' = 4 /\ dot' = dot /\ e' = f /\ sign' = 0
    BY <1>1, <1>2, <1>8 DEF GoTo, MarkE
  <2>2. FractionAt(line, in, dot, f) /\ CharAt(line, f) = "E"
    BY <1>2, <1>3, <1>8
  <2>3. Seen'
    BY <1>1, <2>1, <2>2 DEF Seen, At
  <2>. QED
    BY <1>1, <2>1, <2>3, MunchesOn
<1>9. CASE s = 3 /\ c # "E" /\ GoTo(IF c \in Digit THEN 3 ELSE 0) /\ UNCHANGED marks
  <2>1. token' = Empty /\ f' = f + 1 /\ dot' = dot /\ sign' = 0 /\ s' = IF c \in Digit THEN 3 ELSE 0
    BY <1>1, <1>2, <1>9 DEF GoTo, marks
  <2>2. FractionAt(line, in, dot, f) /\ in <= dot /\ dot + 1 <= f /\ dot < f + 1
    BY <1>2, <1>9 DEF FractionAt, WholeAt
  <2>3. c \in Digit => FractionAt(line, in, dot, f + 1)
    BY <1>2, <1>3, <2>2, SpanGrows DEF FractionAt
  <2>4. c \notin Digit => NoLongReal(line, in)
    BY <1>2, <1>3, <1>9, <2>2, NoLongRealBy
  <2>5. Seen'
    BY <1>1, <1>4, <2>1, <2>3, <2>4 DEF Seen
  <2>. QED
    BY <1>1, <2>1, <2>5, MunchesOn
<1>10. CASE s = 4 /\ GoTo(IF c \in Plus THEN 5 ELSE IF c \in Digit THEN 6 ELSE 0) /\ UNCHANGED marks
  <2>1. /\ token' = Empty /\ f' = f + 1 /\ dot' = dot /\ e' = e /\ sign' = 0
        /\ s' = IF c \in Plus THEN 5 ELSE IF c \in Digit THEN 6 ELSE 0
    BY <1>1, <1>2, <1>10 DEF GoTo, marks
  <2>2. FractionAt(line, in, dot, e) /\ CharAt(line, e) = "E" /\ f = e + 1 /\ in <= dot
    BY <1>2, <1>10 DEF FractionAt, WholeAt
  <2>3. ASSUME c \in Plus PROVE Seen'
    <3>1. s' = 5 /\ f' = e + 2 /\ CharAt(line, e + 1) \in Plus
      BY <1>2, <1>3, <2>1, <2>2, <2>3
    <3>. QED
      BY <1>1, <2>1, <2>2, <3>1 DEF Seen, At
  <2>4. ASSUME c \in Digit, c \notin Plus PROVE Seen'
    <3>1. s' = 6 /\ ExponentFrom(line, e) = e + 1 /\ e + 1 = f
      BY <1>2, <1>3, <2>1, <2>2, <2>4 DEF ExponentFrom
    <3>2. LongRealAt(line, in, dot, e, f + 1)
      BY <1>2, <1>3, <2>2, <2>4, <3>1, SpanGrows DEF LongRealAt
    <3>. QED
      BY <1>1, <1>2, <2>1, <2>2, <3>1, <3>2 DEF Seen, At
  <2>5. ASSUME c \notin Digit, c \notin Plus PROVE Seen'
    <3>1. s' = 0 /\ ExponentFrom(line, e) = f
      BY <1>2, <1>3, <2>1, <2>2, <2>5 DEF ExponentFrom
    <3>2. NoLongReal(line, in)
      BY <1>2, <1>3, <2>2, <2>5, <3>1, NoLongRealBy
    <3>. QED
      BY <1>1, <1>4, <3>1, <3>2 DEF Seen
  <2>. QED
    BY <1>1, <2>1, <2>3, <2>4, <2>5, MunchesOn
<1>11. CASE s = 5 /\ GoTo(IF c \in Digit THEN 6 ELSE 0) /\ MarkSign
  <2>1. /\ token' = Empty /\ f' = f + 1 /\ dot' = dot /\ e' = e /\ sign' = 1
        /\ s' = IF c \in Digit THEN 6 ELSE 0
    BY <1>1, <1>2, <1>11 DEF GoTo, MarkSign
  <2>2. /\ FractionAt(line, in, dot, e) /\ CharAt(line, e) = "E" /\ in <= dot
        /\ ExponentFrom(line, e) = f /\ f = e + 1 + 1
    BY <1>2, <1>11 DEF FractionAt, WholeAt, ExponentFrom
  <2>3. ASSUME c \in Digit PROVE Seen'
    <3>1. LongRealAt(line, in, dot, e, f + 1)
      BY <1>2, <1>3, <2>2, <2>3, SpanGrows DEF LongRealAt
    <3>2. s' = 6
      BY <2>1, <2>3
    <3>. QED
      BY <1>1, <2>1, <2>2, <3>1, <3>2 DEF Seen, At
  <2>4. ASSUME c \notin Digit PROVE Seen'
    <3>1. NoLongReal(line, in) /\ s' = 0
      BY <1>2, <1>3, <2>1, <2>2, <2>4, NoLongRealBy
    <3>. QED
      BY <1>1, <1>4, <3>1 DEF Seen
  <2>. QED
    BY <1>1, <2>1, <2>3, <2>4, MunchesOn
<1>12. CASE s = 6 /\ GoTo(IF c \in Digit THEN 6 ELSE 7) /\ UNCHANGED marks
  <2>1. /\ token' = Empty /\ f' = f + 1 /\ f' - 1 = f /\ dot' = dot /\ e' = e /\ sign' = sign
        /\ s' = IF c \in Digit THEN 6 ELSE 7
    BY <1>1, <1>2, <1>12 DEF GoTo, marks
  <2>2. /\ LongRealAt(line, in, dot, e, f) /\ FractionAt(line, in, dot, e) /\ CharAt(line, e) = "E"
        /\ ExponentFrom(line, e) = e + 1 + sign /\ ExponentFrom(line, e) < f
    BY <1>2, <1>12 DEF LongRealAt
  <2>3. ASSUME c \in Digit PROVE Seen'
    <3>1. LongRealAt(line, in, dot, e, f + 1)
      <4>1. ExponentFrom(line, e) \in Int /\ ExponentFrom(line, e) <= f /\ ExponentFrom(line, e) < f + 1
        BY <1>2, <2>2
      <4>. QED
        BY <1>2, <1>3, <2>2, <2>3, <4>1, SpanGrows DEF LongRealAt
    <3>2. s' = 6
      BY <2>1, <2>3
    <3>. QED
      BY <1>1, <2>1, <2>2, <3>1, <3>2 DEF Seen, At
  <2>4. ASSUME c \notin Digit PROVE Seen'
    <3>1. s' = 7
      BY <2>1, <2>4
    <3>. QED
      BY <1>1, <1>3, <2>1, <2>2, <2>4, <3>1 DEF Seen, At
  <2>. QED
    BY <1>1, <2>1, <2>3, <2>4, MunchesOn
<1>13. CASE s = 7 /\ Accept(FloatToken(line[in], dot - in, e - dot - 1, (f - 1) - e - sign - 1, "LONGREAL"), f - 1)
  <2>1. /\ f' = f - 1 /\ line[in] = CharAt(line, in)
        /\ token' = FloatToken(CharAt(line, in), dot - in, e - dot - 1, (f - 1) - e - sign - 1, "LONGREAL")
        /\ token' \notin {Empty, NoMatch}
    BY <1>2, <1>13, TokensAreMatches DEF Accept, CharAt
  <2>2. f - 1 \in in + 1 .. Len(line) + 1
    <3>1. f <= End + 1
      BY <1>1, <1>13 DEF PlaceInvariant, Position
    <3>2. in < dot /\ dot < e /\ e < f - 1
      BY <1>2, <1>13 DEF LongRealAt, FractionAt, WholeAt, ExponentFrom
    <3>. QED
      BY <1>2, <3>1, <3>2
  <2>3. Lexeme(line, in) = [from |-> in, to |-> f - 1,
                            token |-> FloatToken(CharAt(line, in), dot - in, e - dot - 1,
                                                 (f - 1) - ExponentFrom(line, e), "LONGREAL")]
    BY <1>2, <1>13, <2>2, LongRealFound
  <2>4. (f - 1) - ExponentFrom(line, e) = (f - 1) - e - sign - 1
    BY <1>2, <1>13
  <2>. QED
    BY <1>1, <2>1, <2>3, <2>4, MunchesOn
<1>. QED
  BY <1>5, <1>6, <1>7, <1>8, <1>9, <1>10, <1>11, <1>12, <1>13 DEF LongRealMachine

LEMMA CatchAllMunches == PlaceInvariant /\ Munches /\ CatchAllMachine => Munches'
<1>. SUFFICES ASSUME PlaceInvariant, Munches, CatchAllMachine PROVE Munches'
  OBVIOUS
<1>. DEFINE ch == CharAt(line, in)
<1>1. m = "catchall" /\ m \in Machine /\ token = Empty /\ UNCHANGED <<line, in, m>>
  BY DEF CatchAllMachine, Runs, Machine
<1>2. /\ line \in Seq(Char) /\ in \in 1 .. Len(line) /\ End = Len(line) + 1 /\ f \in Int
      /\ s = 1 => f = in
      /\ s = 2 => f = in + 1 /\ ch = ":"
      /\ s = 3 => f = in + 1 /\ ch = ">"
      /\ s = 4 => f = in + 1 /\ ch = "<"
      /\ s = 5 => f = in + 1 /\ ch = "="
  <2>1. Seen
    BY <1>1, RunningMachine
  <2>2. /\ s = 2 => f = in + 1 /\ ch = <<":", ">", "<", "=">>[2 - 1]
        /\ s = 3 => f = in + 1 /\ ch = <<":", ">", "<", "=">>[3 - 1]
        /\ s = 4 => f = in + 1 /\ ch = <<":", ">", "<", "=">>[4 - 1]
        /\ s = 5 => f = in + 1 /\ ch = <<":", ">", "<", "=">>[5 - 1]
    BY <1>1, <2>1 DEF Seen, At
  <2>3. /\ <<":", ">", "<", "=">>[2 - 1] = ":" /\ <<":", ">", "<", "=">>[3 - 1] = ">"
        /\ <<":", ">", "<", "=">>[4 - 1] = "<" /\ <<":", ">", "<", "=">>[5 - 1] = "="
    OBVIOUS
  <2>. QED
    BY <1>1, <2>2, <2>3, RunningMachine
<1>3. c = CharAt(line, f)
  BY DEF c, At
<1>4. c # NUL => f \in 1 .. Len(line)
  BY <1>2, <1>3 DEF CharAt
<1>5. {":", ">", "<", "="} \subseteq Punctuation /\ Punctuation = Single \cup {":", ">", "<", "="}
      /\ NUL \notin {":", ">", "<", "="}
  BY DEF Punctuation, Single, NUL
\* The machine accepts a symbol of one character, or one of two.
<1>6. ASSUME ch \in Punctuation, <<ch, CharAt(line, in + 1)>> \notin Pairs, f' = in + 1,
             token' = SymbolToken(<<ch>>), token' \notin {Empty, NoMatch}
      PROVE  Munches'
  <2>1. Lexeme(line, in) = [from |-> in, to |-> in + 1, token |-> SymbolToken(<<ch>>)]
    BY <1>2, <1>6, OneCharacterFound
  <2>. QED
    BY <1>1, <1>6, <2>1, MunchesOn
<1>7. ASSUME f = in + 1, c # NUL, <<ch, c>> \in Pairs, f' = in + 2,
             token' = SymbolToken(<<ch, c>>), token' \notin {Empty, NoMatch}
      PROVE  Munches'
  <2>1. in + 1 \in 1 .. Len(line) /\ c = CharAt(line, in + 1)
    BY <1>3, <1>4, <1>7
  <2>2. Lexeme(line, in) = [from |-> in, to |-> in + 2,
                            token |-> SymbolToken(<<ch, CharAt(line, in + 1)>>)]
    BY <1>2, <1>7, <2>1, TwoCharactersFound
  <2>. QED
    BY <1>1, <1>7, <2>1, <2>2, MunchesOn
<1>. HIDE DEF ch
<1>8. CASE s = 1 /\ c \in Single /\ Accept(SingleToken(c), f + 1)
  <2>1. c = ch /\ f' = in + 1 /\ token' = SingleToken(ch) /\ ch \in Single
    BY <1>2, <1>3, <1>8 DEF Accept, ch
  <2>2. ch \in Punctuation /\ ch \notin {":", ">", "<"}
    BY <2>1 DEF Punctuation, Single, EOFC
  <2>3. \A y : <<ch, y>> \notin Pairs
    BY <2>2 DEF Pairs
  <2>4. token' = SymbolToken(<<ch>>) /\ token' \notin {Empty, NoMatch}
    BY <2>1, SymbolTokens, TokensAreMatches
  <2>. QED
    BY <1>6, <2>1, <2>2, <2>3, <2>4
<1>9. CASE /\ s = 1 /\ c \notin Single
           /\ GoTo(CASE c = ":" -> 2 [] c = ">" -> 3 [] c = "<" -> 4 [] c = "=" -> 5 [] OTHER -> 0)
  <2>1. c = ch /\ f' = in + 1 /\ token' = Empty
        /\ s' = CASE c = ":" -> 2 [] c = ">" -> 3 [] c = "<" -> 4 [] c = "=" -> 5 [] OTHER -> 0
    BY <1>1, <1>2, <1>3, <1>9 DEF GoTo, ch
  <2>2. ASSUME c \in {":", ">", "<", "="} PROVE Seen'
    <3>1. \/ s' = 2 /\ ch = ":"
          \/ s' = 3 /\ ch = ">"
          \/ s' = 4 /\ ch = "<"
          \/ s' = 5 /\ ch = "="
      BY <2>1, <2>2
    <3>2. s' \in 2 .. 5 /\ At(in)' = <<":", ">", "<", "=">>[s' - 1]
      BY <1>1, <3>1 DEF At, ch
    <3>. QED
      BY <1>1, <2>1, <3>1, <3>2 DEF Seen
  <2>3. ASSUME c \notin {":", ">", "<", "="} PROVE Seen'
    <3>1. s' = 0 /\ ch \notin Punctuation
      BY <1>5, <1>9, <2>1, <2>3
    <3>2. Refuted(m)'
      BY <1>1, <3>1 DEF Refuted, At, ch
    <3>. QED
      BY <1>1, <3>1, <3>2 DEF Seen
  <2>. QED
    BY <1>1, <2>1, <2>2, <2>3, MunchesOn
<1>10. CASE s = 2 /\ c = "=" /\ Accept(Tok("ASSIGNOP", "none"), f + 1)
  <2>1. f = in + 1 /\ f' = in + 2 /\ ch = ":" /\ c # NUL /\ <<ch, c>> \in Pairs
    BY <1>2, <1>5, <1>10 DEF Accept, Pairs
  <2>2. token' = SymbolToken(<<ch, c>>) /\ token' \notin {Empty, NoMatch}
    BY <1>10, <2>1, SymbolTokens, TokensAreMatches DEF Accept
  <2>. QED
    BY <1>7, <2>1, <2>2
<1>11. CASE s = 2 /\ c # "=" /\ Accept(Tok("COLON", "none"), f)
  <2>1. f = in + 1 /\ f' = in + 1 /\ ch = ":" /\ ch \in Punctuation /\ <<ch, c>> \notin Pairs
    BY <1>2, <1>5, <1>11 DEF Accept, Pairs
  <2>2. token' = SymbolToken(<<ch>>) /\ token' \notin {Empty, NoMatch}
    BY <1>11, <2>1, SymbolTokens, TokensAreMatches DEF Accept
  <2>. QED
    BY <1>3, <1>6, <2>1, <2>2
<1>12. CASE s \in {3, 4} /\ c = "=" /\ Accept(Tok("RELOP", IF s = 3 THEN "GE" ELSE "LE"), f + 1)
  <2>1. f = in + 1 /\ f' = in + 2 /\ ch = (IF s = 3 THEN ">" ELSE "<") /\ c # NUL /\ <<ch, c>> \in Pairs
    BY <1>2, <1>5, <1>12 DEF Accept, Pairs
  <2>2. token' = SymbolToken(<<ch, c>>) /\ token' \notin {Empty, NoMatch}
    BY <1>12, <2>1, SymbolTokens, TokensAreMatches DEF Accept
  <2>. QED
    BY <1>7, <2>1, <2>2
<1>13. CASE s = 4 /\ c = ">" /\ Accept(Tok("RELOP", "NE"), f + 1)
  <2>1. f = in + 1 /\ f' = in + 2 /\ ch = "<" /\ c # NUL /\ <<ch, c>> \in Pairs
    BY <1>2, <1>5, <1>13 DEF Accept, Pairs
  <2>2. token' = SymbolToken(<<ch, c>>) /\ token' \notin {Empty, NoMatch}
    BY <1>13, <2>1, SymbolTokens, TokensAreMatches DEF Accept
  <2>. QED
    BY <1>7, <2>1, <2>2
<1>14. CASE /\ \/ s = 3 /\ c # "="
               \/ s = 4 /\ c \notin {"=", ">"}
               \/ s = 5
            /\ Accept(Tok("RELOP", At(f - 1)), f)
  <2>1. /\ f = in + 1 /\ f' = in + 1 /\ ch \in {">", "<", "="} /\ ch \in Punctuation
        /\ <<ch, c>> \notin Pairs /\ f - 1 = in
    BY <1>2, <1>5, <1>14 DEF Accept, Pairs
  <2>2. At(f - 1) = ch
    BY <2>1 DEF At, ch
  <2>3. token' = SymbolToken(<<ch>>) /\ token' \notin {Empty, NoMatch}
    BY <1>14, <2>1, <2>2, SymbolTokens, TokensAreMatches DEF Accept
  <2>. QED
    BY <1>3, <1>6, <2>1, <2>3
<1>. QED
  BY <1>8, <1>9, <1>10, <1>11, <1>12, <1>13, <1>14 DEF CatchAllMachine

LEMMA FailMunches == PlaceInvariant /\ Munches /\ Fail => Munches'
<1>. SUFFICES ASSUME PlaceInvariant, Munches, Fail PROVE Munches'
  OBVIOUS
<1>1. m \in Machine /\ m # "none" /\ s = 0 /\ token = Empty /\ token' = NoMatch /\ UNCHANGED <<line, in, m>>
  BY DEF Fail, Accept, Machine
<1>2. Tried' /\ Refuted(m)
  BY <1>1, TurnKeepsTried DEF Munches, Seen
<1>3. Refuted(m)'
  BY <1>1, <1>2 DEF Refuted, At, End
<1>4. Empty # NoMatch
  BY DEF NoMatch, LexErr, Empty, Tok
<1>5. m = "catchall" => f' = in + 1
  BY <1>1 DEF Fail, Accept, PlaceInvariant, Position
<1>. QED
  BY <1>1, <1>2, <1>3, <1>4, <1>5 DEF Munches

\* The next machine is tried where all before it were.
LEMMA TryNextMunches == PlaceInvariant /\ Munches /\ TryNext => Munches'
<1>. SUFFICES ASSUME PlaceInvariant, Munches, TryNext PROVE Munches'
  OBVIOUS
<1>1. NoMatch # Empty
  BY DEF NoMatch, LexErr, Empty, Tok
<1>2. /\ m \in Machine \ {"catchall"} /\ m # "none" /\ token = NoMatch /\ UNCHANGED <<line, in>>
      /\ m' = NextMachine[m] /\ s' = 1 /\ sign' = 0 /\ token' = Empty
  BY <1>1 DEF TryNext, Start, PlaceInvariant, MTypeOK, Position, Machine
<1>3. Tried /\ Refuted(m)
  BY <1>2 DEF Munches
<1>4. \/ m = "whitespace" /\ m' = "idres"
      \/ m = "idres" /\ m' = "longreal"
      \/ m = "longreal" /\ m' = "real"
      \/ m = "real" /\ m' = "int"
      \/ m = "int" /\ m' = "catchall"
  BY <1>2 DEF NextMachine, Machine
<1>5. \A k \in Machine : Refuted(k) => Refuted(k)'
  BY <1>2 DEF Refuted, At, End
<1>6. Tried'
  BY <1>3, <1>4, <1>5 DEF Tried, Machine
<1>7. Seen'
  BY <1>2 DEF Seen
<1>. QED
  BY <1>1, <1>2, <1>6, <1>7 DEF Munches

\* What is returned is the longest lexeme.
LEMMA ReturnFindsLongest == PlaceInvariant /\ Munches /\ Return => Munches' /\ LongestLexeme'
<1>. SUFFICES ASSUME PlaceInvariant, Munches, Return PROVE Munches' /\ LongestLexeme'
  OBVIOUS
<1>. DEFINE piece == [from |-> in, to |-> f, token |-> token]
<1>1. Returns /\ token # Empty /\ (token = NoMatch => m = "catchall") /\ line' = line
      /\ out' = Append(out, piece)
  BY DEF Return, Returns
<1>2. /\ m # "none" /\ in \in 1 .. Len(line) /\ line \in Seq(Char) /\ in < f /\ f \in Nat
  BY <1>1, LinesAssumption DEF PlaceInvariant, MTypeOK, Position
<1>3. piece = Lexeme(line, in)
  <2>1. CASE token # NoMatch
    BY <1>1, <1>2, <2>1 DEF Munches
  <2>2. CASE token = NoMatch
    <3>1. m = "catchall" /\ Tried /\ Refuted(m)
      BY <1>1, <1>2, <2>2 DEF Munches
    <3>2. CharAt(line, in) \notin Blank \cup Letter \cup Digit \cup Punctuation
      BY <3>1 DEF Tried, Refuted, At
    <3>3. Lexeme(line, in) = [from |-> in, to |-> in + 1, token |-> NoMatch]
      BY <1>2, <3>2, NothingFound
    <3>4. f = in + 1
      BY <1>2, <2>2, <3>1 DEF Munches
    <3>. QED
      BY <2>2, <3>3, <3>4
  <2>. QED
    BY <2>1, <2>2
<1>4. LongestLexeme'
  <2>1. out \in Seq(Piece) /\ piece \in Piece
    BY <1>2 DEF PlaceInvariant, MTypeOK, Piece
  <2>2. out'[Len(out')] = piece
    BY <1>1, <2>1
  <2>3. piece.from = in
    OBVIOUS
  <2>. HIDE DEF piece
  <2>. QED
    BY <1>1, <1>3, <2>2, <2>3 DEF LongestLexeme
<1>5. Munches'
  <2>1. CASE m' = "whitespace" /\ s' = 1 /\ token' = Empty
    <3>1. Empty # NoMatch
      BY DEF NoMatch, LexErr, Empty, Tok
    <3>. QED
      BY <2>1, <3>1 DEF Munches, Tried, Seen
  <2>2. CASE m' = "none"
    BY <2>2 DEF Munches
  <2>. QED
    BY <2>1, <2>2 DEF Return, Start
<1>. QED
  BY <1>4, <1>5

-----------------------------------------------------------------------------
(* The theorems.                                                           *)

LEMMA InitIsSound == MInit => PlaceInvariant
<1>. SUFFICES ASSUME MInit PROVE PlaceInvariant
  OBVIOUS
<1>1. line \in Seq(Char) /\ line # <<>> /\ Len(line) \in Nat /\ 1 <= Len(line) /\ End = Len(line) + 1
  BY LinesAssumption DEF MInit, End
<1>2. Empty \in LexToken
  BY DEF Empty, Tok, LexToken, TokenType, Attribute
<1>3. MTypeOK
  BY <1>2 DEF MInit, MTypeOK, Machine, States, Unset
<1>4. Position
  BY <1>1 DEF MInit, Position, Looks, Returns
<1>5. MarksAreSet /\ LexemesTile
  BY <1>1 DEF MInit, MarksAreSet, LexemesTile
<1>. QED
  BY <1>3, <1>4, <1>5 DEF MInit, PlaceInvariant

LEMMA NextKeepsPlace == PlaceInvariant /\ [MNext]_mVars => PlaceInvariant'
<1>. SUFFICES ASSUME PlaceInvariant, [MNext]_mVars PROVE PlaceInvariant'
  OBVIOUS
<1>1. CASE UNCHANGED mVars
  BY <1>1 DEF mVars, marks, PlaceInvariant, MTypeOK, Position, MarksAreSet, LexemesTile,
     End, Looks, Returns, At, CharAt
<1>. QED
  BY <1>1, WhitespaceKeeps, IdResKeeps, IntKeeps, RealKeeps, LongRealKeeps, CatchAllKeeps,
     FailKeeps, TryNextKeeps, ReturnKeeps DEF MNext

LEMMA InitMunches == MInit => Munches /\ LongestLexeme
<1>1. Empty # NoMatch
  BY DEF NoMatch, LexErr, Empty, Tok
<1>. QED
  BY <1>1 DEF MInit, Munches, Tried, Seen, LongestLexeme

LEMMA NextKeepsMachine == MachineInvariant /\ [MNext]_mVars => MachineInvariant'
<1>. SUFFICES ASSUME PlaceInvariant, Munches, LongestLexeme, [MNext]_mVars PROVE Munches' /\ LongestLexeme'
  BY NextKeepsPlace DEF MachineInvariant
<1>1. CASE UNCHANGED mVars
  BY <1>1 DEF mVars, marks, Munches, Tried, Refuted, Seen, LongestLexeme, End, At
<1>2. UNCHANGED <<line, out>> => LongestLexeme'
  BY DEF LongestLexeme
<1>3. ASSUME WhitespaceMachine \/ IdResMachine \/ LongRealMachine \/ RealMachine
             \/ IntMachine \/ CatchAllMachine \/ Fail \/ TryNext
      PROVE  UNCHANGED <<line, out>>
  BY <1>3 DEF WhitespaceMachine, IdResMachine, LongRealMachine, RealMachine, IntMachine,
     CatchAllMachine, Fail, TryNext
<1>. QED
  BY <1>1, <1>2, <1>3, WhitespaceMunches, IdResMunches, LongRealMunches, RealMunches, IntMunches,
     CatchAllMunches, FailMunches, TryNextMunches, ReturnFindsLongest DEF MNext

\* On every line, the machines keep their invariant.
THEOREM MachinesAreSound == MSpec => []MachineInvariant
<1>. QED
  BY InitIsSound, InitMunches, NextKeepsMachine, PTL DEF MSpec, MachineInvariant

\* The positions and states of the machines have their types (machine.c, the
\* locals in, f, s, dot, e, sign of every machine).
THEOREM MachinesTypeCorrect == MSpec => []MTypeOK
<1>1. MachineInvariant => MTypeOK
  BY DEF MachineInvariant, PlaceInvariant
<1>. QED
  BY <1>1, MachinesAreSound, PTL

\* No machine and no caller looks behind the NUL that ends the line.
THEOREM NoReadLeavesTheLine == MSpec => []ReadsStayOnLine
<1>1. MachineInvariant => ReadsStayOnLine
  <2>. SUFFICES ASSUME MachineInvariant PROVE ReadsStayOnLine
    OBVIOUS
  <2>1. End = Len(line) + 1 /\ Len(line) \in Nat /\ f \in Nat /\ in \in Nat
    BY AtLine DEF MachineInvariant, PlaceInvariant, MTypeOK, End
  <2>2. CASE Looks
    BY <2>1, <2>2 DEF MachineInvariant, PlaceInvariant, Position, ReadsStayOnLine, Looks
  <2>3. CASE Returns
    BY <2>1, <2>3 DEF MachineInvariant, PlaceInvariant, Position, ReadsStayOnLine
  <2>. QED
    BY <2>2, <2>3 DEF ReadsStayOnLine
<1>. QED
  BY <1>1, MachinesAreSound, PTL

\* The marks of a real are set, in the same run, whenever they are used.
THEOREM MarksAreSetInTime == MSpec => []MarksAreSet
<1>1. MachineInvariant => MarksAreSet
  BY DEF MachineInvariant, PlaceInvariant
<1>. QED
  BY <1>1, MachinesAreSound, PTL

\* Each call of machine_omega consumes at least one character, and all calls
\* together consume each character once.
THEOREM LexemesTileTheLine == MSpec => []LexemesTile
<1>1. MachineInvariant => LexemesTile
  BY DEF MachineInvariant, PlaceInvariant
<1>. QED
  BY <1>1, MachinesAreSound, PTL

\* The machines, tried in their order and backing up as they do, compute what
\* Lexemes.tla says of the line: each call of machine_omega returns the longest
\* lexeme that starts where it was called, and its token; where none starts, one
\* character that is not recognized.
THEOREM LexemesAreLongest == MSpec => []LongestLexeme
<1>1. MachineInvariant => LongestLexeme
  BY DEF MachineInvariant
<1>. QED
  BY <1>1, MachinesAreSound, PTL
=============================================================================
