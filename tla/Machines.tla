------------------------------ MODULE Machines ------------------------------
(***************************************************************************)
(* The automata of src/machine.c.  machine_omega tries six machines in a   *)
(* fixed order at the same place; each reads characters, one per turn of   *)
(* its loop, and may back up before it accepts.  The caller goes on where  *)
(* the accepting machine stopped, until the line is used up.               *)
(*                                                                         *)
(* One action per machine, one disjunct per state of its switch.           *)
(***************************************************************************)
EXTENDS Lexemes

CONSTANT Lines    \* the lines that are read

ASSUME LinesAssumption == Lines \subseteq Seq(Char) \ {<<>>}

VARIABLES
  line,     \* the line
  in,       \* where the current lexeme starts
  m,        \* the machine that is tried
  s,        \* its state
  f,        \* its reading position
  dot, e, sign,    \* its marks; Unset until they are assigned
  token,    \* res.token, Empty while the machine runs
  out       \* the lexemes found so far

marks   == <<dot, e, sign>>
mVars   == <<line, in, m, s, f, marks, token, out>>

Unset == 0
Empty == Tok("EMPTY", "none")

\* Behind the last character of a word there is the NUL.
CharAt(w, p) == IF p \in DOMAIN w THEN w[p] ELSE NUL
At(p) == CharAt(line, p)
c     == At(f)

Machine == {"whitespace", "idres", "longreal", "real", "int", "catchall"}

\* The cases of their switches.
States == [k \in Machine |->
  IF k = "real" \/ k = "catchall" THEN 0 .. 5
  ELSE IF k = "longreal" THEN 0 .. 7 ELSE 0 .. 2]

\* Mutant: reals are tried before long reals.
NextMachine_RealFirst == [k \in Machine \ {"catchall"} |->
  CASE k = "whitespace" -> "idres"
    [] k = "idres"      -> "real"
    [] k = "real"       -> "longreal"
    [] k = "longreal"   -> "int"
    [] k = "int"        -> "catchall"]

\* Mutant: after the integers the numbers are tried once more.
NextMachine_Cyclic == [k \in Machine \ {"catchall"} |->
  CASE k = "whitespace" -> "idres"
    [] k = "idres"      -> "longreal"
    [] k = "longreal"   -> "real"
    [] k = "real"       -> "int"
    [] k = "int"        -> "real"]

\* The order of the loop in machine_omega.
NextMachine == [k \in Machine \ {"catchall"} |->
  CASE k = "whitespace" -> "idres"
    [] k = "idres"      -> "longreal"
    [] k = "longreal"   -> "real"
    [] k = "real"       -> "int"
    [] k = "int"        -> "catchall"]

-----------------------------------------------------------------------------
(* One turn of a machine's loop.                                           *)

Runs(machine) == m = machine /\ token = Empty
GoTo(state)   == s' = state /\ f' = f + 1 /\ UNCHANGED token

\* Mutant: the character that ended the lexeme is not given back.
Accept_NoBackUp(t, p) == token' = t /\ f' = f + 1 /\ UNCHANGED s

\* The loop ends; what follows is read from p on.
Accept(t, p)  == token' = t /\ f' = p /\ UNCHANGED s

\* The local marks; Mutant: the place of the E is not kept.
MarkDot  == dot' = f /\ UNCHANGED <<e, sign>>
MarkE_Forgotten == UNCHANGED marks
MarkE    == e' = f /\ UNCHANGED <<dot, sign>>
MarkSign == sign' = 1 /\ UNCHANGED <<dot, e>>

\* case 0 of every machine: f-- and the f++ of the loop cancel out.
Fail ==
  /\ m \in Machine /\ token = Empty /\ s = 0
  /\ Accept(NoMatch, f)
  /\ UNCHANGED <<line, in, m, marks, out>>

Lexed(i, j) == SubSeq(line, i, j - 1)

WhitespaceMachine ==
  /\ Runs("whitespace")
  /\ \/ s = 1 /\ GoTo(IF c \in Blank THEN 2 ELSE 0)
     \/ s = 2 /\ c \in Blank /\ GoTo(2)
     \/ s = 2 /\ c \notin Blank /\ Accept(Tok("WHITESPACE", "none"), f)
  /\ UNCHANGED <<line, in, m, marks, out>>

IdResMachine ==
  /\ Runs("idres")
  /\ \/ s = 1 /\ GoTo(IF c \in Letter THEN 2 ELSE 0)
     \/ s = 2 /\ c \in Alnum /\ GoTo(2)
     \/ s = 2 /\ c \notin Alnum /\ Accept(NameToken(Lexed(in, f)), f)
  /\ UNCHANGED <<line, in, m, marks, out>>

IntMachine ==
  /\ Runs("int")
  /\ \/ s = 1 /\ GoTo(IF c \in Digit THEN 2 ELSE 0)
     \/ s = 2 /\ c \in Digit /\ GoTo(2)
     \/ s = 2 /\ c \notin Digit /\ Accept(IntToken(Lexed(in, f)), f)
  /\ UNCHANGED <<line, in, m, marks, out>>

\* State 5 is entered one character late: f - 1 is the end of the fraction.
RealMachine ==
  /\ Runs("real")
  /\ \/ s = 1 /\ GoTo(IF c \in Digit THEN 2 ELSE 0) /\ UNCHANGED marks
     \/ s = 2 /\ c = "." /\ GoTo(3) /\ MarkDot
     \/ s = 2 /\ c # "." /\ GoTo(IF c \in Digit THEN 2 ELSE 0) /\ UNCHANGED marks
     \/ s = 3 /\ c \in Digit /\ GoTo(4) /\ UNCHANGED marks
     \/ s = 3 /\ c \notin Digit /\ s' = 0 /\ UNCHANGED <<f, token, marks>>
     \/ s = 4 /\ GoTo(IF c \in Digit THEN 4 ELSE 5) /\ UNCHANGED marks
     \/ /\ s = 5
        /\ Accept(FloatToken(line[in], dot - in, (f - 1) - dot - 1, 0, "REAL"), f - 1)
        /\ UNCHANGED marks
  /\ UNCHANGED <<line, in, m, out>>

LongRealMachine ==
  /\ Runs("longreal")
  /\ \/ s = 1 /\ GoTo(IF c \in Digit THEN 2 ELSE 0) /\ UNCHANGED marks
     \/ s = 2 /\ c = "." /\ GoTo(3) /\ MarkDot
     \/ s = 2 /\ c # "." /\ GoTo(IF c \in Digit THEN 2 ELSE 0) /\ UNCHANGED marks
     \/ s = 3 /\ c = "E" /\ GoTo(4) /\ MarkE
     \/ s = 3 /\ c # "E" /\ GoTo(IF c \in Digit THEN 3 ELSE 0) /\ UNCHANGED marks
     \/ /\ s = 4 /\ UNCHANGED marks
        /\ GoTo(IF c \in Plus THEN 5 ELSE IF c \in Digit THEN 6 ELSE 0)
     \/ s = 5 /\ GoTo(IF c \in Digit THEN 6 ELSE 0) /\ MarkSign
     \/ s = 6 /\ GoTo(IF c \in Digit THEN 6 ELSE 7) /\ UNCHANGED marks
     \/ /\ s = 7
        /\ Accept(FloatToken(line[in], dot - in, e - dot - 1,
                             (f - 1) - e - sign - 1, "LONGREAL"), f - 1)
        /\ UNCHANGED marks
  /\ UNCHANGED <<line, in, m, out>>

CatchAllMachine ==
  /\ Runs("catchall")
  /\ \/ s = 1 /\ c \in Single /\ Accept(SingleToken(c), f + 1)
     \/ /\ s = 1 /\ c \notin Single
        /\ GoTo(CASE c = ":" -> 2 [] c = ">" -> 3 [] c = "<" -> 4 [] c = "=" -> 5
                  [] OTHER -> 0)
     \/ s = 2 /\ c = "=" /\ Accept(Tok("ASSIGNOP", "none"), f + 1)
     \/ s = 2 /\ c # "=" /\ Accept(Tok("COLON", "none"), f)
     \/ s \in {3, 4} /\ c = "=" /\ Accept(Tok("RELOP", IF s = 3 THEN "GE" ELSE "LE"), f + 1)
     \/ s = 4 /\ c = ">" /\ Accept(Tok("RELOP", "NE"), f + 1)
     \/ s = 3 /\ c # "=" /\ Accept(Tok("RELOP", At(f - 1)), f)
     \/ s = 4 /\ c \notin {"=", ">"} /\ Accept(Tok("RELOP", At(f - 1)), f)
     \/ s = 5 /\ Accept(Tok("RELOP", At(f - 1)), f)
  /\ UNCHANGED <<line, in, m, marks, out>>

-----------------------------------------------------------------------------
(* machine_omega and its caller.                                           *)

\* A machine starts with the locals of its C function.
Start(machine, p) ==
  /\ m' = machine /\ s' = 1 /\ f' = p
  /\ dot' = Unset /\ e' = Unset /\ sign' = 0
  /\ token' = Empty

\* No match: the next machine is tried at the same place.
TryNext ==
  /\ token = NoMatch /\ m # "catchall"
  /\ Start(NextMachine[m], in)
  /\ UNCHANGED <<line, in, out>>

\* machine_omega is about to return.
Returns == token # Empty /\ (token = NoMatch => m = "catchall")

\* Mutant: a character that was not recognized is skipped a second time.
Return_SkipsAgain ==
  /\ Returns
  /\ out' = Append(out, [from |-> in, to |-> f, token |-> token])
  /\ in' = IF token = NoMatch THEN f + 1 ELSE f
  /\ \/ At(in') # NUL /\ Start("whitespace", in')
     \/ At(in') = NUL /\ m' = "none" /\ token' = Empty /\ UNCHANGED <<s, f, marks>>
  /\ UNCHANGED line

\* machine_omega returns; get_next_token goes on at res.f.
Return ==
  /\ Returns
  /\ out' = Append(out, [from |-> in, to |-> f, token |-> token])
  /\ in' = f
  /\ \/ At(f) # NUL /\ Start("whitespace", f)
     \/ At(f) = NUL /\ m' = "none" /\ token' = Empty /\ UNCHANGED <<s, f, marks>>
  /\ UNCHANGED line

MInit ==
  /\ line \in Lines
  /\ in = 1 /\ m = "whitespace" /\ s = 1 /\ f = 1
  /\ dot = Unset /\ e = Unset /\ sign = 0
  /\ token = Empty /\ out = <<>>

MNext ==
  \/ Fail \/ WhitespaceMachine \/ IdResMachine \/ LongRealMachine \/ RealMachine
  \/ IntMachine \/ CatchAllMachine \/ TryNext \/ Return

MSpec == MInit /\ [][MNext]_mVars
FairMSpec == MSpec /\ WF_mVars(MNext)

-----------------------------------------------------------------------------
(* Properties.                                                             *)

End == Len(line) + 1

\* The variables have their types.
MTypeOK ==
  /\ m \in Machine \cup {"none"}
  /\ {in, f, dot, e, sign} \subseteq Nat
  /\ m # "none" => s \in States[m]
  /\ out \in Seq([from : Nat, to : Nat, token : LexToken])
  /\ token \in LexToken

\* The states that look at *f: all but the rejecting one, the two that sum up
\* a real, and the one that has seen a lone "=".
Looks ==
  /\ token = Empty /\ m # "none" /\ s # 0
  /\ <<m, s>> \notin {<<"real", 5>>, <<"longreal", 7>>, <<"catchall", 5>>}

\* Backing up before accepting puts every next read on the line: no machine,
\* and no caller that tests *f for the end, looks behind the terminating NUL.
ReadsStayOnLine == Looks \/ Returns => f \in in .. End

\* The limits of a real are checked with marks set in the same run of the machine,
\* in the order of the parts they delimit; dot and e have no initial value in C.
MarksAreSet ==
  /\ token = Empty /\ m = "real" /\ s \in 3 .. 5 => in < dot /\ dot < f
  /\ token = Empty /\ m = "longreal" /\ s \in 3 .. 7 => in < dot /\ dot < f
  /\ token = Empty /\ m = "longreal" /\ s \in 4 .. 7 => dot < e /\ e < f

\* Every call consumes a character and none is lost or read twice: the lexemes are not
\* empty and tile the line up to the next place to read.
LexemesTile ==
  /\ in = IF out = <<>> THEN 1 ELSE out[Len(out)].to
  /\ \A k \in DOMAIN out :
       /\ out[k].from = IF k = 1 THEN 1 ELSE out[k - 1].to
       /\ out[k].from < out[k].to /\ out[k].to <= End

\* The order of the machines and their backing up find the longest lexeme
\* there is, and its token, although each machine knows only its own language.
LongestLexeme == out # <<>> => out[Len(out)] = Lexeme(line, out[Len(out)].from)

\* Where the machine is on the line, and why it cannot leave it: a state that
\* looks was entered on a character, so what it looks at is at most the NUL.
Position ==
  /\ m # "none" => in \in 1 .. Len(line)
  /\ m = "none" => in = End /\ token = Empty
  /\ m # "none" /\ token = Empty =>
       /\ s = 1 => f = in
       /\ s \notin {0, 1} => in < f
       /\ Looks => f <= End
       /\ m = "catchall" /\ s \in {0, 5} => f = in + 1
       /\ m = "catchall" /\ s \in 3 .. 5 => At(f - 1) \in {">", "<", "="}
       /\ m = "real" /\ s = 5 => dot + 1 < f /\ f <= End + 1
       /\ m = "longreal" /\ s = 7 => e + 1 < f /\ f <= End + 1
  /\ Returns => in < f /\ f <= End

PlaceInvariant == line \in Lines /\ MTypeOK /\ Position /\ MarksAreSet /\ LexemesTile

\* The languages again, at a place of a line: what lies from a up to b is of the
\* class; i starts a whole part that ends with a period at d, a real that ends
\* before j, a long real that has its "E" at x and ends before j.
Span(w, class, a, b)     == \A k \in a .. b - 1 : CharAt(w, k) \in class
WholeAt(w, i, d)         == i < d /\ Span(w, Digit, i, d) /\ CharAt(w, d) = "."
RealAt(w, i, d, j)       == WholeAt(w, i, d) /\ d + 1 < j /\ Span(w, Digit, d + 1, j)
FractionAt(w, i, d, x)   == WholeAt(w, i, d) /\ d < x /\ Span(w, Digit, d + 1, x)
ExponentFrom(w, x)       == IF CharAt(w, x + 1) \in Plus THEN x + 2 ELSE x + 1
LongRealAt(w, i, d, x, j) ==
  /\ FractionAt(w, i, d, x) /\ CharAt(w, x) = "E"
  /\ ExponentFrom(w, x) < j /\ Span(w, Digit, ExponentFrom(w, x), j)

\* What is known of the word at "in" once a machine has found no match.
Refuted(machine) ==
  /\ machine = "whitespace" => At(in) \notin Blank
  /\ machine = "idres"      => At(in) \notin Letter
  /\ machine = "longreal"   => \A d \in in .. End : WholeAt(line, in, d) =>
                                 \A x, j \in d .. End : ~LongRealAt(line, in, d, x, j)
  /\ machine = "real"       => \A d, j \in in .. End : ~RealAt(line, in, d, j)
  /\ machine = "int"        => At(in) \notin Digit
  /\ machine = "catchall"   => At(in) \notin Punctuation

\* Before a machine is tried, these were.
Tried ==
  /\ m # "whitespace"                    => Refuted("whitespace")
  /\ m \notin {"whitespace", "idres"}    => Refuted("idres")
  /\ m \in {"real", "int", "catchall"}   => Refuted("longreal")
  /\ m \in {"int", "catchall"}           => Refuted("real")
  /\ m = "catchall"                      => Refuted("int")

\* What the state of the running machine says of the characters it has read.
Seen ==
  /\ s = 0 => Refuted(m)
  /\ m = "whitespace" /\ s = 2 => Span(line, Blank, in, f)
  /\ m = "idres" /\ s = 2 => At(in) \in Letter /\ Span(line, Alnum, in, f)
  /\ m \in {"longreal", "real", "int"} /\ s = 2 => Span(line, Digit, in, f)
  /\ m = "real" /\ s = 3 => WholeAt(line, in, dot) /\ f = dot + 1
  /\ m = "real" /\ s = 4 => RealAt(line, in, dot, f)
  /\ m = "real" /\ s = 5 => RealAt(line, in, dot, f - 1) /\ At(f - 1) \notin Digit
  /\ m = "longreal" /\ s \in 1 .. 5 => sign = 0
  /\ m = "longreal" /\ s = 3 => FractionAt(line, in, dot, f)
  /\ m = "longreal" /\ s \in 4 .. 7 => FractionAt(line, in, dot, e) /\ At(e) = "E"
  /\ m = "longreal" /\ s = 4 => f = e + 1
  /\ m = "longreal" /\ s = 5 => f = e + 2 /\ At(e + 1) \in Plus
  /\ m = "longreal" /\ s \in 6 .. 7 => ExponentFrom(line, e) = e + 1 + sign
  /\ m = "longreal" /\ s = 6 => LongRealAt(line, in, dot, e, f)
  /\ m = "longreal" /\ s = 7 => LongRealAt(line, in, dot, e, f - 1) /\ At(f - 1) \notin Digit
  /\ m = "catchall" /\ s \in 2 .. 5 => f = in + 1 /\ At(in) = <<":", ">", "<", "=">>[s - 1]

\* Why the lexemes are the longest: what a machine leaves out, a later one or
\* none accepts; and what one accepts goes on as far as any other could go.
Munches ==
  m # "none" =>
    /\ Tried
    /\ token = Empty => Seen
    /\ token = NoMatch => Refuted(m) /\ (m = "catchall" => f = in + 1)
    /\ token \notin {Empty, NoMatch} => Lexeme(line, in) = [from |-> in, to |-> f, token |-> token]

\* The inductive invariant.
MachineInvariant == PlaceInvariant /\ Munches /\ LongestLexeme

\* Every line is used up: no machine turns for ever, none returns empty-handed.
LineEnds == <>(m = "none")
=============================================================================
