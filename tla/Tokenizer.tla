----------------------------- MODULE Tokenizer -----------------------------
(***************************************************************************)
(* get_next_token of src/token.c with the statics it keeps between calls:  *)
(* whether the source was opened, the current line and the place in it,    *)
(* the line counter, the options of the last call and the token it may     *)
(* have to return again.                                                   *)
(*                                                                         *)
(* A call recurses over blank lines, whitespace and lexical errors; each   *)
(* level of the recursion is a step.  machine_omega is the operator Lexeme *)
(* of Lexemes.tla, which Machines.tla shows it to compute.                 *)
(***************************************************************************)
EXTENDS Lexemes, SequencesExt

CONSTANTS
  Sources,            \* the source files, sequences of characters
  Junk,               \* lines that a fresh line buffer may happen to hold
  MAX_LINE_LENGTH     \* fgets reads at most one character less

NL == "NL"
CR == "CR"

ASSUME LineLengthAssumption == MAX_LINE_LENGTH \in Nat /\ MAX_LINE_LENGTH > 2
ASSUME SourcesAssumption == Sources \subseteq Seq(Char \cup {NL, CR})
ASSUME JunkAssumption ==
  Junk \subseteq Seq(Char) /\ \A w \in Junk : Len(w) < MAX_LINE_LENGTH

VARIABLES
  file, junk,    \* the source file; what the buffer of its last read holds
  pos, eof,      \* the position in the file, and feof
  l, f,          \* the current line and the place in it
  i,             \* the line counter
  o, r,          \* options of the last call; the token of the last NOP
  row,           \* the lines read so far: which one l is
  opt, pc,       \* options of the running call; "idle" or "call"
  ret,           \* the token returned last
  errors, hidden,\* places of the lexical errors reported, and squashed
  took,          \* auxiliary: the last call was without NOP
  stream         \* auxiliary: the tokens of the source, fixed at the start

fileVars == <<file, junk, stream>>
readVars == <<pos, eof, l, row>>
memory   == <<o, r, ret, took>>
reports  == <<errors, hidden>>
tVars    == <<fileVars, readVars, f, i, memory, opt, pc, reports>>

Options == SUBSET {"NOP", "SQUASH"}
NULL    == [token |-> Tok("EMPTY", "none"), row |-> 0, from |-> 0, line_no |-> 0]

-----------------------------------------------------------------------------
(* Reading lines.                                                          *)

\* Where fgets stops: behind a newline, at the end, or when its buffer is full.
ReadEnd(src, p) ==
  LET newlines == { q \in p .. Len(src) : src[q] = NL }
      stops    == {p + MAX_LINE_LENGTH - 1, Len(src) + 1} \cup { n + 1 : n \in newlines }
  IN  CHOOSE q \in stops : \A z \in stops : q <= z

\* chomp: cut at the first newline or carriage return.
chomp(w) ==
  LET ends == { k \in DOMAIN w : w[k] \in {NL, CR} }
  IN  IF ends = {} THEN w
      ELSE SubSeq(w, 1, (CHOOSE k \in ends : \A z \in ends : k <= z) - 1)

\* What a read from p finds, and whether it meets the end of the file.
Chunk(src, p) == SubSeq(src, p, ReadEnd(src, p) - 1)

HitsEnd(src, p) ==
  /\ Len(Chunk(src, p)) < MAX_LINE_LENGTH - 1
  /\ Chunk(src, p) = <<>> \/ Last(Chunk(src, p)) # NL

EofRow == Len(file) + 2
EofLine == <<EOFC>>

\* At the end of the file fgets fails and leaves the buffer as malloc gave it.
LineRead(src, buffer, p) == IF Chunk(src, p) = <<>> THEN buffer ELSE chomp(Chunk(src, p))

\* get_next_line: feof holds only after a read that met the end.
get_next_line ==
  IF eof
  THEN /\ l' = EofLine /\ row' = EofRow
       /\ UNCHANGED <<pos, eof>>
  ELSE /\ l' = LineRead(file, junk, pos)
       /\ pos' = ReadEnd(file, pos)
       /\ eof' = HitsEnd(file, pos)
       /\ row' = row + 1

-----------------------------------------------------------------------------
(* get_next_token.                                                         *)

\* Mutant: the options of the call that returns the token again are not kept.
Recall_KeepsOptions(options) ==
  /\ pc = "idle"
  /\ "NOP" \in o /\ r # NULL
  /\ ret' = r
  /\ took' = ("NOP" \notin options)
  /\ UNCHANGED <<fileVars, readVars, f, i, o, r, opt, pc, reports>>

\* The token looked at by the last call is returned again.
Recall(options) ==
  /\ pc = "idle"
  /\ "NOP" \in o /\ r # NULL
  /\ o' = options /\ ret' = r
  /\ took' = ("NOP" \notin options)
  /\ UNCHANGED <<fileVars, readVars, f, i, r, opt, pc, reports>>

\* Otherwise the source is read on.
Call(options) ==
  /\ pc = "idle"
  /\ ~("NOP" \in o /\ r # NULL)
  /\ pc' = "call" /\ opt' = options
  /\ UNCHANGED <<fileVars, readVars, f, i, memory, reports>>

\* The line is used up (or there is none yet): *f == 0.
AtEndOfLine == row = 0 \/ f > Len(l)

\* Mutant: blank lines are skipped before they are counted.
GrabLine_SkipsBlank ==
  /\ pc = "call" /\ AtEndOfLine
  /\ get_next_line
  /\ f' = 1 /\ i' = IF l' = <<>> THEN i ELSE i + 1
  /\ UNCHANGED <<fileVars, memory, opt, pc, reports>>

\* Another line; a blank one is skipped by the next step of the call.
GrabLine ==
  /\ pc = "call" /\ AtEndOfLine
  /\ get_next_line
  /\ f' = 1 /\ i' = i + 1
  /\ UNCHANGED <<fileVars, memory, opt, pc, reports>>

Found == Lexeme(l, f)
IsA(type) == pc = "call" /\ ~AtEndOfLine /\ Found.token.type = type

\* Mutant: the place in the line is not advanced.
SkipWhitespace_Stays ==
  /\ IsA("WHITESPACE")
  /\ UNCHANGED <<fileVars, readVars, f, i, memory, opt, pc, reports>>

SkipWhitespace ==
  /\ IsA("WHITESPACE")
  /\ f' = Found.to
  /\ UNCHANGED <<fileVars, readVars, i, memory, opt, pc, reports>>

\* Mutant: reported, but not skipped.
SkipError_Stays ==
  /\ IsA("LEXERR")
  /\ IF "SQUASH" \in opt
     THEN hidden' = hidden \cup {<<row, f>>} /\ UNCHANGED errors
     ELSE errors' = Append(errors, <<row, f>>) /\ UNCHANGED hidden
  /\ UNCHANGED <<fileVars, readVars, f, i, memory, opt, pc>>

\* A lexical error is reported, unless the caller squashes errors, and
\* skipped.
SkipError ==
  /\ IsA("LEXERR")
  /\ f' = Found.to
  /\ IF "SQUASH" \in opt
     THEN hidden' = hidden \cup {<<row, f>>} /\ UNCHANGED errors
     ELSE errors' = Append(errors, <<row, f>>) /\ UNCHANGED hidden
  /\ UNCHANGED <<fileVars, readVars, i, memory, opt, pc>>

\* Mutant: the counter is not stepped back at the end of the file.
Return_CountsEof ==
  /\ pc = "call" /\ ~AtEndOfLine
  /\ Found.token.type \notin {"WHITESPACE", "LEXERR"}
  /\ f' = Found.to
  /\ i' = i
  /\ ret' = [token |-> Found.token, row |-> row, from |-> f, line_no |-> i']
  /\ r' = IF "NOP" \in opt THEN ret' ELSE r
  /\ o' = opt
  /\ took' = ("NOP" \notin opt)
  /\ pc' = "idle" /\ opt' = {}
  /\ UNCHANGED <<fileVars, readVars, reports>>

\* A token is returned; only a NOP has it remembered.  The counter steps
\* back over the line that stood for the end of the file.
Return ==
  /\ pc = "call" /\ ~AtEndOfLine
  /\ Found.token.type \notin {"WHITESPACE", "LEXERR"}
  /\ f' = Found.to
  /\ i' = IF Found.token.type = "EOF" THEN i - 1 ELSE i
  /\ ret' = [token |-> Found.token, row |-> row, from |-> f, line_no |-> i']
  /\ r' = IF "NOP" \in opt THEN ret' ELSE r
  /\ o' = opt
  /\ took' = ("NOP" \notin opt)
  /\ pc' = "idle" /\ opt' = {}
  /\ UNCHANGED <<fileVars, readVars, reports>>

-----------------------------------------------------------------------------
(* The tokens of a source, line by line, without any state.                *)

\* The numbers up to n that steps lead to from 1: the least set with 1 that no
\* step leaves.
Reached(n, step) ==
  { k \in 1 .. n : \A S \in SUBSET (1 .. n) :
      1 \in S /\ (\A j \in S : step[j] \in S) => k \in S }

\* Where the reads of a file begin: each where the one before has ended, until
\* one meets the end.
Begins(src) ==
  Reached(Len(src) + 1,
          [p \in 1 .. Len(src) + 1 |-> IF HitsEnd(src, p) THEN p ELSE ReadEnd(src, p)])

\* The lines that they give.
UpTo(begins, p) == { q \in begins : q <= p }
AllLines(src, buffer) ==
  LET begins == Begins(src)
  IN  [n \in 1 .. Cardinality(begins) |->
         LineRead(src, buffer, CHOOSE p \in begins : Cardinality(UpTo(begins, p)) = n)]

\* Where the lexemes of a line start, and those that are returned.
Starts(w) ==
  Reached(Len(w) + 1, [k \in 1 .. Len(w) + 1 |-> IF k > Len(w) THEN k ELSE Lexeme(w, k).to])
TokensOf(w) ==
  { k \in Starts(w) \ {Len(w) + 1} : Lexeme(w, k).token.type \notin {"WHITESPACE", "LEXERR"} }

\* Places, by row and column, in the order of the source.
Before(a, b) == a[1] < b[1] \/ (a[1] = b[1] /\ a[2] < b[2])
Through(places, p) == { q \in places : q = p \/ Before(q, p) }

\* The places of the tokens of the lines, and of the end of the file.
Places(lines, end) == {<<end, 1>>} \cup UNION { {n} \X TokensOf(lines[n]) : n \in DOMAIN lines }

\* The token at a place.  Each TOKEN_EOF, wherever it stands, takes one off the
\* numbers of the lines from there on.
TokenAt(lines, end, p) ==
  LET token(q) == Lexeme(IF q[1] = end THEN EofLine ELSE lines[q[1]], q[2]).token
      number   == IF p[1] = end THEN Len(lines) + 1 ELSE p[1]
      eofs     == { q \in Through(Places(lines, end), p) : token(q).type = "EOF" }
  IN  [token |-> token(p), row |-> p[1], from |-> p[2], line_no |-> number - Cardinality(eofs)]

\* The tokens in their order.
TokensIn(lines, end) ==
  LET places == Places(lines, end)
  IN  [k \in 1 .. Cardinality(places) |->
         TokenAt(lines, end, CHOOSE p \in places : Cardinality(Through(places, p)) = k)]

-----------------------------------------------------------------------------
\* The file is given; only a read that finds nothing shows the buffer.
FailedRead(w) == w = <<>> \/ Last(w) = NL \/ Len(w) >= MAX_LINE_LENGTH - 1

TInit ==
  /\ file \in Sources
  /\ junk \in IF FailedRead(file) THEN Junk ELSE {<<>>}
  /\ pos = 1 /\ eof = FALSE
  /\ l = <<>> /\ f = 1 /\ row = 0 /\ i = 0
  /\ o = {} /\ r = NULL /\ ret = NULL /\ took = FALSE
  /\ opt = {} /\ pc = "idle"
  /\ errors = <<>> /\ hidden = {}
  /\ stream = TokensIn(AllLines(file, junk), EofRow)

Continue == GrabLine \/ SkipWhitespace \/ SkipError \/ Return

TNext == (\E options \in Options : Recall(options) \/ Call(options)) \/ Continue

TSpec == TInit /\ [][TNext]_tVars
FairTSpec == TSpec /\ WF_tVars(Continue)

-----------------------------------------------------------------------------
(* Properties.                                                             *)

\* The variables have their types: what is read is on the line and in the file.
TTypeOK ==
  /\ pos \in 1 .. Len(file) + 1 /\ eof \in BOOLEAN
  /\ f \in 1 .. Len(l) + 1
  /\ row \in 0 .. EofRow /\ i \in Int
  /\ o \in Options /\ opt \in Options /\ pc \in {"idle", "call"}
  /\ hidden \subseteq (1 .. EofRow) \X (1 .. MAX_LINE_LENGTH)

\* What is looked at is what is taken next: however peeks and takes, with and
\* without squashing, follow each other, the calls implement one stream.
Behind(t) == t.row < row \/ (t.row = row /\ t.from < f)
Used == Cardinality({k \in DOMAIN stream : Behind(stream[k])})
Remembering == pc = "idle" /\ "NOP" \in o /\ r # NULL
NextIndex == IF Remembering \/ Used = Len(stream) THEN Used ELSE Used + 1

Stream == INSTANCE TokenStream WITH next <- NextIndex, NoToken <- NULL
ImplementsStream == Stream!StreamSpec

\* A lexical error is dealt with once, in the order of the source: no peek
\* reports it again, no squashing call hides one that was reported.
ErrorsAreDealtWithOnce ==
  /\ \A k \in 2 .. Len(errors) : Before(errors[k - 1], errors[k])
  /\ ToSet(errors) \cap hidden = {}

\* Why: the errors dealt with all lie behind the place where the source is
\* read on, and that place only moves forward, until the end of the file takes
\* the number of a line that no error can have.  This is inductive.
Dealt == ToSet(errors) \cup hidden
Position ==
  /\ file \in Sources /\ junk \in Junk \cup {<<>>} /\ pos \in 1 .. Len(file) + 1 /\ eof \in BOOLEAN
  /\ row \in Nat /\ i \in Int
  /\ l \in Seq(Char \cup {NL, CR}) /\ Len(l) < MAX_LINE_LENGTH /\ f \in 1 .. Len(l) + 1
  /\ IF eof THEN row <= Len(file) + 1 \/ (row = EofRow /\ l = EofLine) ELSE row < pos
ErrorInvariant ==
  /\ Position
  /\ errors \in Seq(Nat \X Nat)
  /\ Dealt \subseteq (1 .. Len(file) + 1) \X (1 .. MAX_LINE_LENGTH)
  /\ \A p \in Dealt : Before(p, <<row, f>>)
  /\ ErrorsAreDealtWithOnce

\* Why the stream is the one promised: the rows are the lines of the file in
\* their order, f is where a lexeme of the line starts, and what is remembered
\* is the token used up last.
ReadsInOrder ==
  LET begins == Begins(file)
      last   == Cardinality(begins)
  IN  /\ row = 0 => ~eof /\ l = <<>>
      /\ ~eof => pos \in begins /\ Cardinality(UpTo(begins, pos)) = row + 1
      /\ eof => row \in {last, EofRow}
      /\ row \in 1 .. last => l = AllLines(file, junk)[row] /\ f \in Starts(l)
      /\ row = EofRow => eof /\ l = EofLine
      /\ i = (IF row = EofRow THEN last + 1 ELSE row)
             - Cardinality({k \in 1 .. Used : stream[k].token.type = "EOF"})
RemembersLast == "NOP" \in o => pc = "idle" /\ r # NULL /\ Used > 0 /\ r = stream[Used]

\* The inductive invariant.
TokenizerInvariant == ErrorInvariant /\ ReadsInOrder /\ RemembersLast

\* A line of the file as an editor shows it: from the place behind one newline up
\* to the next, without the carriage return in front of that.
Newlines      == { q \in DOMAIN file : file[q] = NL }
PhysicalLines == 1 + Cardinality(Newlines)
NewlinesTo(p) == { q \in Newlines : q < p }
PhysicalLine(n) ==
  LET from == CHOOSE p \in {1} \cup { q + 1 : q \in Newlines } : Cardinality(NewlinesTo(p)) = n - 1
      to   == CHOOSE p \in Newlines \cup {Len(file) + 1} :
                p >= from /\ \A q \in Newlines : q >= from => p <= q
  IN  SubSeq(file, from, IF from < to /\ file[to - 1] = CR THEN to - 2 ELSE to - 1)

\* A source that get_next_token is made for: lines that fit, with "\n" or "\r\n"
\* between them, and no character that looks like EOF, in the buffers neither.
Plain ==
  /\ \A p \in DOMAIN file : \E q \in p .. p + MAX_LINE_LENGTH - 2 : q > Len(file) \/ file[q] = NL
  /\ \A p \in DOMAIN file : file[p] = CR => p < Len(file) /\ file[p + 1] = NL
  /\ EOFC \notin ToSet(file) \cup ToSet(junk)

\* What is read as the n-th line: the line of the editor, but for what follows the
\* last newline of a file that ends with one.  There is nothing, fgets fails, and
\* the line shows what was in its buffer.
LineShown(n) ==
  IF n = PhysicalLines /\ (file = <<>> \/ Last(file) = NL) THEN junk ELSE PhysicalLine(n)

\* On such a source a token stands where it says, in the line it says, and
\* the end of the file is on the last line; a newline at the end begins one.
TokenIsWhereItSays ==
  ret # NULL /\ Plain =>
    IF ret.token.type = "EOF" THEN ret.line_no = PhysicalLines
    ELSE /\ ret.line_no \in 1 .. PhysicalLines
         /\ Lexeme(LineShown(ret.line_no), ret.from).token = ret.token

\* Every call returns: its recursion ends.
CallsReturn == (pc = "call") ~> (pc = "idle")
=============================================================================
