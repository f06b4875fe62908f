------------------------------ MODULE Compiler ------------------------------
(***************************************************************************)
(* The program as a whole: main of src/pascal.c, the run of the parser     *)
(* (Parser.tla), and what its caller gets to know of the errors that       *)
(* lexerr, synerr and semerr of src/errors.c have reported: the message on *)
(* the console, the symbol table file, and the exit status.                *)
(***************************************************************************)
EXTENDS Parser

CONSTANT Fresh    \* what ParserData.result may hold when it was just allocated

Kind == {"LEXERR", "SYNERR", "SEMERR"}

\* An int: the three bits that PARSER_RESULT_ names, and the number that the
\* others make, sign included; how many others there are does not matter.
Word == [low : SUBSET Kind, high : Int]

ASSUME FreshAssumption == Fresh \subseteq Word

\* The number behind PARSER_RESULT_ bits, and behind a whole int.
Value(bits) ==
  (IF "LEXERR" \in bits THEN 1 ELSE 0) + (IF "SYNERR" \in bits THEN 2 ELSE 0)
  + (IF "SEMERR" \in bits THEN 4 ELSE 0)

Number(word) == 8 * word.high + Value(word.low)

\* What the caller of a program sees of the int that main returns.
ExitStatus(word) == Number(word) % 256

VARIABLES
  stage,      \* what main is about to do
  directory,  \* the output directory exists
  result,     \* ParserData.result
  symtable,   \* "none", "empty" or "written": the symbol table file
  message,    \* the last word on the console
  status,     \* the exit status, -1 while the program runs
  reported,   \* auxiliary: the kinds of error reported in this run
  fresh       \* auxiliary: what result held before any report

mainVars == <<stage, directory, result, symtable, message, status, reported, fresh>>

\* Each stage of main in order; those before "parse" may fail.
Next1(s) ==
  CASE s = "words" -> "source"    [] s = "source" -> "directory"
    [] s = "directory" -> "listing" [] s = "listing" -> "tokens"
    [] s = "tokens" -> "symtable" [] s = "symtable" -> "parse"

Opening == {"words", "source", "listing", "tokens", "symtable"}

\* exit(1): a wrong number of arguments, a file that cannot be opened.
Quit ==
  /\ stage \in Opening \cup {"usage"}
  /\ stage' = "end" /\ status' = 1
  /\ UNCHANGED <<parserVars, directory, result, symtable, message, reported>>

Arguments ==
  /\ stage = "usage" /\ stage' = "words"
  /\ UNCHANGED <<parserVars, directory, result, symtable, message, status, reported>>

Open ==
  /\ stage \in Opening /\ stage' = Next1(stage)
  /\ symtable' = IF stage = "symtable" THEN "empty" ELSE symtable
  /\ UNCHANGED <<parserVars, directory, result, message, status, reported>>

\* A missing directory is made; if that fails the program quits.
MakeDirectory ==
  /\ stage = "directory"
  /\ directory' \in {directory, TRUE}
  /\ IF directory' THEN stage' = Next1(stage) /\ UNCHANGED status
     ELSE stage' = "end" /\ status' = 1
  /\ UNCHANGED <<parserVars, result, symtable, message, reported>>

-----------------------------------------------------------------------------
(* parse                                                                   *)

\* Mutant: the bits are assigned, not added.
Report_Assigns(kinds) ==
  /\ result' = IF kinds = {} THEN result ELSE [result EXCEPT !.low = kinds]
  /\ reported' = reported \cup kinds

\* lexerr, synerr, semerr: a bit of the result for each kind of report.
Report(kinds) ==
  /\ result' = [result EXCEPT !.low = @ \cup kinds]
  /\ reported' = reported \cup kinds

\* What a step of the parser may report: lexical errors in front of the token
\* that the next get_next_token finds, semantic errors while the productions
\* run, and a syntax error where Parser.tla has one.
Reportable ==
  (IF read = 0 \/ read' # read THEN {"LEXERR"} ELSE {}) \cup
  (IF NextIs("table") \/ NextIs("parse") \/ (InBody /\ Top.todo = <<>>) THEN {"SEMERR"} ELSE {})

\* Mutant: the early exit is made with PARSER_RESULT_OK.
Parse_ExitsOk ==
  /\ stage = "parse"
  /\ ParserNext
  /\ \E kinds \in SUBSET Reportable :
       Report(kinds \cup IF syntax' # syntax THEN {"SYNERR"} ELSE {})
  /\ \/ outcome' = "running" /\ UNCHANGED <<stage, symtable, status>>
     \/ outcome' = "exit" /\ stage' = "end" /\ status' = 0 /\ UNCHANGED symtable
     \/ outcome' = "done" /\ stage' = "close" /\ symtable' = "written" /\ UNCHANGED status
  /\ UNCHANGED <<directory, message>>

Parse ==
  /\ stage = "parse"
  /\ ParserNext
  /\ \E kinds \in SUBSET Reportable :
       Report(kinds \cup IF syntax' # syntax THEN {"SYNERR"} ELSE {})
  /\ \/ outcome' = "running" /\ UNCHANGED <<stage, symtable, status>>
     \/ outcome' = "exit" /\ stage' = "end" /\ status' = 2 /\ UNCHANGED symtable
     \/ outcome' = "done" /\ stage' = "close" /\ symtable' = "written" /\ UNCHANGED status
  /\ UNCHANGED <<directory, message>>

\* The verdict, by the sign of the result, and the return from main.
Close ==
  /\ stage = "close" /\ stage' = "end"
  /\ message' = IF Number(result) > 0 THEN "Parsing was unsuccessful." ELSE "Success"
  /\ status' = ExitStatus(result)
  /\ UNCHANGED <<parserVars, directory, result, symtable, reported>>

MainInit ==
  /\ ParserInit
  /\ stage = "usage" /\ directory \in BOOLEAN
  /\ fresh \in Fresh /\ result = fresh /\ reported = {}
  /\ symtable = "none" /\ message = "none" /\ status = -1

MainNext ==
  /\ Quit \/ Arguments \/ Open \/ MakeDirectory \/ Parse \/ Close
  /\ UNCHANGED fresh

MainSpec == MainInit /\ [][MainNext]_<<parserVars, mainVars>>
            /\ WF_<<parserVars, mainVars>>(MainNext)

-----------------------------------------------------------------------------
(* Properties.                                                             *)

Ended == stage = "end"

\* A status of 0 promises that nothing was reported, the source was read to its
\* end and the symbol table is in its file, whatever malloc left in the result.
\* The verdict agrees with the status only as far as the bits above the named
\* ones allow: main compares all of them with 0, of either sign, and the status
\* keeps eight.
ZeroMeansSuccess ==
  /\ Ended /\ status = 0 =>
       /\ reported = {} /\ la = "EOF" /\ symtable = "written"
       /\ (message = "Success" <=> fresh.high <= 0)
  /\ Ended /\ message = "Success" /\ fresh.high >= 0 => status = 0

\* What the status says of the errors: each kind that was reported has its bit
\* when parse came to its end, and no other has, but for those that malloc
\* left in the result, which main does not clear; a result that was small when
\* allocated is seen whole.  The exit from the middle of parse has the bit of
\* the syntax errors, which were reported, and no other.
StatusSaysWhich ==
  /\ Ended /\ outcome = "done" =>
       /\ status % 8 = Value(reported \cup fresh.low)
       /\ fresh.high \in 0 .. 31 => status = 8 * fresh.high + Value(reported \cup fresh.low)
  /\ Ended /\ outcome = "exit" => status = Value({"SYNERR"}) /\ "SYNERR" \in reported

\* The program ends, whatever it is given.
ProgramEnds == <>Ended
=============================================================================
