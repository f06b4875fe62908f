--------------------------- MODULE CompilerProofs ---------------------------
(***************************************************************************)
(* What the exit status is worth, on every source and every way the files  *)
(* can be opened or not: 0 means a whole source without an error, whatever *)
(* memory held before; the low bits are the errors that there were and     *)
(* what it held.                                                           *)
(***************************************************************************)
EXTENDS Compiler, ParserProofs

\* The bits of the result: those of the reports are added, the others stay.
Bits == /\ reported \subseteq Kind /\ fresh \in Word
        /\ syntax => "SYNERR" \in reported
        /\ result = [low |-> reported \cup fresh.low, high |-> fresh.high]

\* Which stage of main the outcome of the parser belongs to.
Stages ==
  /\ outcome = "running" \/ stage \in {"close", "end"}
  /\ stage = "close" => outcome = "done" /\ symtable = "written"

\* The verdict is the last word.
Silence == stage # "end" => message = "none"

\* The three ways the program ends.
Endings ==
  Ended =>
    \/ outcome = "running" /\ status = 1 /\ message = "none"
    \/ outcome = "exit" /\ status = 2 /\ message = "none"
    \/ /\ outcome = "done" /\ status = ExitStatus(result) /\ symtable = "written"
       /\ message = IF Number(result) > 0 THEN "Parsing was unsuccessful." ELSE "Success"

MainInvariant == ParserInvariant /\ Bits /\ Stages /\ Silence /\ Endings

-----------------------------------------------------------------------------
LEMMA NoBits == \A bits \in SUBSET Kind : Value(bits) \in 0 .. 7 /\ (Value(bits) = 0 => bits = {})
BY DEF Value, Kind

\* The low byte of a number keeps its three low bits, and a small number whole.
LEMMA LowByte ==
  ASSUME NEW h \in Int, NEW v \in 0 .. 7
  PROVE  /\ ((8 * h + v) % 256) % 8 = v
         /\ h \in 0 .. 31 => (8 * h + v) % 256 = 8 * h + v
         /\ 8 * h + v > 0 <=> h > 0 \/ (h = 0 /\ v > 0)
OBVIOUS

\* The number and the exit status of a result.
LEMMA StatusOf ==
  ASSUME NEW word \in Word
  PROVE  /\ ExitStatus(word) % 8 = Value(word.low)
         /\ word.high \in 0 .. 31 => ExitStatus(word) = 8 * word.high + Value(word.low)
         /\ Number(word) > 0 <=> word.high > 0 \/ (word.high = 0 /\ word.low # {})
         /\ ExitStatus(word) = 0 => word.low = {}
<1>1. word.high \in Int /\ word.low \in SUBSET Kind
  BY DEF Word
<1>2. PICK h \in Int, v \in 0 .. 7 : h = word.high /\ v = Value(word.low)
  BY <1>1, NoBits
<1>3. Number(word) = 8 * h + v /\ ExitStatus(word) = (8 * h + v) % 256
  BY <1>2 DEF Number, ExitStatus
<1>4. word.low = {} <=> v = 0
  BY <1>1, <1>2, NoBits DEF Value
<1>5. ExitStatus(word) % 8 = v
  BY <1>3, LowByte
<1>6. h \in 0 .. 31 => ExitStatus(word) = 8 * h + v
  BY <1>3, LowByte
<1>7. Number(word) > 0 <=> h > 0 \/ (h = 0 /\ v > 0)
  BY <1>2, <1>3, LowByte
<1>8. Number(word) > 0 <=> word.high > 0 \/ (word.high = 0 /\ word.low # {})
  <2>1. v > 0 <=> v # 0
    BY <1>2
  <2> QED
    BY <1>2, <1>4, <1>7, <2>1
<1>9. ExitStatus(word) = 0 => word.low = {}
  <2>1. 0 % 8 = 0
    OBVIOUS
  <2> QED
    BY <1>4, <1>5, <2>1
<1> QED
  BY <1>2, <1>5, <1>6, <1>8, <1>9

LEMMA InitMain == MainInit => MainInvariant
<1> SUFFICES ASSUME MainInit PROVE MainInvariant
  OBVIOUS
<1>1. ParserInvariant
  BY InitSound DEF MainInit
<1>2. Bits
  <2>1. fresh \in Word /\ result = fresh /\ reported = {} /\ ~syntax
    BY FreshAssumption DEF MainInit, ParserInit
  <2>2. fresh = [low |-> fresh.low, high |-> fresh.high]
    BY <2>1 DEF Word
  <2> QED
    BY <2>1, <2>2 DEF Bits
<1>3. Stages /\ Silence /\ Endings
  BY DEF MainInit, Stages, Silence, Endings, Ended, ParserInit
<1> QED
  BY <1>1, <1>2, <1>3 DEF MainInvariant

\* main before and after the parser runs.
LEMMA OutsideParser ==
  ASSUME MainInvariant, UNCHANGED fresh, Quit \/ Arguments \/ Open \/ MakeDirectory \/ Close
  PROVE  MainInvariant'
<1>1. UNCHANGED <<parserVars, result, reported>>
  BY DEF Quit, Arguments, Open, MakeDirectory, Close
<1>2. ParserInvariant'
  BY <1>1, NextSound DEF MainInvariant
<1>3. Bits'
  BY <1>1 DEF MainInvariant, Bits, parserVars
<1>4. outcome' = outcome
  BY <1>1 DEF parserVars
<1>5. Stages' /\ Silence' /\ Endings'
  <2>1. CASE Quit
    BY <2>1, <1>4 DEF MainInvariant, Quit, Opening, Stages, Silence, Endings, Ended
  <2>2. CASE Arguments
    BY <2>2, <1>4 DEF MainInvariant, Arguments, Stages, Silence, Endings, Ended
  <2>3. CASE Open
    <3>1. stage' \in {"source", "directory", "tokens", "symtable", "parse"} /\ outcome = "running"
      BY <2>3 DEF MainInvariant, Open, Opening, Next1, Stages
    <3>2. message' = message /\ message = "none"
      BY <2>3 DEF MainInvariant, Open, Opening, Silence
    <3> QED
      BY <3>1, <3>2, <1>4 DEF Stages, Silence, Endings, Ended
  <2>4. CASE MakeDirectory
    BY <2>4, <1>4 DEF MainInvariant, MakeDirectory, Next1, Stages, Silence, Endings, Ended
  <2>5. CASE Close
    <3>1. /\ outcome' = "done" /\ symtable' = "written" /\ stage' = "end"
          /\ status' = ExitStatus(result')
          /\ message' = IF Number(result') > 0 THEN "Parsing was unsuccessful." ELSE "Success"
      BY <2>5, <1>1, <1>4 DEF MainInvariant, Close, Stages
    <3> QED
      BY <3>1 DEF Stages, Silence, Endings, Ended
  <2> QED
    BY <2>1, <2>2, <2>3, <2>4, <2>5
<1> QED
  BY <1>2, <1>3, <1>5 DEF MainInvariant

\* A step of the parser reports what it reports, and ends as it ends.
LEMMA InsideParser ==
  ASSUME MainInvariant, Parse, UNCHANGED fresh
  PROVE  MainInvariant'
<1>1. ParserInvariant'
  BY NextSound DEF MainInvariant, Parse
<1>2. Bits'
  <2>1. PICK kinds \in SUBSET Reportable :
          Report(kinds \cup IF syntax' # syntax THEN {"SYNERR"} ELSE {})
    BY DEF Parse
  <2> DEFINE new == kinds \cup IF syntax' # syntax THEN {"SYNERR"} ELSE {}
  <2>2. result' = [result EXCEPT !.low = @ \cup new] /\ reported' = reported \cup new
    BY <2>1 DEF Report
  <2>3. new \subseteq Kind /\ (syntax' # syntax => "SYNERR" \in new)
    BY DEF Reportable, Kind
  <2> HIDE DEF new
  <2>4. result' = [low |-> reported' \cup fresh.low, high |-> fresh.high]
    <3>1. result = [low |-> reported \cup fresh.low, high |-> fresh.high]
      BY DEF MainInvariant, Bits
    <3>2. result' = [low |-> (reported \cup fresh.low) \cup new, high |-> fresh.high]
      BY <2>2, <3>1
    <3>3. (reported \cup fresh.low) \cup new = reported' \cup fresh.low
      BY <2>2
    <3> QED
      BY <3>2, <3>3
  <2> QED
    BY <2>2, <2>3, <2>4 DEF MainInvariant, Bits
<1>3. Stages' /\ Silence' /\ Endings'
  BY DEF MainInvariant, Parse, Stages, Silence, Endings, Ended
<1> QED
  BY <1>1, <1>2, <1>3 DEF MainInvariant

LEMMA MainKeeps ==
  MainInvariant /\ [MainNext]_<<parserVars, mainVars>> => MainInvariant'
<1> SUFFICES ASSUME MainInvariant, [MainNext]_<<parserVars, mainVars>>
             PROVE  MainInvariant'
  OBVIOUS
<1>1. CASE UNCHANGED <<parserVars, mainVars>>
  <2>1. ParserInvariant'
    BY <1>1, NextSound DEF MainInvariant
  <2>2. Bits' /\ Stages' /\ Silence' /\ Endings'
    BY <1>1 DEF MainInvariant, Bits, Stages, Silence, Endings, Ended, parserVars, mainVars
  <2> QED
    BY <2>1, <2>2 DEF MainInvariant
<1> QED
  BY <1>1, OutsideParser, InsideParser DEF MainNext

LEMMA MainIsSound == MainSpec => []MainInvariant
BY InitMain, MainKeeps, PTL DEF MainSpec

-----------------------------------------------------------------------------
(* The theorems.                                                           *)

\* What the result is when main returns it.
LEMMA ResultIs ==
  ASSUME MainInvariant
  PROVE  result \in Word /\ result.low = reported \cup fresh.low /\ result.high = fresh.high
BY DEF MainInvariant, Bits, Word

\* On every source and whatever int memory held: status 0 is returned only when
\* nothing was reported, the source was read to its end and the symbol table
\* was written; "Success" goes with it unless memory held a number above the
\* named bits, and without it only if memory held a negative one.
THEOREM ZeroIsSuccess == MainSpec => []ZeroMeansSuccess
<1>1. MainInvariant => ZeroMeansSuccess
  <2> SUFFICES ASSUME MainInvariant, Ended PROVE ZeroMeansSuccess
    BY DEF ZeroMeansSuccess
  <2>0. /\ result.low = reported \cup fresh.low /\ result.high = fresh.high /\ fresh.high \in Int
        /\ ExitStatus(result) = 0 => result.low = {}
        /\ result.high \in 0 .. 31 => ExitStatus(result) = 8 * result.high + Value(result.low)
        /\ Number(result) > 0 <=> result.high > 0 \/ (result.high = 0 /\ result.low # {})
    <3>1. result \in Word /\ result.low = reported \cup fresh.low /\ result.high = fresh.high
      BY ResultIs
    <3>2. fresh.high \in Int
      BY <3>1 DEF Word
    <3> QED
      BY <3>1, <3>2, StatusOf
  <2>1. ASSUME status = 0
        PROVE  /\ reported = {} /\ la = "EOF" /\ symtable = "written"
               /\ (message = "Success" <=> fresh.high <= 0)
    <3>1. /\ outcome = "done" /\ ExitStatus(result) = 0 /\ symtable = "written"
          /\ message = IF Number(result) > 0 THEN "Parsing was unsuccessful." ELSE "Success"
      <4>1. Endings /\ status # 1 /\ status # 2
        BY <2>1 DEF MainInvariant
      <4> QED
        BY <2>1, <4>1 DEF Endings
    <3>2. result.low = {} /\ reported = {}
      BY <2>0, <3>1
    <3>3. ~syntax
      BY <3>2 DEF MainInvariant, Bits
    <3>4. la = "EOF"
      BY <3>1, <3>3 DEF MainInvariant, ParserInvariant, StackInvariant, EndsHonestly
    <3>5. Number(result) > 0 <=> fresh.high > 0
      BY <2>0, <3>2
    <3>6. fresh.high > 0 <=> ~(fresh.high <= 0)
      BY <2>0
    <3>7. message = "Success" <=> ~(Number(result) > 0)
      BY <3>1
    <3>8. message = "Success" <=> fresh.high <= 0
      BY <3>5, <3>6, <3>7
    <3> QED
      BY <3>1, <3>2, <3>4, <3>8
  <2>2. ASSUME message = "Success", fresh.high >= 0 PROVE status = 0
    <3>1. /\ status = ExitStatus(result)
          /\ message = IF Number(result) > 0 THEN "Parsing was unsuccessful." ELSE "Success"
      BY <2>2 DEF MainInvariant, Endings
    <3>2. ~(Number(result) > 0)
      BY <2>2, <3>1
    <3>3. result.high = 0 /\ result.low = {}
      <4>1. ~(result.high > 0) /\ result.high >= 0 /\ result.high \in Int
        BY <2>0, <2>2, <3>2
      <4>2. result.high = 0
        BY <4>1
      <4> QED
        BY <2>0, <3>2, <4>2
    <3>4. Value({}) = 0
      BY DEF Value
    <3>5. ExitStatus(result) = 8 * 0 + 0
      BY <2>0, <3>3, <3>4
    <3>6. 8 * 0 + 0 = 0
      OBVIOUS
    <3> QED
      BY <3>1, <3>5, <3>6
  <2> QED
    BY <2>1, <2>2 DEF ZeroMeansSuccess
<1> QED
  BY <1>1, MainIsSound, PTL

\* The low bits of the status after a complete parse name the kinds of error
\* that were reported, and what malloc left; after the early exit the syntax
\* errors alone.
THEOREM StatusIsTrue == MainSpec => []StatusSaysWhich
<1>1. MainInvariant => StatusSaysWhich
  <2> SUFFICES ASSUME MainInvariant, Ended PROVE StatusSaysWhich
    BY DEF StatusSaysWhich
  <2>1. outcome = "done" => status = ExitStatus(result)
    BY DEF MainInvariant, Endings
  <2>2. /\ ExitStatus(result) % 8 = Value(reported \cup fresh.low)
        /\ fresh.high \in 0 .. 31 =>
             ExitStatus(result) = 8 * fresh.high + Value(reported \cup fresh.low)
    BY ResultIs, StatusOf
  <2>3. outcome = "exit" => status = 2 /\ "SYNERR" \in reported
    BY DEF MainInvariant, Endings, Bits, ParserInvariant, StackInvariant, EndsHonestly
  <2>4. Value({"SYNERR"}) = 2
    BY DEF Value
  <2> QED
    BY <2>1, <2>2, <2>3, <2>4 DEF StatusSaysWhich
<1> QED
  BY <1>1, MainIsSound, PTL
=============================================================================
