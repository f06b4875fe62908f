------------------------------- MODULE Parser -------------------------------
(***************************************************************************)
(* The control of the recursive descent parser (src/parser.c): the stack   *)
(* of C calls, the next token, and the recovery from syntax errors.        *)
(*                                                                         *)
(* The source is a stream of tokens without lexical errors: one of the     *)
(* given Beginnings, then any tokens of the Alphabet.  get_next_token is   *)
(* seen as a peek (la) and a Consume.  The calls that change the symbol    *)
(* table are passed over here; Frontend.tla makes them.                    *)
(***************************************************************************)
EXTENDS Grammar, SequencesExt

CONSTANTS
  Beginnings,    \* how the source may begin
  Alphabet,      \* the tokens that may follow
  MaxFree        \* bound: number of tokens after the beginning

ASSUME BeginningsAssumption == Beginnings \subseteq Seq(Token \ {"EOF"})
ASSUME AlphabetAssumption == Alphabet \subseteq Token \ {"EOF"}
ASSUME MaxFreeAssumption == MaxFree \in Nat

VARIABLES
  stack,     \* the active parse_ functions, innermost last
  la,        \* the next token
  source,    \* what is left of the beginning
  read,      \* number of tokens consumed
  free,      \* how many tokens after the beginning were chosen
  syntax,    \* the PARSER_RESULT_SYNERR bit of ParserData.result
  outcome    \* "running", "exit" (synch ends the program) or "done"

sourceVars == <<la, source, read, free>>
parserVars == <<stack, sourceVars, syntax, outcome>>

\* A call: before its switch, in a case group, or skipping tokens in synch;
\* from records how many tokens had been consumed when it was made.
Frame(prod, from) ==
  [prod |-> prod, at |-> "switch", todo |-> <<>>, from |-> from]

-----------------------------------------------------------------------------
(* Tokens.                                                                 *)

\* get_next_token; at the end of the source it returns TOKEN_EOF for ever.
Consume ==
  IF la = "EOF" THEN UNCHANGED sourceVars
  ELSE /\ read' = read + 1
       /\ \/ /\ source # <<>>
             /\ la' = Head(source) /\ source' = Tail(source)
             /\ UNCHANGED free
          \/ /\ source = <<>> /\ free < MaxFree
             /\ la' \in Alphabet
             /\ free' = free + 1 /\ UNCHANGED source
          \/ /\ source = <<>>
             /\ la' = "EOF"
             /\ UNCHANGED <<source, free>>

-----------------------------------------------------------------------------
(* The running call.                                                       *)

Running == outcome = "running" /\ stack # <<>>
Top     == Last(stack)

InBody  == Running /\ Top.at = "body"
InSynch == Running /\ Top.at = "synch"

\* The running call is at a step of this kind.
NextIs(op) == InBody /\ Top.todo # <<>> /\ Head(Top.todo).op = op

Become(frame) == stack' = Append(Front(stack), frame)
Advanced      == [Top EXCEPT !.todo = Tail(@)]
Recovering    == [Top EXCEPT !.at = "synch", !.todo = <<>>]

synerr == syntax' = TRUE

\* The switch of a parse_ function: a case group, or the default branch.
Switch ==
  /\ Running /\ Top.at = "switch"
  /\ \/ \E a \in Rules[Top.prod] :
          /\ la \in a.on
          /\ Become([Top EXCEPT !.at = "body", !.todo = a.body])
          /\ UNCHANGED syntax
     \/ /\ la \notin Labels(Top.prod)
        /\ Become(Recovering)
        /\ synerr
  /\ UNCHANGED <<sourceVars, outcome>>

\* Mutant: a comma is only peeked at, as synch does.
match_Peeks ==
  /\ NextIs("match")
  /\ \/ /\ la = Head(Top.todo).arg
        /\ Become(Advanced)
        /\ UNCHANGED syntax
     \/ /\ la # Head(Top.todo).arg
        /\ Become(Recovering)
        /\ synerr
  /\ IF la = "COMMA" THEN UNCHANGED sourceVars ELSE Consume
  /\ UNCHANGED outcome

\* match: the token is consumed whether or not it is the wanted one.
match ==
  /\ NextIs("match")
  /\ \/ /\ la = Head(Top.todo).arg
        /\ Become(Advanced)
        /\ UNCHANGED syntax
     \/ /\ la # Head(Top.todo).arg
        /\ Become(Recovering)
        /\ synerr
  /\ Consume
  /\ UNCHANGED outcome

Call ==
  /\ NextIs("parse")
  /\ stack' = Append(Front(stack), Advanced) \o <<Frame(Head(Top.todo).arg, read)>>
  /\ UNCHANGED <<sourceVars, syntax, outcome>>

\* A call of symbol_table.c.
TableCall ==
  /\ NextIs("table")
  /\ Become(Advanced)
  /\ UNCHANGED <<sourceVars, syntax, outcome>>

Return ==
  /\ InBody /\ Top.todo = <<>>
  /\ stack' = Front(stack)
  /\ UNCHANGED <<sourceVars, syntax, outcome>>

\* Mutant: the end of the source is skipped like any other token.
synch_PastEof ==
  /\ InSynch
  /\ IF la \in SynchSet(Top.prod)
     THEN stack' = Front(stack) /\ UNCHANGED sourceVars
     ELSE Consume /\ UNCHANGED stack
  /\ UNCHANGED <<syntax, outcome>>

\* synch: skip to a token of the set, which is left to the caller; TOKEN_EOF
\* ends the whole program.
synch ==
  /\ InSynch
  /\ \/ /\ la \in SynchSet(Top.prod)
        /\ stack' = Front(stack)
        /\ UNCHANGED <<sourceVars, outcome>>
     \/ /\ la = "EOF"
        /\ outcome' = "exit"
        /\ UNCHANGED <<stack, sourceVars>>
     \/ /\ la \notin SynchSet(Top.prod) \cup {"EOF"}
        /\ Consume
        /\ UNCHANGED <<stack, outcome>>
  /\ UNCHANGED syntax

\* Mutant: what follows the program is not looked at.
Finish_Unchecked ==
  /\ outcome = "running" /\ stack = <<>>
  /\ outcome' = "done"
  /\ UNCHANGED <<stack, sourceVars, syntax>>

\* The end of parse: match(TOKEN_EOF), then the symbol table is printed.
Finish ==
  /\ outcome = "running" /\ stack = <<>>
  /\ syntax' = (syntax \/ la # "EOF")
  /\ Consume
  /\ outcome' = "done"
  /\ UNCHANGED stack

ParserInit ==
  /\ stack = <<Frame("program", 0)>>
  /\ \E begin \in Beginnings : /\ begin # <<>>
                              /\ la = Head(begin)
                              /\ source = Tail(begin)
  /\ read = 0 /\ free = 0
  /\ syntax = FALSE
  /\ outcome = "running"

ParserNext ==
  Switch \/ match \/ Call \/ TableCall \/ Return \/ synch \/ Finish

\* The parser is one sequential program: it runs on as long as it can.
ParserSpec == ParserInit /\ [][ParserNext]_parserVars /\ WF_parserVars(ParserNext)

-----------------------------------------------------------------------------
(* Properties.                                                             *)

FrameType == [prod : Production, at : {"switch", "body", "synch"},
              todo : Seq(Step), from : Nat]

ParserTypeOK ==
  /\ stack \in Seq(FrameType)
  /\ la \in Token /\ source \in Seq(Token)
  /\ read \in Nat /\ free \in 0 .. MaxFree
  /\ syntax \in BOOLEAN
  /\ outcome \in {"running", "exit", "done"}

\* What a call has still to parse, as the bodies say it.
Pending(i) == IF stack[i].at = "switch" THEN <<Sub(stack[i].prod)>> ELSE stack[i].todo

\* Nothing has to come before what the i-th call has still to parse.
Reached(i) == \A j \in i + 1 .. Len(stack) : CanBeEmpty(Pending(j))

\* What the active calls have still to parse can begin with t: before any
\* error, some program that starts with the tokens read so far goes on with t.
Viable(t) ==
  \/ \E i \in DOMAIN stack : Reached(i) /\ t \in FirstOf(Pending(i), First)
  \/ t = "EOF" /\ Reached(0)

\* The next step is a call of synerr, which names these tokens as expected.
AboutToReport ==
  \/ Running /\ Top.at = "switch" /\ la \notin Labels(Top.prod)
  \/ NextIs("match") /\ la # Head(Top.todo).arg
  \/ outcome = "running" /\ stack = <<>> /\ la # "EOF"

Expecting ==
  IF stack = <<>> THEN {"EOF"}
  ELSE IF Top.at = "switch" THEN Expected(Top.prod) ELSE {Head(Top.todo).arg}

\* A syntax error reported is an error, after a recovery too: the active calls
\* cannot go on with the token it names.  A case label missing for an empty
\* production would break this only after some token sequences.
NoFalseAlarm == AboutToReport => ~Viable(la)

\* An operand, once parsed or recovered from, is followed by a token its
\* operator's production has a case for: synch in term and factor stops where
\* expr_ and simple_expr_ can go on, and their default branches, one of which
\* passes synerr a length beyond its array, are never taken.
OperandsResume ==
  Running /\ Top.at = "switch" /\ Top.prod \in {"expr_", "simple_expr_"}
    => la \in Labels(Top.prod)

\* The recursion is driven by the source: between two active calls of one
\* production a token was consumed, in recovery too, so that the depth of the
\* C stack is bounded by the length of the source.
RecursionConsumes ==
  \A i, j \in DOMAIN stack :
    i < j /\ stack[i].prod = stack[j].prod => stack[i].from < stack[j].from

\* The table is printed and status 0 returned only if the source was read
\* to its end; the early exit is taken only after a syntax error.
EndsHonestly ==
  /\ outcome = "done" /\ ~syntax => la = "EOF"
  /\ outcome = "exit" => syntax /\ la = "EOF"

\* Calls are made from bodies, in the order of their tokens.
CallsNest ==
  /\ \A i \in DOMAIN stack : stack[i].from <= read
  /\ \A i, j \in DOMAIN stack :
       i < j => stack[i].at = "body" /\ stack[i].from <= stack[j].from

\* Among the calls made at one token the rank of the productions falls.
RankFalls ==
  \A i, j \in DOMAIN stack :
    i < j /\ stack[i].from = stack[j].from => Rank[stack[j].prod] < Rank[stack[i].prod]

\* Where a call is that has not consumed a token yet: it has done nothing of
\* its case group, or is in the leading call; and it is recovering only if no
\* case label of its caller promised that it would not have to.
OnlyLeadingCalls ==
  \A i \in DOMAIN stack : stack[i].from = read =>
    /\ stack[i].at = "body" /\ i = Len(stack) =>
         \E a \in Rules[stack[i].prod] : la \in a.on /\ stack[i].todo = a.body
    /\ stack[i].at = "body" /\ i < Len(stack) =>
         \E a \in Rules[stack[i].prod] :
           la \in a.on /\ a.body # <<>> /\ Head(a.body) = Sub(stack[i + 1].prod)
    /\ stack[i].at = "synch" /\ i > 1 => stack[i - 1].from < read

\* No call skips tokens without having reported an error.
RecoveryIsReported == \A i \in DOMAIN stack : stack[i].at = "synch" => syntax

StackInvariant ==
  ParserTypeOK /\ CallsNest /\ RankFalls /\ OnlyLeadingCalls
  /\ RecoveryIsReported /\ EndsHonestly

\* The running call has done the first k steps of the case group.  Behind an
\* operand comes a token that its synch stops at.
StandsBehind(a, k) ==
  /\ k = 0 => la \in a.on
  /\ \A q \in Operand : k > 0 /\ a.body[k] = Sub(q) => la \in SynchSet(q)

\* Every call is at a place of one of its bodies: behind the call it waits for
\* or, if it is the running one, behind what it has done.
PlacesInBodies ==
  \A i \in DOMAIN stack :
    /\ stack[i].at # "body" => stack[i].todo = <<>>
    /\ stack[i].at = "body" =>
         \E a \in Rules[stack[i].prod] : \E k \in 0 .. Len(a.body) :
           /\ stack[i].todo = SubSeq(a.body, k + 1, Len(a.body))
           /\ IF i = Len(stack) THEN StandsBehind(a, k)
              ELSE k > 0 /\ a.body[k] = Sub(stack[i + 1].prod)

ProgramIsOutermost == stack # <<>> => stack[1].prod = "program"

\* The inductive invariant of the parser.
ParserInvariant ==
  StackInvariant /\ PlacesInBodies /\ ProgramIsOutermost /\ OperandsResume

\* The parser comes to an end on every source: synch makes progress or gives
\* up at the end of the source, and no production is retried for ever.
Terminates == <>(outcome # "running")

\* As the message of output_synerr reads, "Expecting ... but received ...":
\* the token received is none of those expected.
MessageMakesSense == AboutToReport => la \notin Expecting
=============================================================================
