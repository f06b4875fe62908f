# Verification of the Pascal front-end

The repository is the front-end of a compiler for a subset of Pascal, written
in C as a recursive descent parser that types expressions and builds a symbol
table on the way. This directory holds TLA+ models of its core, the TLC runs
that check them on small instances, and proofs, checked by TLAPS, of what can
be said about them for every instance.

Paths below are relative to the repository (`src/parser.c` etc.).

## 1. Inventory

| Component | State | Operations | What makes it correct |
|---|---|---|---|
| Symbol table (`src/symbol_table.c`) | a tree of entries linked by `next`, `prev`, `parent`, `child`, `temp`; the eye `sym_eye`, the turn `sym_turn` | `check_enter_method`, `check_exit_method`, `check_add_var`, `check_add_prog_param`, `check_add_fun_param`, `set_method_type`, `set_method_param_count`; queries `get_symbol`, `get_type`, `get_num_params`, `get_param_type` | one consistent tree; insertion never unhooks an entry; the operations implement block-structured scopes; a lookup finds the innermost declaration |
| Parser (`src/parser.c`) | the C stack of `parse_` functions, the next token, the error bits | 39 productions, `match`, `synch`, `parse` | accepts what its own productions describe, ends on every source, recovers without losing its place in the symbol table |
| Semantic analysis (`src/parser.c`, `types_equal`) | synthesized and inherited attributes | in the bodies of the expression productions | every ill-typed expression is reported once; `ERR` silences what depends on it |
| Token stream (`src/token.c`) | statics of `get_next_token`: source `s`, line `l`, position `f`, line number `i`, last options `o`, last token `r` | `get_next_token` with its options, `get_next_line`, `chomp` | a peek returns the token that the next call consumes; lexical errors are reported once and skipped; every call returns; a token is on the line it says |
| Lexical machines (`src/machine.c`) | none between calls; within one the state, the reading position and marks in the input | `machine_omega` and six machines tried in turn | the longest lexeme, the right class, the documented limits |
| Address computation (`output_symbol_table`) | none | offsets of the locals of every scope | offsets do not overlap |
| Errors (`src/errors.c`) | `ParserData.result`, the listing | `lexerr`, `synerr`, `semerr` | the status tells what was found |
| `main` (`src/pascal.c`) | the files, `ParserData` | open, parse, verdict, exit status | 0 means that nothing was reported; the low bits name the errors |
| Reserved words | the list of words | read once | text processing |

How they interact: `main` allocates one `ParserData`, which every function gets
by pointer, and calls `parse`. A production peeks at a token, switches on it,
and in its body matches tokens, calls productions and calls `symbol_table.c`.
All state that outlives a call is in `ParserData` and in the statics of
`get_next_token`. There is no concurrency and nothing is persisted. What is hard
is order: the symbol table is driven by an implicit cursor (eye and turn) whose
meaning depends on the calls made before, and error recovery drops out of
productions in the middle, so that the calls of one production do not always
come together.

The complete list of hazards, each at its line, is in `PROJECT.json`.

## 2. Modules

    SymbolTable            symbol_table.c, any order of calls
      SymbolTableProofs    its theorems
      Declarations         the calls of a syntactically correct program
        ScopeStack         the abstract specification: a stack of scopes
      Listing              the walk of output_symbol_table, and addresses
        TableProofs        the theorems of both, the refinement among them
    Lexemes                what a lexeme is, without automata
      Machines             the automata of machine.c, shown to find lexemes
        MachinesProofs     their theorems
      Tokenizer            get_next_token and its statics
        TokenStream        the abstract specification: a stream with lookahead
        TokenizerProofs    its theorems
    Grammar                the tables of parser.c
      GrammarFacts         what the proofs use of the tables; TLC evaluates it
      Parser               its control: stack, tokens, recovery
        ParserProofs       its theorems
        Frontend           Parser and SymbolTable together; shown to keep
                           the discipline of Declarations
          HandUp           the attribute that counts parameters, shown to
                           implement Frontend
          FrontendProofs   the theorems of both, for the two together, that it keeps
                           the discipline of Declarations, and those of HandUp
        Compiler           main around Parser: files, verdict, exit status
          CompilerProofs   its theorems
    TypeRules              the semantic rules of parser.c
      TypingReference      the rules of the language they are compared with
        Typing             their order, on statements as they are parsed
          TypingProofs     its theorems

The chain from a file to an exit status is cut at three abstract interfaces, each of which
one module implements and the next one takes for granted: `Lexeme`
(`Machines` computes it, `Tokenizer` uses it), the token stream with one
lookahead (`Tokenizer` implements it, `Parser` reads it as `la` and `Consume`),
and the discipline of calls (`Frontend` keeps it, `Declarations` relies on it).

**SymbolTable.tla** has one action per C function that changes the table, with
the function's name. An entry is its allocation number, `NULL` is 0, each link
is a function on entries. `check_add_var` is `AddEntry` plus the early return on
a NULL eye; the links of a new entry are `HangBelow` (after a turn) or
`HangAfter`. `get_symbol` is the same walk as the loops in C (`EndOfScope`,
`Before`, `SearchFrom`, `StopCondition`). Names are model values: they are only
compared. Of `Type` only `std_type` and the `fun` flag are kept. `sym_turn`
starts with either value, since `main` does not set it. `result` holds the
`SEMERR` bit only.

**Declarations.tla** adds the order in which `parse_program`,
`parse_id_list`, `parse_declarations` and `parse_subprogram_*` call the table
when the source has no syntax error: a variable `pc` for where the parser is, and
`c` for the attribute that counts parameters. Duplicate names are still possible
there. **ScopeStack.tla** says what those calls promise, with no links, eye or
turn: declarations go to the innermost scope, leaving drops it, the error bit is
set exactly on a duplicate in the same scope (for functions: any visible
declaration of the name; the first program parameter is also compared with the
program name). `Abstract` in Declarations is the refinement mapping: the path
from the root to the owner of the current scope.

**Grammar.tla** has the switch of every production as data: `Rules["x"]` is the
set of case groups of `parse_x`, each with its labels and the matches, calls and
table calls of its body in order. `SynchSet` and `Expected` are the sets of
`synch` and of the default branches. `First` and `Nullable` are computed from
the bodies alone; they are what the labels are compared with. **GrammarFacts.tla** holds the
facts about these tables that the proofs cite, as assumptions that TLC evaluates in the run
`Compiler`; they are kept apart so that a wrong table shows in a behaviour of the parser, and
not only in a violated assumption.

**Parser.tla** executes the tables with an explicit stack of calls. A frame is
before its switch, in a body, or in `synch`. `match` consumes the token whether
it fits or not, as the code does; a failed `match` or a default branch goes to
`synch`, which returns to the caller with the token left in place. Reaching the
end of the source in `synch` ends the program (`outcome = "exit"`). The source is
a stream that begins in one of a few ways and goes on freely.

**Frontend.tla** is `Parser` with its `TableCall` steps replaced by the actions
of `SymbolTable`. Names are chosen freely at each call. `Phase` reads Declarations'
`pc` off the parser's stack, and `KeepsDiscipline` states that, up to the first
syntax error, every step is a step of `Declarations`: what is checked there is
therefore about this parser and not about an imagined caller. The number passed to
`set_method_param_count` is `c` here, the number of parameters entered.

**HandUp.tla** is where that number comes from: each call has its own `Attributes.c` (`counts`),
which `parse_param_list_` gets from its caller with one more (`Passed`) and which comes back
through `parse_param_list`, `parse_arguments` and `parse_subprogram_head_` (`Handed`), also when a call
ends in recovery. `set_method_param_count` is given what `parse_subprogram_head` got. That this is
`Frontend` is the refinement `ImplementsFrontend`.

**Lexemes.tla** states the languages of the lexer as predicates on words
(`IsReal`, `IsLongReal`, ...), the token of a word with the limits on its parts
(`TokenOf`), and `Lexeme`, the longest lexeme at a place of a line. There are no
automata in it. Characters are strings in classes (letters, digits, blanks, what no
machine knows), and the limits of `machine.h` are constants.

**Machines.tla** is the code of `machine.c`: one action per machine, one
disjunct per state of its `switch`, with the pointers `f`, `dot`, `e` and `sign`
as places in the line, and the order in which `machine_omega` tries them
(`NextMachine`). After a lexeme the caller goes on where it ended.

**Tokenizer.tla** is `get_next_token`: `Recall` is its first `if`, and otherwise a
call is `Call` and then one step per level of its recursion, `GrabLine`,
`SkipWhitespace`, `SkipError` or `Return`. `get_next_line` is `fgets` (a chunk of a
file of characters, cut at `MAX_LINE_LENGTH`), `feof` (which holds only after a
read met the end) and `chomp`; a read that finds nothing shows `junk`, what `malloc`
left in the buffer. Which line `l` is, is counted by `row`; `i` is the C variable.
**TokenStream.tla** is the promise: a sequence of tokens, `Peek` looks at the next
one, `Take` takes it, the last one (the end of the file) stays. The sequence is `TokensIn`,
made from the file without any state: the lines begin where reads lead to from the
beginning (`Begins`, the least set that no read leaves), the lexemes of a line start where lexemes lead to
(`Starts`), and the k-th token is the one at the k-th of these places whose lexeme is
returned (`Places`). `NextIndex` is the refinement mapping: the tokens behind the reading position,
less the one remembered.

**TypeRules.tla** has one operator per semantic rule, with the result type and
whether `semerr` is called; `Type` is the C struct. **Typing.tla** runs them in the parser's order: each
action is a choice the grammar allows for the next token together with the code that
runs on it, and the stack holds the procedures that wait, with the attributes they
keep in locals. So a statement is made up as it is parsed, and every statement with up
to `MaxTokens` operands and prefixes is reached. **TypingReference.tla** says what the analysis is
for: it judges an expression by the judgements of its operands (`Unary`, `Binary`, `Argument`,
`Complete`), without regard to the order in which the parser meets them. A judgement is the type by the rules of the
language, for each kind of leniency that a property mentions; the number of mistakes;
whether the analysis hands on a type, or none, where an error would be right (`open`); and how many operators,
a sign or an OR, did so (`spoils`). `Typing` carries it along in `expr`
and `left`, which nothing in the code corresponds to and no rule reads; `reports` counts the calls of
`semerr` before an operand.

**Listing.tla** adds to `SymbolTable` the last step of `parse`: the recursive walk of
`output_symbol_table` on a stack of activations, on every table that calls of
`SymbolTable` can leave, with `type_size` and the bounds of arrays in ints that go up to
`INT_MAX` and wrap around (`int`).

**Compiler.tla** is `main`: what may fail before the parser runs, the parser (all of `Parser.tla`) with
the errors that `lexerr` and `semerr` may report beside it, the early `exit` in
`synch`, the message and the status. `ParserData.result` is an `int`: the three named bits and
the number that the others make, with its sign (`Word`). `main` compares all of it with 0 for the verdict
(`Number`), and of what it returns the caller sees eight bits (`ExitStatus`). `Fresh` is what the int
may hold when `malloc` returned it.

MC modules and `.cfg` files give the constants their values. Operators named
`X_Something` and commented *Mutant* are wrong versions of the definition `X`, kept to show
that each property can fail; nothing else uses them.

## 3. Runs

| Run | Question | Instance | Distinct states |
|---|---|---|---|
| `SymbolTable` | Is the table sound under any order of calls? | 2 names, 1 type, 4 entries | 151,296 |
| `Declarations` | Do its calls implement scopes? | 2 names, 6 entries | 21,875 |
| `Parser` | Is the parser's control right, recovery included? | 12 beginnings and up to 4 free tokens out of all 30 | 143,391 |
| `Frontend` | Do table, parser and the count that it hands up stay together through recovery? | `HandSpec`; 12 beginnings, up to 6 free tokens out of 11, 2 names, 8 entries | 816,808 |
| `Machines` | Do the automata find the longest lexeme? | all lines of up to 3 of 14 characters, numbers of up to 6 characters; limits 2, 2, 2, 1, 1 | 612,685 |
| `Tokenizer` | Do the statics implement one stream, and does every call return? | all files of up to 2 of 7 characters or 3 of 5, and 7 longer ones; lines of 4, 3 buffers | 44,945 |
| `Typing` | Do the attributes find the mistakes? | all statements of up to 4 operands and prefixes over 4 symbols and an undefined name | 1,878,777 |
| `Listing` | Is the listing right, and the storage disjoint? | every table of up to 4 entries, 5 kinds of variable, ints up to 127 | 3,381,836 |
| `Compiler` | What does the exit status tell? | 3 beginnings, up to 5 free tokens out of 11; 12 ints left in the result: any named bits, and higher bits of either sign, within the eight of the status and beyond | 226,056 |
| `ParserMessage`, `FrontendExit`, `FrontendDuplicate` | the findings of section 6 | shorter | |

*Properties of `SymbolTable`*: `EyeIsLast`;
`TableInvariant` (the inductive invariant of section 5, with the type invariant `TypeOK` and
`WellLinked`: `next`/`prev` inverse, siblings share a parent, first sibling is the child);
`LinksAreWrittenOnce` (no insertion overwrites a link).

*Properties of `Declarations`*: `DeclInvariant` (section 5), `LookupIsInnermost`, `SiblingsAreDistinct`,
`SignatureAgrees` (what a call is checked against: the n-th parameter has a type
exactly for n below the count), and the refinement `ImplementsScopes`.

*Properties of `Parser`*: `NoFalseAlarm` (an error is reported only at a token with which
what the calls on the stack still have to read cannot begin, at the first error and at those
after recovery: this finds a case label missing from an empty production), `OperandsResume` (recovery inside an operand stops where
the operator productions can go on; their default branches are dead code), `RecursionConsumes` (two active calls of one production are
separated by a consumed token, so recursion depth is bounded by the source),
`ParserInvariant` (the inductive invariant of section 5; `EndsHonestly`, a part of it, says that the program ends early
only after a syntax error, and without one only at the end of the source), and the liveness property `Terminates`.

*Properties of `Frontend`*, through error recovery: `EyeIsSetWhenUsed` (no NULL
dereference), `SignatureGoesToOwnMethod`, `ParametersComeFirst`,
`FrontOrder` (what section 5 adds to the invariants of the two: while a function head is parsed, its
method and parameters are the last entries, and the eye is on the last of them; and as long as
there is no syntax error, the calls come in order). As long as there is no syntax error:
`EveryMethodIsLeft` and `KeepsDiscipline`.

The runs on the two are runs of `HandUp`, which has all of `Frontend` in it. Of the
counts themselves: `CountIsHandedUp` (while a function head is entered, the call that counts and waits for
no other that does has counted the parameters entered, but for one that it is about to pass down; a call
that will take a count over has none yet) and the refinement `ImplementsFrontend`.

*Properties of `Machines`*: `LongestLexeme` (the order of the machines and their backing up
give the longest lexeme and its token), `ReadsStayOnLine`, `MarksAreSet` (the
pointers that lengths are computed from are set, in order), `MachineInvariant` (section 5; `LexemesTile`, a part of it,
says that no character is lost or read twice), and `LineEnds`.

*Properties of `Tokenizer`*: the refinement `ImplementsStream`;
`ErrorsAreDealtWithOnce` (a lexical error is reported once, in order, and
not both reported and squashed); `TokenizerInvariant` (section 5); `TokenIsWhereItSays`
(on a source with lines that fit, the token is found at its place in the line of that number
as an editor counts, and the end of the file on the last line. A newline at the end begins one line more: nothing is
there, and what is shown in it is what the buffer of the failed `fgets` held, counted like a line);
and the liveness property `CallsReturn`.

*Properties of `Typing`*: `SilentMeansWellTyped` (no report only if the statement is
well typed, but for bare names of functions as operands of each other, and for an argument whose
parameter has the type `ERR`: `types_equal` lets another `ERR` pass for it. What is allowed of bare names is
exact: a product or a comparison of two has a value, a sum is as bare as they are, and a bare one is
neither assigned nor passed nor mixed with a value),
`WellTypedIsSilent` (no false alarm) and `NoCascade` (wherever an expression ends, in parentheses, as
an index, an argument or the end of a statement, at most one report per
mistake in it, and one more for each sign or OR that leaves a mistake open: there the code resets or
forgets `ERR`, and a second report is possible, but no third).

*Properties of `Listing`*: `ListingIsOutline` (every entry below the root
once, in source order, as deep as its scope) and `StorageIsDisjoint` (variables of a
scope do not overlap if their bounds and their sum fit an int; without that
condition they do); and `ListInvariant` (section 5).

*Properties of `Compiler`*: `ZeroMeansSuccess` (a status of 0 means that nothing was reported, whatever int the
result was; the verdict goes with it as far as the bits above the named ones allow), `StatusSaysWhich` (the low bits
of the status) and `ProgramEnds`.

### Bounds

- Four entries under arbitrary calls are enough for every link of
  an entry to be written by every action, for the second exit through `temp`,
  and for a second root entered with the eye on NULL; the theorems remove the
  bound. Six entries in `Declarations` allow a program, a parameter, two nested functions
  with a parameter or variable, and a sibling function after them; eight in `Frontend`
  are more than its sources can declare.
- Two names are enough: a property compares two entries. `FrontendDuplicate`
  takes three so that nothing else in its source is a duplicate. Names are symmetric.
- One variable type: the table only tells types from `NONE`.
- `MaxFree` bounds the length of the source after its beginning. The beginnings
  put the parser in the middle of each kind of construct, so that a few free
  tokens exercise every case group of every production and every default branch
  that can be reached. Eight cannot: those of `subprogram_declaration`,
  `arguments`, `optional_statements`, `statement_list`, `var` and `sign`, which
  are only called after the same token was peeked at, and those of `expr_` and
  `simple_expr_` (`OperandsResume`).
- `Machines`: the alphabet has one or two characters of every class the automata
  tell apart, and limits of 1 and 2 put every length at, below and above its limit within
  6 characters. The theorems of section 5 have no bound.
- `Tokenizer`: 4 characters fill a line, so that a line is cut in the middle of an
  identifier; the longer files have a blank line, a lone carriage return, an error before and
  after a line break, and no newline or one at the end. What calls are made is not bounded.
- `Typing`: one symbol of each kind of type that a rule tells apart (an array, a function
  with two parameters, one with a parameter that is ERR, a symbol that is ERR), and an undefined
  name. Four operands are enough for a
  call with a wrong argument inside an operator, and for an operator around one that failed.
- `Listing`: with ints up to 127 a scope of three variables overflows, an array has more bytes than an int
  counts, and a bound more than an int holds.
- A deadlock check makes no sense here: every model stops when its entries, or its
  source, run out.

### Fairness

`ParserSpec` has weak fairness of the whole next-state relation. The parser is
one sequential C program without locks or blocking calls: while it can take a
step it takes one. Reading from the source never blocks and at its end yields
`TOKEN_EOF` for ever. For the same reason `FairMSpec`, `MainSpec` and `FairTSpec` have weak
fairness of the steps of the program; in `FairTSpec` only of those inside a call
(`Continue`): that a call is made is up to the caller. No other fairness is assumed, and
the safety runs need none.

## 4. What is abstracted

- *Text.* The wording of messages and listings. The parser sees a token as its `TokenType`; lexical
  errors do not reach it (`get_next_token` skips them), so its source has none. In
  `Frontend` the name of an identifier is chosen freely at each call.
- *Characters* are taken as compared in C: one class for all characters that no
  automaton knows, and `EOFC` for whatever byte compares equal to `EOF`. A NUL byte in a source, which ends the string
  that the rest of the line is in, is not among them. A lexeme's
  value matters only as an array bound (`Bound` in `Listing`).
- *Uninitialised memory.* The line buffer of a failed `fgets` holds any line of `Junk`,
  `ParserData.result` any int of `Fresh`, `sym_turn` starts with either value.
  `sscanf` of a literal that does not fit wraps, one of the outcomes C allows.
- *Attributes and syntax errors.* `Typing` has no syntax errors and `Parser`
  no types; what recovery leaves in the attributes (the default type `NONE`) is not
  modelled. `Compiler` lets `semerr` be called at any step of the parser instead.
- *SEMERR* in `SymbolTable` is the bit of the table's own errors.
- *The stray expected element.* `parse_statement_` and `parse_simple_expr_` pass
  a length one above the number of tokens they list (`src/parser.c:770,1100`); what
  is printed for it is undefined and left out. The second is never reached
  (`OperandsResume`).
- *Memory.* Allocation never fails, nothing is freed.

## 5. Proofs

`SymbolTableProofs.tla` proves, for every set of names, types and counts, every
bound on the number of entries and every order of calls:

- `TableIsSound`: `Spec => []TableInvariant`
- `TypeCorrect`, `TableIsWellLinked` (`[]WellLinked`), `EyeStaysLast`: its parts
- `LinksAreNeverOverwritten`: `Spec => LinksAreWrittenOnce`

Assumptions: `MaxEntries` is a natural number, `VarType` a set of strings, `Count` a set
of naturals. Nothing else.

`WellLinked` alone is not inductive: writing `next` of the eye would break it
if the eye had a `next`. That it has none depends on where exits move the eye,
so the invariant needs `EyeIsLast`: there is a set of entries closed under
`parent`, holding the eye, each member last in its scope, and the eye is the
largest of them. Each action gives the witness: insertion adds the new entry
after removing the sibling it follows; exit keeps those up to the new eye. An
exit can also go through `temp`, hence `TempIsParent`. Insertion below needs that no
child is there yet, which is `TurnIsFresh`: the turn is set only by
`check_enter_method`, on a new entry. `Ordered` (links respect the order of
allocation) separates new entries from those already linked.

The proof never unfolds `get_symbol`: its answer only decides whether an error
is reported. One lemma, `NewEntryKeepsTable`, serves the three actions
that insert; `NextKeepsTable` has one step per action.

The first part of `TableProofs.tla` proves of the calls that a syntactically correct program makes,
with the constants of `SymbolTable` and for any depth of nesting:

- `DeclarationsAreSound`: `DeclSpec => []DeclInvariant`; `DeclarationsAreTyped`
- `LookupFindsInnermost`: `DeclSpec => []LookupIsInnermost`
- `NoSilentRedeclaration`: `DeclSpec => []SiblingsAreDistinct`
- `SignaturesAgree`: `DeclSpec => []SignatureAgrees`
- `ScopesAreImplemented`: `DeclSpec => ImplementsScopes`, the refinement of `ScopeStack`

`DeclInvariant` adds to `TableInvariant` what the order of calls gives: at which `pc` the turn is
open, where the eye is relative to the owner of the current scope (on it, on its last entry, or on a
method without entries that was left once and remembers its way out in `temp`), which entry a head
that is being read belongs to, and that the parameters of a method are the entries behind it.
The definitions the model takes from loops of the code (`EndOfScope`, `SearchFrom`, `PathTo`) are recursive
functions on entries. A recursive function is a `CHOOSE`, so nothing is known of it before it is
shown that a function with that equation exists; `RecursionExists` shows it for every recursion that
goes down a measure, by taking the least entry for which an approximation is missing. With `Ordered` each
of the loops is one, and unfolds one step at a time. `LookupIsInnermost` then follows by the same
argument about a least entry (the walk visits the entries of a scope from the last to the first, which is
`ScopesAreChains`, and then those of the scope around it), and every step of the refinement by showing
what it does to the path from the root to the owner. In `ScopesAreImplemented` each action
of `Declarations` is shown to be the action of `ScopeStack` it is named for, or a stutter.

The second part of `TableProofs.tla` proves, for every order of calls of `symbol_table.c`, every set of declared types (`Declared`
gives each a declaration) and every `INT_MAX`:

- `ListingIsInOrder`: `ListSpec => [](TableInvariant /\ ListInvariant)`
- `ListingIsTheOutline`: `ListSpec => []ListingIsOutline`
- `StorageNeverOverlaps`: `ListSpec => []StorageIsDisjoint`

By `FrontendImplementsTable` the tables that the parser builds are among these, recovery included.

Nothing in `TableInvariant` says that the walk, which goes down `child` and then along `next`, meets the entries
in the order of their allocation. `SourceOrder` does: the entries between one and its next sibling are inside it
(`NextIsBehind`), those between a method and any entry inside are inside (`ScopesAreIntervals`), and a tree
begun while the eye was NULL is never linked with an earlier one (`TreesAreApart`). That a new sibling keeps
this needs that what was entered after the eye is inside it, and the same of the methods around
it: `EyeIsLatest`, again with a witness in each action. Hence line k is that of entry k, and
`LinesFollow` can give its level and offset by those of its method and of its sibling before it; `WalksFollow` says
where the activations are: all but the innermost inside an entry that is listed, the innermost at
entry `Len(lines) + 1` or at the end of its scope, when that entry is outside of it. When the walk ends early
the entry it did not come to begins a tree of its own (`NewTreeIsApart`).

`Outermost` and `LevelOf` are recursive functions, unfolded like those of `Declarations`. For `StorageIsDisjoint` so is the sum
`Needed`; `OffsetIsSum` shows, by the least line for which it fails, that the offset of a line is the sum
over the variables before it in its scope. The methods in between add nothing, and while the sum fits,
`int` changes nothing (`IntWraps`, `SizeIsExtent`).

`ParserProofs.tla` proves, for every set of beginnings, every alphabet and
every bound on the source, so for every source of tokens:

- `ParserIsSound`: `ParserSpec => []ParserInvariant`
- `ParserTypeCorrect` and `EndIsHonest`: its parts
- `RecursionIsBounded`: `ParserSpec => []RecursionConsumes`
- `NoReportIsFalse`: `ParserSpec => []NoFalseAlarm`
- `OperandsAlwaysResume`: `ParserSpec => []OperandsResume`

What is used of the tables is `RulesAssumption` (they
are tables of steps), `RankAssumption` (there is a rank of the productions by
which no production is left recursive, and a case group that calls first is
labelled only with tokens for which its callee has a case group that is not empty), and the
facts in `GrammarFacts`. All are statements about constants, and TLC evaluates the first two on
every run of `Parser` or `Frontend` and the last on the run `Compiler`, so nothing of them is taken on trust.

`RecursionConsumes` alone is not inductive: a call may be made before anything
was consumed, and then only the rank separates it from the calls around it. The
invariant says so (`RankFalls`), but a call of lower rank is only known to be one
if the caller is still at its first step, and that has to survive what happens
below it: a callee could return, or recover and return, without having consumed
a token, and the caller would go on to its second step. `OnlyLeadingCalls` excludes
it: such a caller is at the leading call of a case group labelled with the next token, so
that the callee neither runs an empty case group nor its default branch, and a
`match` that comes first fits and consumes the token. With a `match` that only peeks
at a comma (a mutant), recovery in an argument stops at that comma and
`expr_list_` calls itself again and again. `EndsHonestly` needs `RecoveryIsReported`: `synch` is entered only after `synerr`.

The two other properties need to know where in its body each call waits: `PlacesInBodies` says
that what a frame has left to do is the rest of the body of one of its case groups, behind
the call it waits for. For `OperandsResume` that place tells which operand stands before an operator
production, and what is next when an operand ends is in its `synch` set, by either way of ending
(`OperandsAssumption`); the caller's labels contain that set (`OperatorsAssumption`).
For `NoFalseAlarm`, `FollowAssumption` gives a set of tokens that can follow each production:
whatever begins the rest of a body is in the set of the production before it, the set of a production
is in that of the last one of its body, and an empty production has labels for its set. If the next
token could go on with what the calls on the stack have left, then either it begins the
production that is about to report it, or that one can be empty; then the next token follows it, which
is shown going outwards over the stack to the largest frame that is not exhausted (`LargestExists`),
and in both cases it is one of the labels. Nothing in the argument asks whether
an error was reported before, which is why the property holds after recovery as well.

`FrontendProofs.tla` proves for the two together, with the constants of both:

- `FrontendImplementsTable`: `FrontSpec => Spec`, every behaviour of parser and table is
  a behaviour of `SymbolTable`
- `FrontendKeepsTable` and `FrontendLosesNoEntry`: so what is proved of the table
  holds of it under this caller, recovery included
- `FrontendRecursionIsBounded`: `FrontSpec => []RecursionConsumes`
- `HeadsAreLatest`: `FrontSpec => []HeadIsLatest`
- `EyeIsNeverNullWhenUsed`: `FrontSpec => []EyeIsSetWhenUsed`
- `SignaturesAreOwn`: `FrontSpec => []SignatureGoesToOwnMethod`
- `ParametersAlwaysComeFirst`: `FrontSpec => []ParametersComeFirst`

The table's actions take arguments from sets (`Name`, `VarType`, `Count`); the
one argument that the parser computes is the count of parameters. It has to be a member
of `Count`, which `ParametersAssumption` says of every number up to `MaxEntries`, and
stays below `MaxEntries` because it never exceeds the number of entries: that is
`CountFollowsEntries`.

None of the last three is inductive: that the eye is not NULL, or that `MethodInView` is the right
method, depends on nothing having moved the eye since the method was entered, and a recovery that left the
head and came back into it, or a head inside a head, would do so. `FrontInvariant` therefore joins
`ParserInvariant` and `TableInvariant` with `HeadIsLatest`, and the first half of the module shows what it
stands on, about the parser alone: all that is called from a head is part of it (`OnlyPartsInside`), so that
there is at most one on the stack; what is left of its body says which of its calls were
made (`HeadsAreCounted`); steps that call nothing neither enter nor leave it, since recovery
drops a frame's whole rest (`EnteredKept`); and each function of `symbol_table.c` is called
either inside an entered head or outside of any (`TableCallsInOrder`). Of the tables this uses the
body of the head and who calls what (`HeadAssumption`). `check_exit_method` and
`check_add_var` are among the calls outside, which is why exits that have no enter (finding 2)
do no harm to signatures.

Its second part proves of a source up to its first syntax error, with the same constants:

- `FrontendIsInOrder`: `FrontSpec => []FrontOrder`; `CallsComeInOrder` is its main part
- `ParserKeepsDiscipline`: `FrontSpec => KeepsDiscipline`, the refinement of `Declarations`
- `CorrectProgramsAreDeclarations`: `FrontSpec /\ []~syntax => Discipline!DeclSpec`
- `MethodsAreLeft`: `FrontSpec => []EveryMethodIsLeft`

`Declarations` has a variable for where the parser is and looks only at the table; the parser
has a stack. What relates them is how many scopes are open. A declaration on the stack *owes* its
exit when its `check_enter_method` was made and its `check_exit_method` is ahead, and `DepthFollows` says that
the scopes around the eye (`Depth`) are as many as the declarations that owe one (`Owing`). This is the statement
that fails with finding 2, and the reason why each step is asked for `~syntax'`. It is not inductive
alone, since an exit looks at the table and not at the stack:

- `OneProgram` and `LeftOnce`: when the turn is open, which methods were left once, that the eye is in
  the one tree; so that an exit moves the owner of the scope to the one around it, whether
  it goes over `parent`, over `temp` or is the NOP. This needs that the method left is not
  the program itself with nothing in it, hence
- `NamesFirst`: the parameters of the program are still ahead, or the table has one;
  until then everything in the table is a name of the program, which is how `Phase` knows "ids";
- `VariablesFirst`: as long as a call on the stack can come to variables (`MayDeclare`), there is no function in the
  current scope, which is what `AddVar` of `Declarations` asks for;
- `FunctionsStay`: inside a function there is one in the table, and its type is not that of
  a name of the program. `DeclaredTypesAssumption` says that declared types are not, which holds of
  `parse_type` and `parse_std_type`.

The first sections of that part are about the stack alone: what is left of the body of a call
tells which of its calls were made (`ProgramRest`, `SubprogramRest`, from the bodies in
`ScopeAssumption`); each kind of step that calls nothing in `symbol_table.c` leaves `Owing` as it is, declares no more
than before and keeps the names ahead (`ParserKeepsScopes`); `check_enter_method` adds
one member to `Owing`, `check_exit_method` takes one, the others none (`EnterFunctionOwes`,
`ExitOwes`, `OtherOwes`). The next ones are about the table alone: what each call does
to the owner and to the depth (`EnterMoves` to `UpdateMoves`, `DepthEnters` to `DepthLeaves`).
Each call then has one lemma that joins the two (`EnterProgramInOrder` to `UpdateInOrder`).
With the invariant, `PhaseHolds` says that the phases exclude each other, and `TableKeepsDiscipline` that each
call is the action of `Declarations` it stands for; those are shown to be the same as the actions of
`SymbolTable` by expanding both, since the theorems of a module cannot be cited for an instance of it. With `CorrectProgramsAreDeclarations`,
what `TableProofs` proves of every behaviour of `DeclSpec` is true of this parser on a program
without syntax errors.

Its last part is about `HandUp`, on the same assumptions:

- `CountsAreHandedUp`: `HandSpec => []CountIsHandedUp`
- `AttributesImplementFrontend`: `HandSpec => ImplementsFrontend`

The invariant speaks of all calls on the stack, since a count is right only because the ones below it are still
0: `TakesOverOnce` says that a call that has a counting call ahead has none of its own yet, so that taking
over loses nothing, and `AllAreCounted` that the innermost counting call has all of them. Which calls these
are, that the next list comes right behind the entry of a parameter, and that no body has two counting calls is
`PartsAssumption`, a fact about the tables in `GrammarFacts`. With the invariant, the number passed is
`c`, and every step is one of `Frontend`; so all that is proved of `FrontSpec` is true of the parser with its attributes.

`MachinesProofs.tla` proves, for every line, every alphabet with the classes apart
and `"E"` no digit (`ClassAssumption`), every function of reserved words and all limits above 0:

- `MachinesAreSound`: `MSpec => []MachineInvariant`
- `MachinesTypeCorrect`, `NoReadLeavesTheLine`, `MarksAreSetInTime`, `LexemesTileTheLine`
- `LexemesAreLongest`: `MSpec => []LongestLexeme`

`ReadsStayOnLine` is not inductive: a state that looks at `*f` is safe because of the state
before it, which went on only over a character that is not NUL. `Position` says for
each state where it is (for instance that the last state of a real is at most two behind the period, so
that backing up ends on the line), and why `catchall` may look again. With the types, the marks
and the tiles it is `PlaceInvariant`, which is inductive by itself.

`LongestLexeme` compares the lexeme with the definitions of the languages in `Lexemes.tla`,
which say nothing of automata. `Munches` adds what makes this inductive: `Seen`, what a state
says of the characters it has read (in state 6 of a long real: those from `in` to `f` are one);
`Refuted`, what is known of the word once a machine has failed (after `real`: no real begins
here); and `Tried`, that the machines earlier in the order have all been refuted. The proof has
three parts. `WordAt` to `LexemeKinds` turn each language, which `Lexemes.tla` states of a sequence, into a
statement about places of the line. `BlankFound` to `NothingFound` say, for each kind, when a lexeme from
`in` to `f` is the longest: the first character leaves one kind or the three numbers
(`FirstDecides`), a real and a long real have one place for their period and their `E`
(`WholeIsUnique`, `FractionIsUnique`), and the numbers are decided by what was refuted. Then one lemma for each machine
shows that its steps keep `Munches` and that what it accepts is what those lemmas ask for.

`TokenizerProofs.tla` proves, for every file, line length above 2, buffer, alphabet and limits, and
every sequence of calls:

- `TokensAreTheStream`: `TSpec => ImplementsStream`, the refinement of `TokenStream`
- `TokensStandWhereTheySay`: `TSpec => []TokenIsWhereItSays`
- `NoErrorTwice`: `TSpec => []ErrorsAreDealtWithOnce`
- `ReadsAndRemembers`: `TSpec => []TokenizerInvariant`, the invariant under all of them
- `TokenizerTypeCorrect`: `TSpec => []TTypeOK`

That errors are ordered is not inductive: an error is new only if the place it is met at
is behind none that was dealt with. `ErrorInvariant` says that all of them lie before
`<<row, f>>` and that this place only grows: a lexeme is not empty (`LexemeAdvances`), a read goes
forward unless it is at the end (`ReadAdvances`), and the number given to the line that
stands for the end of the file, which is read again and again, is one that no line with an
error has. For that the rows must be bounded by the length of the file, and
the line `EofLine` must hold no error (`EofIsNoError`).

For the stream, `ReadsInOrder` says that the line in hand is the one of its number in `AllLines`, that `f` is
one of its `Starts`, and what `i` counts; `RemembersLast`, that the token kept for the next call is
the one used up last. Since `Begins` and `Starts` are least sets, they are followed step by step without any
recursion: a step from a member leads to the next larger member (`StepsReach`, `ReadsFollow`, `LexemesFollow`). So a line that was read has
the next number, a lexeme that is skipped leaves no place of a token behind, and one that is
returned leaves exactly one more; the number of places behind is then the index of the token that
was returned (the k-th place has k places up to it), and `Peek`, `Take` or a stutter of `TokenStream`
follows. Of the lexemes only their ends and types are used. Nothing is assumed of the calls.

`TokenIsWhereItSays` then no longer depends on the state: by the refinement what was returned is a member of
`stream`, and a source with lines that fit has one read per line of
an editor (the reads begin at the start and behind each newline, the last of all too), no byte that looks like the end of the file, and
so in each token the number of its line. The line of a read that finds nothing is the one
behind a newline at the end (`LineShown`).

`TypingProofs.tla` proves, for every set of symbols and undefined names and statements of any length
(`MaxTokens` is any number):

- `StatementsAreJudged`: `TypeSpec => []TypingInvariant`
- `SilenceIsWellTyped`: `TypeSpec => []SilentMeansWellTyped`
- `WellTypedIsNotReported`: `TypeSpec => []WellTypedIsSilent`
- `MistakesAreReportedOnce`: `TypeSpec => []NoCascade`

It is assumed of the symbols that the type of a parameter is no function type (`SymbolsAssumption`): `parse_type`
never sets `fun`.

None of the three properties is inductive, and none follows without the other two: each speaks of the end, and
an operator in the middle sees only a type. `TypingInvariant` says of every expression with a type, of the one parsed now
and of those that wait, by the number n of reports made in it (`Judged`): if n is 0, the type is right or an
`ERR` (`Silent`); if it is well typed, n is 0 and the type is right (`Exact`); and its mistakes, with one for each operator
that spoils (`Due`), pay for its reports, where a
mistake that has left no `ERR` behind still has one to pay for (`Paid`). The last is what makes `NoCascade`
provable: an operator may report again only if an operand without a type did not pass an `ERR`, and then that
one has a report less than are due. For that the judgement says when an `ERR` must have been
passed: whenever the expression has no type and is not `open`. Whether a name is a function is the other thing a rule sees:
`types_equal` compares `fun`, so the types of a judgement keep it, and `Judged` says that the type the code has agrees
in it.

Of each rule `RightRule` is shown, a statement about types alone that `BinaryJudged` turns into one about judgements;
a call is followed by `Calling`, one argument after the other (`CallBegins`, `ArgumentJudged`, `CallJudged`). The steps of
the parser then differ only in what they push or pop: `BeginsToWait`, `OperandReturns`, `StatementEnds`.
TLC has evaluated `TypingInvariant` with the constants of the run, at `MaxTokens = 3`.

`CompilerProofs.tla` proves, for every source and alphabet:

- `ZeroIsSuccess`: `MainSpec => []ZeroMeansSuccess`
- `StatusIsTrue`: `MainSpec => []StatusSaysWhich`

for every set of ints that the result may hold at first (`FreshAssumption` asks for nothing but ints).

`MainInvariant` joins `ParserInvariant` (an exit from `synch` was reported) with what
each stage of `main` knows of the result: its named bits are those reported and those
it started with, and the others are as they were. `StatusOf` is the arithmetic: the eight bits that the status
keeps contain the three named ones, so that they are read off it whatever the others are; the verdict is
decided by the others, unless they are all 0.

Left to TLC is liveness, which is out of the prover's reach: `Terminates`, `LineEnds`, `CallsReturn`, `ProgramEnds`.
Every other property of a passing run is a theorem.

## 6. Findings

1. `ParserMessage`: `parse_param_list_` continues on a semicolon, but its
   default branch lists `TOKEN_COLON` (`src/parser.c:577`). For `f(a: integer :`
   the message reads: Expecting "COLON" or "RPAREN" but received "COLON".
2. `FrontendExit`: `parse_subprogram_declaration` calls `check_exit_method` even
   when `parse_subprogram_head` failed before `check_enter_method`
   (`src/parser.c:370-372`, `434-437`). The exit leaves the enclosing scope; in a
   program with such a head, globals used later are reported as undefined.
3. `FrontendDuplicate`: the comment at `src/symbol_table.c:167` restricts the
   narrowed local search to "a function after a turn with no children"; the
   condition does not look at the turn. After a childless function was
   left, a variable declared next (which takes a syntax error before it, or a
   caller other than this parser) is compared with nothing. Without syntax errors no
   variable follows a function, and `SiblingsAreDistinct` holds.

Three more are not runs of their own: properties of passing runs hold under a condition, or with an
exception, that says what is broken.

- A byte inside a line that compares equal to `EOF` (0xFF where `char` is signed) is lexed
  as the end of the file (`src/machine.c:478`), and the stream goes on behind it.
  `tests/check_token.c:97` expects only the end of the file after the end of the file:
  with such a byte the stream of `ImplementsStream` has a `TOKEN_EOF` before its end. What follows
  it behind a complete program is never read, and nothing is reported.
- In a file that ends with a newline, `feof` does not hold yet when its last line was read;
  `fgets` fails, its result is not looked at, and the buffer as `malloc` gave it is
  lexed, listed and counted as a line (`src/token.c:21`), although `src/token.c:74` says "do not
  increment line counter for eof". `TokenIsWhereItSays` has this line (`LineShown`).
- `ParserData.result` is never set to `PARSER_RESULT_OK` (`src/pascal.c:16`). With memory that
  is not clear the verdict can contradict what was found, and the status: if `malloc` left 0x100, a
  correct program is "unsuccessful" and its status, cut to eight bits, is 0; if it left a negative number, a
  wrong program is a "Success" with a status that is not 0. `ZeroMeansSuccess` and `StatusSaysWhich` state what
  remains: since bits are only added, those of the reports are in the status in any case, so that a status
  of 0 hides no error.

What the properties of `Typing` exclude is deliberate in none of the comments, but no text
of the repository says otherwise either, so these are remarks, not findings: a sign before an
operand of the wrong type and a wrong operand of OR can be reported twice (`src/parser.c:1040`,
`1080`; `NoCascade` allows one report more for each, and no other), the ERR of a call with too few arguments is lost (`src/parser.c:932`), two
function names without arguments are accepted as operands of each other (`src/parser.c:1152`), and anything
that is `ERR` itself is accepted for a parameter that is.

## 7. Not modelled, and plan

Not modelled for good: reading the reserved words from their file (`strtok`, `strtol`, once
at the start; `Reserved` is the table that results), wording of messages and listings,
the conversion of literals that are no array bounds (their values are never used),
the unit tests.

Possible next steps:

1. The types that recovery leaves behind (`NONE` is not `ERR`): `Typing` with syntax
   errors, to say which type errors are reported for a syntax error alone.
2. `Tokenizer` under `Parser` in one module, for the order in which lexical and
   syntax errors are listed.
3. Proofs: of liveness, the part that is about safety. For `Terminates`, `LineEnds` and `CallsReturn` there is a
   measure that every step decreases; that it does is an action property, and provable
   (for the parser most of it is `RecursionIsBounded`).
