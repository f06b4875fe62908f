------------------------------ MODULE Frontend ------------------------------
(***************************************************************************)
(* The parser driving the symbol table, syntax errors and recovery         *)
(* included: every TableCall step of the parser is the call of the         *)
(* function of symbol_table.c that the production names.                   *)
(*                                                                         *)
(* ParserData.result is split in two: its SYNERR bit is the parser's       *)
(* variable syntax, its SEMERR bit is in the table's variable result.  The *)
(* errors found by type checks of expressions are not modelled.            *)
(***************************************************************************)
EXTENDS Parser, SymbolTable, FiniteSets

VARIABLE c   \* the parameters entered under the current head; HandUp.tla shows
             \* that it is the Attributes.c parse_subprogram_head gets

\* A head can have as many parameters as the table has entries.
ASSUME ParametersAssumption == 0 .. MaxEntries \subseteq Count

\* No declared type is one of those that mark the names of the program.
ProgramType == {"PGNAME", "PGPARAM"}
ASSUME DeclaredTypesAssumption == VarType \cap ProgramType = {}

tableVars == <<vars, c>>
allVars   == <<parserVars, tableVars>>

\* The lexeme and the type come from tokens already consumed; a call leaves
\* nothing behind that would tell one identifier from another.
TableFunction(call) ==
  \/ /\ call = "check_enter_method"
     /\ \E n \in Name : check_enter_method(n)
     /\ c' = 0
  \/ /\ call = "check_exit_method"
     /\ check_exit_method
     /\ UNCHANGED c
  \/ /\ call = "check_add_prog_param"
     /\ \E n \in Name : check_add_prog_param(n)
     /\ UNCHANGED c
  \/ /\ call = "check_add_var"
     /\ \E n \in Name, t \in VarType : check_add_var(n, t)
     /\ UNCHANGED c
  \/ /\ call = "check_add_fun_param"
     /\ \E n \in Name, t \in VarType : check_add_fun_param(n, t)
     /\ c' = c + 1
  \/ /\ call = "set_method_type"
     /\ \E t \in VarType : set_method_type(t)
     /\ UNCHANGED c
  \/ /\ call = "set_method_param_count"
     /\ set_method_param_count(c)
     /\ UNCHANGED c

FrontInit == ParserInit /\ Init /\ c = 0

FrontNext ==
  \/ /\ Switch \/ match \/ Call \/ Return \/ synch \/ Finish
     /\ UNCHANGED tableVars
  \/ TableCall /\ TableFunction(Head(Top.todo).arg)

FrontSpec == FrontInit /\ [][FrontNext]_allVars

-----------------------------------------------------------------------------
(* Without syntax errors the parser keeps the discipline of Declarations.  *)

Owner == IF sym_eye = NULL THEN NULL
         ELSE IF sym_turn = 1 THEN sym_eye ELSE parent[sym_eye]

\* A function head is entered, and has the call still to make.
EnteredWith(call) ==
  \E i \in DOMAIN stack : /\ stack[i].prod = "subprogram_head"
                          /\ Sym(call) \in ToSet(stack[i].todo)
                          /\ Sym("check_enter_method") \notin ToSet(stack[i].todo)

HeadIsEntered == EnteredWith("set_method_param_count")

Phase ==
  CASE symbol_table = NULL -> "start"
    [] EnteredWith("set_method_type") -> "head"
    [] HeadIsEntered /\ ~EnteredWith("set_method_type") -> "typed"
    [] ~HeadIsEntered /\ Owner # NULL
       /\ \A e \in Allocated : symbol[e].std_type \in ProgramType -> "ids"
    [] OTHER -> "body"

Discipline == INSTANCE Declarations WITH pc <- Phase

\* As long as there is no syntax error, the calls the parser makes are those
\* Declarations.tla is about, in its order: what is checked there holds of
\* every program that is syntactically correct.
KeepsDiscipline ==
  /\ Discipline!DeclInit
  /\ [][~syntax' => Discipline!DeclNext]_<<vars, Phase, c>>

-----------------------------------------------------------------------------
(* What holds through error recovery.                                      *)

Calling(functions) == NextIs("table") /\ Head(Top.todo).arg \in functions

\* set_method_type, set_method_param_count and check_add_fun_param
\* dereference the eye: whatever exits recovery has made before, a method or
\* parameter was entered since, so the eye is not NULL.
EyeIsSetWhenUsed ==
  Calling({"set_method_type", "set_method_param_count", "check_add_fun_param"})
    => sym_eye # NULL

\* A signature is written to the method whose head is being parsed, and not
\* to one around it; a method entered as if it were the program gets none.
SignatureGoesToOwnMethod ==
  Calling({"set_method_type", "set_method_param_count"}) =>
    \/ MethodInView = size - c
    \/ MethodInView = NULL /\ c = 0 /\ symbol[size].std_type = "PGNAME"

\* "the assumption is made that parameters come immediately after method"
\* (get_param_type): also after recovery, the entries that follow a method
\* are its parameters, as many as its count says once its head is parsed.
ParametersComeFirst ==
  \A m \in Allocated :
    LET inside == {e \in Allocated : parent[e] = m /\ symbol[e].param = 1}
        n      == IF HeadIsEntered /\ m = size - c THEN c ELSE symbol[m].count
    IN  symbol[m].fun = 1 => inside = m + 1 .. m + n

\* While a head is entered the eye is on the last of its parameters, which are
\* all the entries since its method, or on the method; that may be one entered
\* as if it were the program.
HeadIsLatest ==
  HeadIsEntered =>
    /\ c < size /\ sym_eye = size /\ (sym_turn = 1 <=> c = 0)
    /\ \A e \in size - c + 1 .. size :
         parent[e] = size - c /\ symbol[e].param = 1 /\ symbol[e].fun = 0
    /\ symbol[size - c].fun = 0 =>
         parent[size - c] = NULL /\ symbol[size - c].std_type = "PGNAME"

\* Parameters are counted after they were entered.
CountFollowsEntries == c \in 0 .. size

\* The inductive invariant of the two together: that of each, and how the
\* head that is being parsed lies in the table.
FrontInvariant ==
  /\ ParserInvariant /\ TableInvariant
  /\ CountFollowsEntries /\ HeadIsLatest /\ ParametersComeFirst

\* A program without syntax errors leaves every method it entered, and the
\* program itself: no exit is lost to the NOP of check_exit_method.
EveryMethodIsLeft == outcome = "done" /\ ~syntax => Owner = NULL /\ sym_eye # NULL

\* The methods around a scope, the program included.
DepthOf(method) ==
  LET up[e \in Link] == IF e = NULL THEN 0 ELSE 1 + up[parent[e]]
  IN  up[method]

Depth == DepthOf(Owner)

\* The i-th call has this step still to do.
Ahead(i, step) == stack[i].at = "switch" \/ step \in ToSet(stack[i].todo)

\* The i-th call is of a declaration that was entered and is still to be left.
Owes(i) ==
  /\ Ahead(i, Sym("check_exit_method"))
  /\ \/ stack[i].prod = "program" /\ ~Ahead(i, Sym("check_enter_method"))
     \/ /\ stack[i].prod = "subprogram_declaration"
        /\ ~Ahead(i, Sub("subprogram_head"))
        /\ i < Len(stack) /\ stack[i + 1].prod = "subprogram_head"
             => ~Ahead(i + 1, Sym("check_enter_method"))
Owing == {i \in DOMAIN stack : Owes(i)}

\* The i-th call can still come to variables of the current scope.
MayDeclare(i) ==
  \/ stack[i].prod \in {"declarations", "declarations_"}
  \/ stack[i].prod \in {"program_", "subprogram_declaration_"} /\ Ahead(i, Sub("declarations"))
  \/ stack[i].prod = "program" /\ Ahead(i, Sub("program_"))
  \/ /\ stack[i].prod = "subprogram_declaration"
     /\ Ahead(i, Sub("subprogram_declaration_")) /\ Owes(i)

\* Before and among the program's names nothing else is in the table, and
\* behind them there is a parameter of the program.
NamesFirst ==
  /\ stack # <<>> =>
       /\ Ahead(1, Sym("check_enter_method")) => size = 0 /\ c = 0
       /\ Ahead(1, Sub("program_")) => \A e \in Allocated : symbol[e].std_type \in ProgramType
  /\ \/ stack # <<>> /\ Ahead(1, Sub("id_list"))
     \/ \E i \in DOMAIN stack : /\ stack[i].prod = "id_list"
                               /\ Ahead(i, Sym("check_add_prog_param"))
     \/ size > 1

\* The scopes around the eye are those of the declarations being parsed.
DepthFollows == Depth = Cardinality(Owing)

\* As long as variables can come, no function was declared in the scope.
VariablesFirst ==
  (\E i \in DOMAIN stack : MayDeclare(i)) =>
    \A e \in Allocated : parent[e] = Owner => symbol[e].fun = 0

\* Inside a function there is one in the table; it is no name of the program.
FunctionsStay ==
  /\ (\E i \in Owing : stack[i].prod = "subprogram_declaration") =>
       \E e \in Allocated : symbol[e].fun = 1
  /\ \A e \in Allocated : symbol[e].fun = 1 => symbol[e].std_type \notin ProgramType

\* There is one root, the program's name, and the eye is in its tree.
OneProgram ==
  /\ size = 0 => symbol_table = NULL /\ sym_eye = NULL
  /\ size > 0 => symbol_table # NULL /\ sym_eye # NULL /\ symbol[1].fun = 0
  /\ \A e \in Allocated : parent[e] = NULL <=> e = 1

\* After a turn the eye is at a method that was not left yet; a method without
\* entries that it is at otherwise was left once.
LeftOnce ==
  sym_eye # NULL =>
    /\ sym_turn = 1 => (symbol[sym_eye].fun = 1 \/ size = 1) /\ temp[sym_eye] = NULL
    /\ sym_turn = 0 /\ ChildlessMethod(sym_eye) => temp[sym_eye] # NULL

\* Why the discipline is kept: with FrontInvariant this is inductive.
CallsInOrder ==
  ~syntax => /\ NamesFirst /\ DepthFollows /\ VariablesFirst
             /\ FunctionsStay /\ OneProgram /\ LeftOnce

\* How parser and table lie to each other: with the invariants of the two this
\* is inductive, the first part on every source.
FrontOrder == CountFollowsEntries /\ HeadIsLatest /\ CallsInOrder

\* "Cannot exit method before entering." (check_exit_method): every exit is
\* made from the scope that its own declaration entered.
ExitFollowsEnter ==
  Calling({"check_exit_method"}) =>
    Depth = Cardinality({i \in DOMAIN stack : stack[i].prod \in
                                                {"program", "subprogram_declaration"}})

\* "Duplicate variable names." (check_add_var): two entries of one scope have
\* the same name only if an error was reported.  get_symbol narrows a local
\* search "on a function after a turn with no children".
DuplicatesAreReported ==
  \A e, f \in Allocated :
    e < f /\ parent[e] = parent[f] /\ parent[e] # NULL /\ symbol[e].name = symbol[f].name
      => "SEMERR" \in result
=============================================================================
