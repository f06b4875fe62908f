----------------------------- MODULE Declarations -----------------------------
(***************************************************************************)
(* The symbol table under the calls parser.c makes while it reads a        *)
(* program without syntax errors: a program name, at least one program     *)
(* parameter, then in every scope variables before functions, and for      *)
(* every function a head (name, parameters, type, count) and a body.       *)
(*                                                                         *)
(* Semantic errors (duplicate names) are part of such a program: they are  *)
(* reported and the declaration is entered all the same.                   *)
(***************************************************************************)
EXTENDS SymbolTable, Sequences

\* A type that was read is not the default of get_param_type.
ASSUME TypesAssumption == "NONE" \notin VarType

VARIABLES
  pc,    \* where the parser is: "start", "ids", "head", "typed" or "body"
  c      \* the parameters counted so far, Attributes.c of parse_param_list

declVars == <<vars, pc, c>>

\* The method whose scope new entries go to.
Owner == IF sym_eye = NULL THEN NULL
         ELSE IF sym_turn = 1 THEN sym_eye ELSE parent[sym_eye]

Inside(method) == {e \in Allocated : parent[e] = method}

\* The parser is past the program parameters, in a scope that is still open.
InBody == /\ pc \in {"ids", "body"}
          /\ Owner # NULL
          /\ Inside(Owner) # {} \/ pc = "body"

EnterProgram(name) ==
  /\ pc = "start"
  /\ check_enter_method(name)
  /\ pc' = "ids" /\ UNCHANGED c

AddProgParam(name) ==
  /\ pc = "ids"
  /\ check_add_prog_param(name)
  /\ UNCHANGED <<pc, c>>

AddVar(name, type) ==
  /\ InBody
  /\ \A e \in Inside(Owner) : symbol[e].fun = 0
  /\ check_add_var(name, type)
  /\ pc' = "body" /\ UNCHANGED c

EnterFunction(name) ==
  /\ InBody
  /\ check_enter_method(name)
  /\ pc' = "head" /\ c' = 0

\* Mutant: the count goes the wrong way.
AddFunParam_CountsDown(name, type) ==
  /\ pc = "head"
  /\ check_add_fun_param(name, type)
  /\ c' = c - 1 /\ UNCHANGED pc

AddFunParam(name, type) ==
  /\ pc = "head"
  /\ check_add_fun_param(name, type)
  /\ c' = c + 1 /\ UNCHANGED pc

SetMethodType(type) ==
  /\ pc = "head"
  /\ set_method_type(type)
  /\ pc' = "typed" /\ UNCHANGED c

SetMethodParamCount ==
  /\ pc = "typed"
  /\ set_method_param_count(c)
  /\ pc' = "body" /\ UNCHANGED c

Exit ==
  /\ InBody
  /\ check_exit_method
  /\ pc' = "body" /\ UNCHANGED c

DeclInit == Init /\ pc = "start" /\ c = 0

DeclNext ==
  \/ \E n \in Name : EnterProgram(n) \/ AddProgParam(n) \/ EnterFunction(n)
  \/ \E n \in Name, t \in VarType : AddVar(n, t) \/ AddFunParam(n, t)
  \/ \E t \in VarType : SetMethodType(t)
  \/ SetMethodParamCount
  \/ Exit

DeclSpec == DeclInit /\ [][DeclNext]_declVars

-----------------------------------------------------------------------------
(* The refinement: the methods around the current scope, outermost first,  *)
(* each with the entries inside it.                                        *)

\* The methods from outside the program (NULL) down to the given one.
PathTo(method) ==
  LET path[m \in Link] == IF m = NULL THEN <<NULL>> ELSE Append(path[parent[m]], m)
  IN  path[method]

Enclosing == PathTo(Owner)

ScopeOf(method) == {[name |-> symbol[e].name, id |-> e] : e \in Inside(method)}

ScopesAround ==
  IF symbol_table = NULL THEN <<>>
  ELSE [i \in DOMAIN Enclosing |-> ScopeOf(Enclosing[i])]

Abstract == INSTANCE ScopeStack WITH
  scopes <- ScopesAround, declared <- size, duplicate <- ("SEMERR" \in result)

-----------------------------------------------------------------------------
(* Properties.                                                             *)

DeclTypeOK ==
  /\ TypeOK
  /\ pc \in {"start", "ids", "head", "typed", "body"}
  /\ c \in 0 .. size

\* symbol_table.c implements block-structured scopes: the eye, the turns and
\* the NOP on leaving a childless method always put a declaration in the
\* scope the parser is in, and report exactly the duplicates of that scope.
ImplementsScopes == Abstract!Spec

\* A global search (get_symbol with global_scope 1) finds the innermost
\* visible declaration of the name, whatever entry the eye looks at.
LookupIsInnermost == \A n \in Name : get_symbol(n, 1) = Abstract!Lookup(n)

\* No silent redeclaration: two entries of one scope, open or already left,
\* have the same name only if an error was reported.
SiblingsAreDistinct ==
  \A e, f \in Allocated :
    e < f /\ parent[e] = parent[f] /\ symbol[e].name = symbol[f].name
      => "SEMERR" \in result

\* What parse_expr_list is told about a call: once the head of a visible
\* function is read, its n-th parameter has a type exactly for n below its
\* count, even though get_param_type only walks the entries inside it.
SignatureAgrees ==
  \A name \in Name :
    LET m == get_symbol(name, 1)
    IN  m # NULL /\ symbol[m].fun = 1 /\ (pc = "body" \/ m # MethodInView)
          => \A n \in 0 .. MaxEntries :
               (get_param_type(name, n) # "NONE") <=> n < get_num_params(name)

-----------------------------------------------------------------------------
(* The inductive invariant.                                                *)

\* There is one root, the program's name.
OneProgram ==
  /\ size = 0 <=> pc = "start"
  /\ pc # "start" => symbol_table = 1 /\ sym_eye # NULL /\ symbol[1].fun = 0
  /\ pc = "start" => symbol_table = NULL /\ sym_eye = NULL
  /\ \A e \in Allocated : parent[e] = NULL <=> e = 1

\* After a turn the eye is at a method that was not left yet, or at the
\* program.  A method without entries that it is at otherwise has been left
\* once, and temp says where the next exit goes.
LeftOnce ==
  sym_eye # NULL =>
    /\ sym_turn = 1 => symbol[sym_eye].fun = 1 \/ (sym_eye = 1 /\ pc = "ids")
    /\ sym_turn = 1 => temp[sym_eye] = NULL
    /\ sym_turn = 0 /\ ChildlessMethod(sym_eye) => temp[sym_eye] # NULL

\* Among the program parameters the parser is inside the program, and there
\* are no methods.
NoMethodBeforeBody ==
  pc = "ids" => Owner # NULL /\ \A e \in Allocated : symbol[e].fun = 0

\* While a head is read everything since its method is a parameter of it.
HeadIsLatest ==
  pc \in {"head", "typed"} =>
    /\ symbol[size - c].fun = 1 /\ size - c > 1
    /\ sym_eye = size /\ (sym_turn = 1 <=> c = 0)
    /\ Inside(size - c) = size - c + 1 .. size

\* The parameters of a method are the entries right behind it, as many as its
\* count says or, while its head is read, as were counted.
Counted(m) == IF pc \in {"head", "typed"} /\ m = size - c THEN c ELSE symbol[m].count

ParametersFollow ==
  /\ \A m \in Allocated : symbol[m].fun = 1 =>
       {e \in Inside(m) : symbol[e].param = 1} = m + 1 .. m + Counted(m)
  /\ \A e \in Allocated : symbol[e].param = 1 =>
       symbol[e].fun = 0 /\ symbol[e].std_type \in VarType

DeclInvariant ==
  /\ DeclTypeOK /\ TableInvariant /\ OneProgram /\ LeftOnce
  /\ NoMethodBeforeBody /\ HeadIsLatest /\ ParametersFollow /\ SiblingsAreDistinct
=============================================================================
