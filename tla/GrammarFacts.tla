---------------------------- MODULE GrammarFacts ----------------------------
(***************************************************************************)
(* Facts about the tables of Grammar.tla that the proofs about the parser  *)
(* cite.  Each is a finite check of the tables, which TLC makes.           *)
(***************************************************************************)
EXTENDS Grammar

\* What ends an operand, a case group without a body or another operand, leaves
\* a token of its synch set next.
ASSUME OperandsAssumption ==
  \A prod \in Operand : \A a \in Rules[prod] :
    IF a.body = <<>> THEN a.on \subseteq SynchSet(prod)
    ELSE \E q \in Operand : /\ a.body[Len(a.body)] = Sub(q)
                            /\ SynchSet(q) \subseteq SynchSet(prod)

\* An operator's production is called behind an operand, and has a case group
\* for all that can be next there.
ASSUME OperatorsAssumption ==
  \A prod \in Production : \A a \in Rules[prod] : \A k \in DOMAIN a.body :
    \A p \in {"expr_", "simple_expr_"} : a.body[k] = Sub(p) =>
      k > 1 /\ \E q \in Operand : /\ a.body[k - 1] = Sub(q)
                                  /\ SynchSet(q) \subseteq Labels(p)

\* The tokens that can follow a production in a program without errors.
Follow(prod) ==
  CASE prod \in {"program", "program_", "program__"} -> {"EOF"}
    [] prod \in {"declarations", "declarations_"} -> {"FUNCTION", "BEGIN"}
    [] prod \in {"subprogram_declarations", "subprogram_declarations_"} -> {"BEGIN"}
    [] prod \in {"subprogram_head", "subprogram_head_"} -> {"VAR", "FUNCTION", "BEGIN"}
    [] prod = "arguments" -> {"COLON"}
    [] OTHER -> SynchSet(prod)

\* They are the tokens that the bodies say can follow, and the case groups
\* have labels for all that can begin a production or follow an empty one.
ASSUME FollowAssumption ==
  \A prod \in Production :
    /\ First[prod] \subseteq Labels(prod)
    /\ prod \in Nullable => Follow(prod) \subseteq Labels(prod)
    /\ prod = "program" => "EOF" \in Follow(prod)
    /\ \A a \in Rules[prod] : \A k \in DOMAIN a.body : a.body[k].op = "parse" =>
         LET rest == SubSeq(a.body, k + 1, Len(a.body))
         IN  /\ FirstOf(rest, First) \subseteq Follow(a.body[k].arg)
             /\ CanBeEmpty(rest) => Follow(prod) \subseteq Follow(a.body[k].arg)

-----------------------------------------------------------------------------
(* Function heads, and who calls symbol_table.c.                           *)

HeadBody ==
  <<Tok("FUNCTION"), Tok("ID"), Sym("check_enter_method"), Sub("subprogram_head_"),
    Sym("set_method_type"), Sym("set_method_param_count")>>

\* The productions between a function head and its parameters, and all that a
\* function head is made of.
HeadParts == {"subprogram_head_", "arguments", "param_list", "param_list_"}
InHead    == HeadParts \cup {"type", "std_type"}

\* The functions of symbol_table.c that a production calls.
TableCalls(prod) ==
  CASE prod = "program" -> {"check_enter_method", "check_exit_method"}
    [] prod = "subprogram_head" ->
         {"check_enter_method", "set_method_type", "set_method_param_count"}
    [] prod \in HeadParts -> {"check_add_fun_param"}
    [] prod \in InHead \ HeadParts -> {}
    [] OTHER -> {"check_add_prog_param", "check_add_var", "check_exit_method"}

ASSUME HeadAssumption ==
  /\ \A a \in Rules["subprogram_head"] : a.body = HeadBody
  /\ \A prod \in Production : \A a \in Rules[prod] : \A k \in DOMAIN a.body :
       /\ a.body[k].op = "table" => a.body[k].arg \in TableCalls(prod)
       /\ a.body[k].op = "parse" =>
            /\ prod \in InHead \cup {"subprogram_head"} => a.body[k].arg \in InHead
            /\ a.body[k].arg \in HeadParts => prod \in HeadParts \cup {"subprogram_head"}

\* Of the parts of a head a call makes one, from parse_param_list_ itself only
\* another of its kind, and that right behind the entry of the parameter and
\* as its last step.
ASSUME PartsAssumption ==
  \A prod \in HeadParts \cup {"subprogram_head"} : \A a \in Rules[prod] :
    \A k \in DOMAIN a.body :
      /\ a.body[k] = Sub("param_list_") =>
           k > 1 /\ k = Len(a.body) /\ a.body[k - 1] = Sym("check_add_fun_param")
      /\ a.body[k] = Sym("check_add_fun_param") =>
           k + 1 = Len(a.body) /\ a.body[k + 1] = Sub("param_list_")
      /\ \A p \in HeadParts : a.body[k] = Sub(p) =>
           /\ prod = "param_list_" => p = "param_list_"
           /\ \A q \in HeadParts : \A j \in k + 1 .. Len(a.body) : a.body[j] # Sub(q)

-----------------------------------------------------------------------------
(* The declarations that are scopes, and what comes before what in them.   *)

ProgramBody ==
  <<Tok("PROGRAM"), Tok("ID"), Sym("check_enter_method"), Tok("LPAREN"), Sub("id_list"),
    Tok("RPAREN"), Tok("SEMICOLON"), Sub("program_"), Sym("check_exit_method")>>
SubprogramBody ==
  <<Sub("subprogram_head"), Sub("subprogram_declaration_"), Sym("check_exit_method")>>

\* The productions that call a function of symbol_table.c.
TableCallers(call) ==
  CASE call = "check_enter_method"   -> {"program", "subprogram_head"}
    [] call = "check_add_prog_param" -> {"id_list", "id_list_"}
    [] call = "check_add_var"        -> {"declarations", "declarations_"}
    [] call = "check_exit_method"    -> {"program", "subprogram_declaration"}
    [] OTHER                         -> Production

\* The productions that call a production.
Callers(prod) ==
  CASE prod = "program" -> {}
    [] prod \in {"program_", "id_list"} -> {"program"}
    [] prod = "id_list_" -> {"id_list", "id_list_"}
    [] prod = "declarations" -> {"program_", "subprogram_declaration_"}
    [] prod = "declarations_" -> {"declarations", "declarations_"}
    [] prod \in {"subprogram_head", "subprogram_declaration_"} -> {"subprogram_declaration"}
    [] OTHER -> Production

\* Inside these there are no functions.
Functionless ==
  InHead \cup {"subprogram_head", "id_list", "id_list_", "declarations", "declarations_"}

ASSUME ScopeAssumption ==
  /\ \A a \in Rules["program"] : a.body = ProgramBody
  /\ \A a \in Rules["subprogram_declaration"] : a.body = SubprogramBody
  /\ \A a \in Rules["id_list"] : Sym("check_add_prog_param") \in {a.body[k] : k \in DOMAIN a.body}
  /\ \A prod \in {"program_", "subprogram_declaration_"} : \A a \in Rules[prod] :
       \A k \in DOMAIN a.body : a.body[k] = Sub("declarations") => k = 1
  /\ \A prod \in Production : \A a \in Rules[prod] : \A k \in DOMAIN a.body :
       /\ a.body[k].op = "table" => prod \in TableCallers(a.body[k].arg)
       /\ a.body[k].op = "parse" =>
            /\ prod \in Callers(a.body[k].arg)
            /\ prod \in Functionless => a.body[k].arg \in Functionless
            /\ prod \in {"id_list", "id_list_"} => a.body[k].arg = "id_list_"
=============================================================================
