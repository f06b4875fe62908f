------------------------------- MODULE Grammar -------------------------------
(***************************************************************************)
(* The tables of the recursive descent parser (src/parser.c).  Every       *)
(* function parse_X switches on the next token; Rules["X"] is the set of   *)
(* its case groups, each with its labels ("on") and the calls of its body  *)
(* in order.  A missing label is the default branch: a syntax error.       *)
(*                                                                         *)
(* A step is a match of a token, a call of another production, or a call   *)
(* of symbol_table.c that changes the table.  Type attributes, and the     *)
(* checks on them, are not part of the tables.                             *)
(***************************************************************************)
EXTENDS Integers, Sequences, FiniteSetsExt, TLC

Tok(token) == [op |-> "match", arg |-> token]
Sub(prod)  == [op |-> "parse", arg |-> prod]
Sym(call)  == [op |-> "table", arg |-> call]

On(labels, body) == [on |-> labels, body |-> body]

\* Case groups without a body: the production is empty before these tokens.
Empty(labels) == On(labels, <<>>)

Token ==
  {"ID", "PROGRAM", "VAR", "ARRAY", "OF", "INTEGER", "REAL", "PROCEDURE",
   "FUNCTION", "BEGIN", "END", "IF", "THEN", "ELSE", "WHILE", "DO", "NOT",
   "NUM", "RELOP", "MULOP", "ADDOP", "ASSIGNOP", "SEMICOLON", "COLON",
   "COMMA", "PERIOD", "LPAREN", "RPAREN", "LBRACKET", "RBRACKET", "EOF"}

-----------------------------------------------------------------------------
(* Rules.                                                                  *)

ProgramRules ==
  LET functions == <<Sub("subprogram_declarations"), Sub("compound_statement"), Tok("PERIOD")>>
      body      == <<Sub("compound_statement"), Tok("PERIOD")>>
  IN  "program" :>
        {On({"PROGRAM"},
            <<Tok("PROGRAM"), Tok("ID"), Sym("check_enter_method"), Tok("LPAREN"), Sub("id_list"),
              Tok("RPAREN"), Tok("SEMICOLON"), Sub("program_"), Sym("check_exit_method")>>)}
   @@ "program_" :>
        {On({"VAR"}, <<Sub("declarations"), Sub("program__")>>),
         On({"FUNCTION"}, functions), On({"BEGIN"}, body)}
   @@ "program__" :> {On({"FUNCTION"}, functions), On({"BEGIN"}, body)}

\* Mutant: the program parameters are entered as variables.
IdListRules_AddsVar ==
  "id_list" :> {On({"ID"}, <<Tok("ID"), Sym("check_add_var"), Sub("id_list_")>>)}
  @@ "id_list_" :> {Empty({"COMMA", "RPAREN"})}

IdListRules ==
  "id_list" :> {On({"ID"}, <<Tok("ID"), Sym("check_add_prog_param"), Sub("id_list_")>>)}
  @@ "id_list_" :>
       {On({"COMMA"}, <<Tok("COMMA"), Tok("ID"), Sym("check_add_prog_param"), Sub("id_list_")>>),
        Empty({"RPAREN"})}

DeclarationRules ==
  LET declaration == <<Tok("VAR"), Tok("ID"), Tok("COLON"), Sub("type"), Sym("check_add_var"),
                       Tok("SEMICOLON"), Sub("declarations_")>>
  IN  "declarations"  :> {On({"VAR"}, declaration)}
   @@ "declarations_" :> {On({"VAR"}, declaration), Empty({"FUNCTION", "BEGIN"})}

TypeRules ==
  "type" :>
    {On({"ARRAY"},
        <<Tok("ARRAY"), Tok("LBRACKET"), Tok("NUM"), Tok("PERIOD"), Tok("PERIOD"), Tok("NUM"),
          Tok("RBRACKET"), Tok("OF"), Sub("std_type")>>),
     On({"INTEGER", "REAL"}, <<Sub("std_type")>>)}
  @@ "std_type" :> {On({t}, <<Tok(t)>>) : t \in {"INTEGER", "REAL"}}

SubprogramRules ==
  LET functions == On({"FUNCTION"}, <<Sub("subprogram_declarations"), Sub("compound_statement")>>)
      body      == On({"BEGIN"}, <<Sub("compound_statement")>>)
      more      == On({"FUNCTION"}, <<Sub("subprogram_declaration"), Tok("SEMICOLON"),
                                      Sub("subprogram_declarations_")>>)
  IN  "subprogram_declarations"  :> {more}
   @@ "subprogram_declarations_" :> {more, Empty({"BEGIN"})}
   @@ "subprogram_declaration" :>
        {On({"FUNCTION"}, <<Sub("subprogram_head"), Sub("subprogram_declaration_"),
                            Sym("check_exit_method")>>)}
   @@ "subprogram_declaration_" :>
        {On({"VAR"}, <<Sub("declarations"), Sub("subprogram_declaration__")>>), functions, body}
   @@ "subprogram_declaration__" :> {functions, body}

HeadRules ==
  LET result == <<Tok("COLON"), Sub("std_type"), Tok("SEMICOLON")>>
      param  == <<Tok("ID"), Tok("COLON"), Sub("type"), Sym("check_add_fun_param"), Sub("param_list_")>>
  IN  "subprogram_head" :>
        {On({"FUNCTION"},
            <<Tok("FUNCTION"), Tok("ID"), Sym("check_enter_method"), Sub("subprogram_head_"),
              Sym("set_method_type"), Sym("set_method_param_count")>>)}
   @@ "subprogram_head_" :>
        {On({"LPAREN"}, <<Sub("arguments")>> \o result), On({"COLON"}, result)}
   @@ "arguments"   :> {On({"LPAREN"}, <<Tok("LPAREN"), Sub("param_list"), Tok("RPAREN")>>)}
   @@ "param_list"  :> {On({"ID"}, param)}
   @@ "param_list_" :> {On({"SEMICOLON"}, <<Tok("SEMICOLON")>> \o param), Empty({"RPAREN"})}

StartsStatement == {"ID", "BEGIN", "IF", "WHILE"}

CompoundRules ==
  "compound_statement"  :> {On({"BEGIN"}, <<Tok("BEGIN"), Sub("compound_statement_")>>)}
  @@ "compound_statement_" :>
       {On(StartsStatement, <<Sub("optional_statements"), Tok("END")>>), On({"END"}, <<Tok("END")>>)}
  @@ "optional_statements" :> {On(StartsStatement, <<Sub("statement_list")>>)}
  @@ "statement_list"  :> {On(StartsStatement, <<Sub("statement"), Sub("statement_list_")>>)}
  @@ "statement_list_" :>
       {On({"SEMICOLON"}, <<Tok("SEMICOLON"), Sub("statement"), Sub("statement_list_")>>),
        Empty({"END"})}

StatementRules ==
  "statement" :>
    {On({"ID"}, <<Sub("var"), Tok("ASSIGNOP"), Sub("expr")>>),
     On({"BEGIN"}, <<Sub("compound_statement")>>),
     On({"IF"}, <<Tok("IF"), Sub("expr"), Tok("THEN"), Sub("statement"), Sub("statement_")>>),
     On({"WHILE"}, <<Tok("WHILE"), Sub("expr"), Tok("DO"), Sub("statement")>>)}
  @@ "statement_" :> {On({"ELSE"}, <<Tok("ELSE"), Sub("statement")>>), Empty({"SEMICOLON", "END"})}

Subscript == On({"LBRACKET"}, <<Tok("LBRACKET"), Sub("expr"), Tok("RBRACKET")>>)

VarRules ==
  "var" :> {On({"ID"}, <<Tok("ID"), Sub("var_")>>)}
  @@ "var_" :> {Subscript, Empty({"ASSIGNOP"})}

StartsTerm == {"ID", "NUM", "LPAREN", "NOT"}
StartsExpr == StartsTerm \cup {"ADDOP"}

\* Mutant: no argument can follow an argument.
EndsExpr_NoComma == {"SEMICOLON", "END", "ELSE", "THEN", "DO", "RBRACKET", "RPAREN"}

EndsExpr == {"SEMICOLON", "END", "ELSE", "THEN", "DO", "RBRACKET", "COMMA", "RPAREN"}

ExprListRules ==
  "expr_list" :> {On(StartsExpr, <<Sub("expr"), Sub("expr_list_")>>)}
  @@ "expr_list_" :> {On({"COMMA"}, <<Tok("COMMA"), Sub("expr"), Sub("expr_list_")>>),
                      Empty({"RPAREN"})}

ExprRules ==
  "expr" :> {On(StartsExpr, <<Sub("simple_expr"), Sub("expr_")>>)}
  @@ "expr_" :> {On({"RELOP"}, <<Tok("RELOP"), Sub("simple_expr")>>), Empty(EndsExpr)}

\* Mutant: a relational operator cannot follow an operand.
SimpleExprRules_NoRelop ==
  "simple_expr" :> {On(StartsTerm, <<Sub("term"), Sub("simple_expr_")>>),
                    On({"ADDOP"}, <<Sub("sign"), Sub("term"), Sub("simple_expr_")>>)}
  @@ "simple_expr_" :> {On({"ADDOP"}, <<Tok("ADDOP"), Sub("term"), Sub("simple_expr_")>>),
                        Empty(EndsExpr)}
  @@ "sign" :> {On({"ADDOP"}, <<Tok("ADDOP")>>)}

SimpleExprRules ==
  "simple_expr" :> {On(StartsTerm, <<Sub("term"), Sub("simple_expr_")>>),
                    On({"ADDOP"}, <<Sub("sign"), Sub("term"), Sub("simple_expr_")>>)}
  @@ "simple_expr_" :> {On({"ADDOP"}, <<Tok("ADDOP"), Sub("term"), Sub("simple_expr_")>>),
                        Empty(EndsExpr \cup {"RELOP"})}
  @@ "sign" :> {On({"ADDOP"}, <<Tok("ADDOP")>>)}

TermRules ==
  "term" :> {On(StartsTerm, <<Sub("factor"), Sub("term_")>>)}
  @@ "term_" :> {On({"MULOP"}, <<Tok("MULOP"), Sub("factor"), Sub("term_")>>),
                 Empty(EndsExpr \cup {"RELOP", "ADDOP"})}

FactorRules ==
  "factor" :>
    {On({"ID"}, <<Tok("ID"), Sub("factor_")>>),
     On({"NUM"}, <<Tok("NUM")>>),
     On({"LPAREN"}, <<Tok("LPAREN"), Sub("expr"), Tok("RPAREN")>>),
     On({"NOT"}, <<Tok("NOT"), Sub("factor")>>)}
  @@ "factor_" :>
       {On({"LPAREN"}, <<Tok("LPAREN"), Sub("expr_list"), Tok("RPAREN")>>), Subscript,
        Empty(EndsExpr \cup {"RELOP", "ADDOP", "MULOP"})}

Rules == ProgramRules @@ IdListRules @@ DeclarationRules @@ TypeRules
         @@ SubprogramRules @@ HeadRules @@ CompoundRules @@ StatementRules
         @@ VarRules @@ ExprListRules @@ ExprRules @@ SimpleExprRules
         @@ TermRules @@ FactorRules

Production == DOMAIN Rules
Labels(prod) == UNION {alternative.on : alternative \in Rules[prod]}

Step == [op : {"match"}, arg : Token \ {"EOF"}] \cup [op : {"parse"}, arg : Production]
        \cup [op : {"table"}, arg : STRING]

\* The tables are tables of steps; the end of the source is matched by parse.
ASSUME RulesAssumption ==
  /\ "program" \in Production
  /\ \A prod \in Production : \A a \in Rules[prod] :
       a.on \subseteq Token /\ a.body \in Seq(Step)

-----------------------------------------------------------------------------
(* Error recovery.                                                         *)

\* The tokens the default branch lists as expected: the labels, except in
\* two productions.  statement_ and simple_expr_ pass a length that is one
\* more than they list; what the stray element prints as is not modelled.
Expected(prod) ==
  CASE prod = "param_list_"  -> {"COLON", "RPAREN"}
    [] prod = "simple_expr_" -> Labels(prod) \ {"ADDOP"}
    [] OTHER -> Labels(prod)

\* The tokens synch stops at, besides TOKEN_EOF, which ends the program.
SynchSet(prod) ==
  CASE prod \in {"program", "program_", "program__"} -> {}
    [] prod \in {"id_list", "id_list_", "param_list", "param_list_",
                 "expr_list", "expr_list_"} -> {"RPAREN"}
    [] prod \in {"declarations", "declarations_"} -> {"BEGIN", "SEMICOLON", "PROCEDURE"}
    [] prod \in {"type", "std_type"} -> {"SEMICOLON", "RPAREN"}
    [] prod \in {"subprogram_declarations", "subprogram_declarations_"} ->
         {"BEGIN", "SEMICOLON"}
    [] prod \in {"subprogram_declaration", "subprogram_declaration_",
                 "subprogram_declaration__", "arguments"} -> {"SEMICOLON"}
    [] prod \in {"compound_statement", "compound_statement_"} ->
         {"PERIOD", "END", "ELSE", "SEMICOLON"}
    [] prod \in {"subprogram_head", "subprogram_head_"} ->
         {"BEGIN", "VAR", "SEMICOLON", "PROCEDURE"}
    [] prod \in {"optional_statements", "statement_list", "statement_list_"} -> {"END"}
    [] prod \in {"statement", "statement_"} -> {"END", "ELSE", "SEMICOLON"}
    [] prod \in {"var", "var_"} -> {"ASSIGNOP"}
    [] prod \in {"expr", "expr_"} -> EndsExpr
    [] prod \in {"simple_expr", "simple_expr_"} -> EndsExpr \cup {"RELOP"}
    [] prod \in {"term", "term_"} -> EndsExpr \cup {"RELOP", "ADDOP"}
    [] prod \in {"factor", "factor_"} -> EndsExpr \cup {"RELOP", "ADDOP", "MULOP"}
    [] prod = "sign" -> StartsTerm

\* The productions that make up an expression around its operators.
Operand == {"simple_expr", "simple_expr_", "term", "term_"}

-----------------------------------------------------------------------------
(* What the bodies alone say about the language: which productions can be  *)
(* empty, and which tokens can come first.                                 *)

\* The productions with an empty case group; no other one can be empty.
Nullable == {prod \in Production : \E a \in Rules[prod] : a.body = <<>>}

CanBeEmpty(steps) ==
  \A i \in DOMAIN steps :
    \/ steps[i].op = "table"
    \/ steps[i].op = "parse" /\ steps[i].arg \in Nullable

ASSUME NullableAssumption ==
  \A prod \in Production \ Nullable : \A a \in Rules[prod] : ~CanBeEmpty(a.body)

\* The tokens a sequence of steps can begin with, given those of productions.
FirstOf(steps, first) ==
  LET reached == {i \in DOMAIN steps : CanBeEmpty(SubSeq(steps, 1, i - 1))}
  IN  UNION {CASE steps[i].op = "match" -> {steps[i].arg}
               [] steps[i].op = "parse" -> first[steps[i].arg]
               [] OTHER -> {} : i \in reached}

\* The recursion ends because no production can reach itself before it
\* matches a token (RankAssumption).
First ==
  LET first[prod \in Production] == UNION {FirstOf(a.body, first) : a \in Rules[prod]}
  IN  first

\* The productions that a production calls before anything else.
LeadingCalls(prod) ==
  {Head(a.body).arg : a \in {b \in Rules[prod] : b.body # <<>> /\ Head(b.body).op = "parse"}}

\* The longest chain of leading calls that begins with a production.
Rank ==
  LET rank[prod \in Production] == Max({0} \cup {1 + rank[p] : p \in LeadingCalls(prod)})
  IN  rank

\* A case group that is not empty begins by matching its only label, or with
\* a call of a production of lower rank that has a case group, and not an
\* empty one, for each of the labels.
LeadsOn(prod, a) ==
  \/ \E t \in Token : Head(a.body) = Tok(t) /\ a.on = {t}
  \/ \E p \in Production :
       /\ Head(a.body) = Sub(p)
       /\ Rank[p] < Rank[prod]
       /\ a.on \subseteq Labels(p)
       /\ \A b \in Rules[p] : b.body = <<>> => a.on \cap b.on = {}

\* No production is left recursive.
ASSUME RankAssumption ==
  /\ Rank \in [Production -> Nat]
  /\ \A prod \in Production : \A a \in Rules[prod] : a.body # <<>> => LeadsOn(prod, a)
=============================================================================
