------------------------------- MODULE Typing -------------------------------
(***************************************************************************)
(* The semantic analysis of a statement: the parsing procedures of         *)
(* src/parser.c from parse_statement down to parse_factor_, called on a    *)
(* statement without syntax errors.  The statement is made up as it is     *)
(* parsed: each action is a choice the grammar allows for the next token,  *)
(* together with the code that runs on it, or a return with the semantic   *)
(* rule that runs after it.                                                *)
(*                                                                         *)
(* The stack holds the procedures that wait for an operand with the        *)
(* attributes they keep; "attr" is the attribute that is being passed.     *)
(* Beside it goes "expr", what TypingReference says of the same part of    *)
(* the statement: the code does not know it, and the properties compare    *)
(* the two.                                                                *)
(***************************************************************************)
EXTENDS TypingReference

CONSTANT MaxTokens  \* bound: names, literals, signs, NOTs and "(" in a statement

ASSUME MaxTokensAssumption == MaxTokens \in Nat

VARIABLES
  pc,       \* the procedure that looks at the next token
  attr,     \* the type being inherited or returned
  stack,    \* the procedures waiting, innermost last
  semerrs,  \* how often semerr was called
  tokens,   \* how many of those were read
  expr      \* auxiliary: the judgement of what attr is the type of

typeVars == <<pc, attr, stack, semerrs, tokens, expr>>

-----------------------------------------------------------------------------
\* A waiting procedure.  Two of its fields are auxiliary: "left" is the judgement
\* of what it has parsed (its name is all the code knows of it, as idptr), and
\* "reports" counts the reports up to then.
Frame(at, in, op, left) ==
  [at |-> at, in |-> in, op |-> op, c |-> 0, wrong |-> FALSE, left |-> left, reports |-> semerrs]

Top    == stack[Len(stack)]
At(p)  == stack # <<>> /\ Top.at = p
Push(frame) == stack' = Append(stack, frame)
Pop    == stack' = SubSeq(stack, 1, Len(stack) - 1)
Replace(frame) == stack' = [stack EXCEPT ![Len(stack)] = frame]

Report(yes) == semerrs' = IF yes THEN semerrs + 1 ELSE semerrs
Apply(rule) == attr' = rule.t /\ Report(rule.semerr)
Read        == tokens < MaxTokens /\ tokens' = tokens + 1

-----------------------------------------------------------------------------
(* Statements begin.                                                       *)

\* parse_var: a name on the left of an assignment.
AssignTo(x) ==
  /\ pc = "statement" /\ pc' = "var_"
  /\ Read /\ Apply(NameRule(get_type(x)))
  /\ expr' = Variable(x)
  /\ UNCHANGED stack

\* parse_var_ at ":=" and at "[".
VarPlain ==
  /\ pc = "var_" /\ pc' = "simple_expr"
  /\ Push(Frame("assign", attr, "", expr))
  /\ UNCHANGED <<attr, semerrs, tokens, expr>>

VarIndexed ==
  /\ pc = "var_" /\ pc' = "simple_expr"
  /\ Push(Frame("var_", attr, "", expr))
  /\ tokens < MaxTokens
  /\ UNCHANGED <<attr, semerrs, tokens, expr>>

\* IF and WHILE.
Condition ==
  /\ pc = "statement" /\ pc' = "simple_expr"
  /\ Push(Frame("condition", TYPE_DEFAULT, "", None))
  /\ UNCHANGED <<attr, semerrs, tokens, expr>>

-----------------------------------------------------------------------------
(* Operands: a sign only where a simple expression starts.                 *)

Operand == pc \in {"simple_expr", "factor"}

Sign ==
  /\ pc = "simple_expr" /\ pc' = "factor"
  /\ Push(Frame("sign", TYPE_DEFAULT, "", None))
  /\ Read /\ UNCHANGED <<attr, semerrs, expr>>

Literal(std) ==
  /\ Operand /\ pc' = "factor end"
  /\ Read /\ attr' = Plain(std)
  /\ expr' = Literally(std)
  /\ UNCHANGED <<stack, semerrs>>

Identifier(x) ==
  /\ Operand /\ pc' = "factor_"
  /\ Read /\ Apply(NameRule(get_type(x)))
  /\ expr' = Named(x)
  /\ UNCHANGED stack

Parenthesis ==
  /\ Operand /\ pc' = "simple_expr"
  /\ Push(Frame("parenthesis", TYPE_DEFAULT, "", None))
  /\ Read /\ UNCHANGED <<attr, semerrs, expr>>

Not ==
  /\ Operand /\ pc' = "factor"
  /\ Push(Frame("not", TYPE_DEFAULT, "", None))
  /\ Read /\ UNCHANGED <<attr, semerrs, expr>>

\* parse_factor_: what may follow a name.
FactorPlain ==
  /\ pc = "factor_" /\ pc' = "factor end"
  /\ UNCHANGED <<attr, stack, semerrs, tokens, expr>>

FactorCall ==
  /\ pc = "factor_" /\ pc' = "simple_expr"
  /\ Push([Frame("call", attr, "", Callee(expr.name)) EXCEPT !.wrong = IsErr(attr)])
  /\ tokens < MaxTokens
  /\ UNCHANGED <<attr, semerrs, tokens, expr>>

FactorIndexed ==
  /\ pc = "factor_" /\ pc' = "simple_expr"
  /\ Push(Frame("index", attr, "", expr))
  /\ tokens < MaxTokens
  /\ UNCHANGED <<attr, semerrs, tokens, expr>>

-----------------------------------------------------------------------------
(* Operators, one production after the other: each binds what was parsed   *)
(* and waits for its right operand, or returns.                            *)

Joined == expr' = Binary(Top.op, Top.left, expr)

\* parse_factor returns: to a NOT, to a multiplication or to parse_term.
NotEnds ==
  /\ pc = "factor end" /\ At("not")
  /\ Apply(NotRule(attr)) /\ Pop
  /\ expr' = Unary("not", expr)
  /\ UNCHANGED <<pc, tokens>>

MulopEnds ==
  /\ pc = "factor end" /\ At("mulop") /\ pc' = "term_"
  /\ Apply(MulopRule(Top.in, attr, Top.op)) /\ Pop
  /\ Joined
  /\ UNCHANGED tokens

FactorEnds ==
  /\ pc = "factor end" /\ ~At("not") /\ ~At("mulop") /\ pc' = "term_"
  /\ UNCHANGED <<attr, stack, semerrs, tokens, expr>>

\* parse_term_
Mulop(op) ==
  /\ pc = "term_" /\ pc' = "factor"
  /\ tokens < MaxTokens
  /\ Push(Frame("mulop", attr, op, expr))
  /\ UNCHANGED <<attr, semerrs, tokens, expr>>

\* parse_term returns: to a sign, to a sum or to parse_simple_expr.
SignEnds ==
  /\ pc = "term_" /\ At("sign") /\ pc' = "simple_expr_"
  /\ Apply(SignRule(attr)) /\ Pop
  /\ expr' = Unary("sign", expr)
  /\ UNCHANGED tokens

AddopEnds ==
  /\ pc = "term_" /\ At("addop") /\ pc' = "simple_expr_"
  /\ Apply(AddopRule(Top.in, attr, Top.op)) /\ Pop
  /\ Joined
  /\ UNCHANGED tokens

TermEnds ==
  /\ pc = "term_" /\ ~At("sign") /\ ~At("addop") /\ pc' = "simple_expr_"
  /\ UNCHANGED <<attr, stack, semerrs, tokens, expr>>

\* parse_simple_expr_
Addop(op) ==
  /\ pc = "simple_expr_" /\ pc' = "factor"
  /\ tokens < MaxTokens
  /\ Push(Frame("addop", attr, op, expr))
  /\ UNCHANGED <<attr, semerrs, tokens, expr>>

\* parse_simple_expr returns: to a comparison, which has no successor, or to
\* parse_expr_.
RelopEnds ==
  /\ pc = "simple_expr_" /\ At("relop") /\ pc' = "expr end"
  /\ Apply(RelopRule(Top.in, attr)) /\ Pop
  /\ Joined
  /\ UNCHANGED tokens

Relop ==
  /\ pc = "simple_expr_" /\ ~At("relop") /\ pc' = "simple_expr"
  /\ tokens < MaxTokens
  /\ Push(Frame("relop", attr, "<", expr))
  /\ UNCHANGED <<attr, semerrs, tokens, expr>>

ExprPlain ==
  /\ pc = "simple_expr_" /\ ~At("relop") /\ pc' = "expr end"
  /\ UNCHANGED <<attr, stack, semerrs, tokens, expr>>

-----------------------------------------------------------------------------
(* parse_expr returns.                                                     *)

ParenthesisEnds ==
  /\ pc = "expr end" /\ At("parenthesis") /\ pc' = "factor end"
  /\ Pop
  /\ UNCHANGED <<attr, semerrs, tokens, expr>>

IndexEnds ==
  /\ pc = "expr end" /\ At("index") /\ pc' = "factor end"
  /\ Apply(IndexRule(Top.in, attr)) /\ Pop
  /\ expr' = Binary("index", Top.left, expr)
  /\ UNCHANGED tokens

VarIndexEnds ==
  /\ pc = "expr end" /\ At("var_") /\ pc' = "simple_expr"
  /\ LET rule == VarIndexRule(Top.in, attr) IN
     /\ Apply(rule)
     /\ Replace([Frame("assign", rule.t, "", Binary("index", Top.left, expr))
                  EXCEPT !.reports = semerrs'])
  /\ UNCHANGED <<tokens, expr>>

\* An argument, before "," or ")".
Checked == ArgumentRule(Top.wrong, Top.c, params(Top.left.name), attr)
Called  == Argument(Top.left, expr)

NextArgument ==
  /\ pc = "expr end" /\ At("call") /\ pc' = "simple_expr"
  /\ tokens < MaxTokens
  /\ Report(Checked.semerr)
  /\ Replace([Top EXCEPT !.wrong = Checked.wrong, !.c = Checked.c,
                        !.left = Called, !.reports = semerrs'])
  /\ UNCHANGED <<attr, tokens, expr>>

LastArgument ==
  /\ pc = "expr end" /\ At("call") /\ pc' = "factor end"
  /\ Report(Checked.semerr \/ TooFew(Checked.wrong, Checked.c, params(Top.left.name)))
  /\ attr' = CallType(Top.in)
  /\ expr' = Complete(Called)
  /\ Pop
  /\ UNCHANGED tokens

Assign ==
  /\ pc = "expr end" /\ At("assign") /\ pc' = "end"
  /\ Report(AssignFails(Top.in, attr)) /\ Pop
  /\ expr' = Binary("assign", Top.left, expr)
  /\ UNCHANGED <<attr, tokens>>

Decide ==
  /\ pc = "expr end" /\ At("condition") /\ pc' = "end"
  /\ Report(ConditionFails(attr)) /\ Pop
  /\ expr' = Unary("condition", expr)
  /\ UNCHANGED <<attr, tokens>>

-----------------------------------------------------------------------------
TypeInit ==
  /\ pc = "statement" /\ attr = TYPE_DEFAULT /\ stack = <<>>
  /\ semerrs = 0 /\ tokens = 0 /\ expr = None

Begin   == (\E x \in Name : AssignTo(x)) \/ VarPlain \/ VarIndexed \/ Condition
Operate == \/ Sign \/ (\E std \in Number : Literal(std)) \/ (\E x \in Name : Identifier(x))
           \/ Parenthesis \/ Not \/ FactorPlain \/ FactorCall \/ FactorIndexed
           \/ (\E op \in {"*", "and"} : Mulop(op)) \/ (\E op \in {"+", "or"} : Addop(op))
           \/ Relop
Resume  == \/ NotEnds \/ MulopEnds \/ FactorEnds \/ SignEnds \/ AddopEnds \/ TermEnds
           \/ RelopEnds \/ ExprPlain \/ ParenthesisEnds \/ IndexEnds \/ VarIndexEnds
           \/ NextArgument \/ LastArgument \/ Assign \/ Decide

TypeNext == Begin \/ Operate \/ Resume
TypeSpec == TypeInit /\ [][TypeNext]_typeVars

-----------------------------------------------------------------------------
(* Properties.                                                             *)

WellTyped(but) == expr.types[but] # Bad

\* No mistake goes unnoticed: a statement without any report is well typed,
\* but for functions that are named where their value is meant (two of them may
\* be operands of each other, and only their product or comparison may be
\* assigned, passed or go with other values), and for what is passed to a
\* parameter whose declaration was wrong.
SilentMeansWellTyped == pc = "end" /\ semerrs = 0 => WellTyped(Lenient)

\* No false alarm: a well-typed statement is never reported.
WellTypedIsSilent == pc = "end" /\ WellTyped(Strict) => semerrs = 0

\* A mistake is not reported again by what is around it: wherever an expression
\* ends, at most one report was made in it for each of its mistakes, and one more
\* for each sign or OR that leaves a mistake open: those hand on what is not ERR,
\* so that one report may follow.  None follows where an operand is ERR already.
NoCascade ==
  pc = "expr end" => semerrs - Top.reports <= expr.mistakes + expr.spoils
=============================================================================
