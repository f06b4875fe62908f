----------------------------- MODULE TypeRules -----------------------------
(***************************************************************************)
(* The semantic rules of the expression grammar, taken out of the parsing  *)
(* procedures of src/parser.c: what each does with the types it inherits   *)
(* and the types its operands return.  A rule gives the type that goes on  *)
(* and whether the procedure calls semerr.                                 *)
(***************************************************************************)
EXTENDS Integers, Sequences

StdTypes == {"NONE", "PGNAME", "PGPARAM", "INT", "REAL", "AINT", "AREAL", "BOOL", "ERR"}
Type     == [std_type : StdTypes, start : Int, end : Int, fun : {0, 1}]

Plain(std)               == [std_type |-> std, start |-> 0, end |-> 0, fun |-> 0]
Array(std, start, end)   == [Plain(std) EXCEPT !.start = start, !.end = end]
Function(std)            == [Plain(std) EXCEPT !.fun = 1]
TYPE_DEFAULT             == Plain("NONE")

Number == {"INT", "REAL"}
Arrays == {"AINT", "AREAL"}

types_equal(a, b, check_fun_equal) ==
  /\ a.std_type = b.std_type
  /\ a.std_type \in Arrays => a.start = b.start /\ a.end = b.end
  /\ check_fun_equal = 1 => a.fun = b.fun

Gives(t)   == [t |-> t, semerr |-> FALSE]
Reports(t) == [t |-> t, semerr |-> TRUE]

Err           == Plain("ERR")
IsErr(t)      == t.std_type = "ERR"
Element(t)    == Plain(IF t.std_type = "AINT" THEN "INT" ELSE "REAL")

-----------------------------------------------------------------------------
(* Declarations.                                                           *)

\* parse_type, behind "ARRAY [ num1 .. num2 ] OF": the bounds are literals with
\* their attribute and their value as an int.
ArrayRule(num1, num2, st) ==
  LET std == CASE st.std_type = "INT" -> "AINT" [] st.std_type = "REAL" -> "AREAL"
               [] OTHER -> "NONE"
  IN  IF num1.attribute # "INT" \/ num2.attribute # "INT" THEN Reports(Err)
      ELSE IF num1.intval > num2.intval THEN Reports(Array("ERR", num1.intval, num2.intval))
      ELSE Gives(Array(std, num1.intval, num2.intval))

-----------------------------------------------------------------------------
(* Operators: "in" is the type to the left, t the one to the right.        *)

\* parse_expr_
RelopRule(in, t) ==
  IF IsErr(in) \/ IsErr(t) THEN Gives(Err)
  ELSE IF types_equal(in, t, 1) /\ in.std_type \in Number THEN Gives(Plain("BOOL"))
  ELSE Reports(Err)

\* Mutant: a bad operand counts as any other type.
AddopRule_Cascades(in, t, op) ==
  IF ~types_equal(in, t, 1) THEN Reports(Err)
  ELSE IF op = "+" THEN IF in.std_type \in Number THEN Gives(in) ELSE Reports(Err)
  ELSE IF in.std_type = "BOOL" THEN Gives(in) ELSE Reports(TYPE_DEFAULT)

\* parse_simple_expr_: the sum keeps the type it inherits, fun included; bad
\* operands of OR leave no type at all.
AddopRule(in, t, op) ==
  IF IsErr(in) \/ IsErr(t) THEN Gives(Err)
  ELSE IF ~types_equal(in, t, 1) THEN Reports(Err)
  ELSE IF op = "+" THEN IF in.std_type \in Number THEN Gives(in) ELSE Reports(Err)
  ELSE IF in.std_type = "BOOL" THEN Gives(in) ELSE Reports(TYPE_DEFAULT)

\* Mutant: the types of the operands are not compared.
MulopRule_Mixed(in, t, op) ==
  LET operand == IF op = "*" THEN "INT" ELSE "BOOL"
  IN  IF IsErr(in) \/ IsErr(t) THEN Gives(Err)
      ELSE IF in.std_type = operand THEN Gives(Plain(operand)) ELSE Reports(Err)

\* parse_term_: only integers are multiplied and divided; the product is no
\* function.
MulopRule(in, t, op) ==
  LET operand == IF op = "*" THEN "INT" ELSE "BOOL"
  IN  IF IsErr(in) \/ IsErr(t) THEN Gives(Err)
      ELSE IF types_equal(in, t, 1) /\ in.std_type = operand THEN Gives(Plain(operand))
      ELSE Reports(Err)

\* parse_simple_expr: the ERR set for a bad operand is overwritten by its type.
SignRule(t) == IF t.std_type \in Number \cup {"ERR"} THEN Gives(t) ELSE Reports(t)

\* parse_factor
NotRule(t) == IF t.std_type \in {"BOOL", "ERR"} THEN Gives(t) ELSE Reports(Err)

-----------------------------------------------------------------------------
(* Names.                                                                  *)

\* parse_factor and parse_var: a symbol without a type is undefined.
NameRule(t) == IF t.std_type = "NONE" THEN Reports(Err) ELSE Gives(t)

\* parse_factor_, behind "]"
IndexRule(in, e) ==
  IF IsErr(in) \/ IsErr(e) THEN Gives(Err)
  ELSE IF e.std_type = "INT" /\ in.std_type \in Arrays THEN Gives(Element(in))
  ELSE Reports(Err)

\* parse_var_: the same on the left of an assignment, but ERR is reported again.
VarIndexRule(in, e) ==
  IF in.std_type \in Arrays /\ e.std_type = "INT" THEN Gives(Element(in)) ELSE Reports(Err)

\* Mutant: the arguments are counted from one.
ArgumentRule_OffByOne(wrong, c, params, t) ==
  IF wrong THEN [wrong |-> TRUE, c |-> 0, semerr |-> FALSE]
  ELSE IF Len(params) <= c + 1 \/ ~types_equal(params[c + 1], t, 1)
  THEN [wrong |-> TRUE, c |-> 0, semerr |-> TRUE]
  ELSE [wrong |-> FALSE, c |-> c + 1, semerr |-> FALSE]

\* parse_expr_list and parse_expr_list_ after an argument, when c arguments
\* were right before it; after a wrong one the rest is not looked at.
ArgumentRule(wrong, c, params, t) ==
  IF wrong THEN [wrong |-> TRUE, c |-> 0, semerr |-> FALSE]
  ELSE IF Len(params) < c + 1 \/ ~types_equal(params[c + 1], t, 1)
  THEN [wrong |-> TRUE, c |-> 0, semerr |-> TRUE]
  ELSE [wrong |-> FALSE, c |-> c + 1, semerr |-> FALSE]

\* parse_expr_list_ at ")"
TooFew(wrong, c, params) == ~wrong /\ Len(params) > c

\* parse_factor_ behind ")": whatever the arguments were, a call has the type
\* of the name; only a function name loses its mark.
CallType(in) == [in EXCEPT !.fun = 0]

-----------------------------------------------------------------------------
(* Statements.                                                             *)

\* parse_statement
AssignFails(v, e) ==
  ~(types_equal(v, e, 0) /\ v.std_type \in Number /\ e.fun = 0)

ConditionFails(e) == e.std_type # "BOOL"
=============================================================================
