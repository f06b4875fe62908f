-------------------------- MODULE TypingReference --------------------------
(***************************************************************************)
(* What the semantic analysis is for: which statements are well typed, and *)
(* how many mistakes the others have.  Typing.tla passes types along while *)
(* it parses; here an expression is judged by the judgements of its        *)
(* operands alone, without any order of evaluation: its type by the rules  *)
(* of the language, its mistakes, and how many of its operators are of the *)
(* kind after which the analysis is known to report a mistake again.       *)
(***************************************************************************)
EXTENDS TypeRules

CONSTANTS
  Symbols,      \* the visible symbols: a function to [type, params]
  Undefined     \* lexemes that are no symbol

\* parse_type makes the type of a parameter and never sets fun.
ASSUME SymbolsAssumption ==
  \A x \in DOMAIN Symbols :
    /\ Symbols[x].type \in Type
    /\ Symbols[x].params \in Seq(Type)
    /\ \A k \in DOMAIN Symbols[x].params : Symbols[x].params[k].fun = 0

Name == DOMAIN Symbols \cup Undefined

get_type(x) == IF x \in DOMAIN Symbols THEN Symbols[x].type ELSE TYPE_DEFAULT
params(x)   == IF x \in DOMAIN Symbols THEN Symbols[x].params ELSE <<>>

-----------------------------------------------------------------------------
(* Types: that of a well-typed expression, Bad for any other.  What is     *)
(* allowed beyond that is in the set "but": the name of a function without *)
(* arguments ("bare"; its type keeps the mark fun), calls with wrong       *)
(* arguments ("call"), and arguments for parameters whose own type is an   *)
(* error ("param").                                                        *)

Bad    == Plain("BAD")
Std(t) == t.std_type

Strict  == {}
Lenient == {"bare", "param"}
ByName  == {"call"}
Leniency == {Strict, Lenient, ByName}

is(ok, type) == IF ok THEN type ELSE Bad

Same(s, t) == /\ Std(s) = Std(t)
              /\ Std(s) \in Arrays => s.start = t.start /\ s.end = t.end

Known(x) == Std(get_type(x)) \notin {"NONE", "ERR"}

NameType(x, but) == is(Known(x) /\ (get_type(x).fun = 1 => "bare" \in but), get_type(x))

\* What a call of x returns, and what is assigned to x in its own body.
ResultType(x) == is(Known(x), CallType(get_type(x)))

UnaryType(op, t) ==
  CASE op = "sign" -> is(Std(t) \in Number, t)
    [] op \in {"not", "condition"} -> is(Std(t) = "BOOL", t)

\* Two bare names of functions are operands of each other; a product or a
\* comparison of them has a value, a sum is as bare as they are.
BinaryType(op, s, t) ==
  LET both(S) == Std(s) \in S /\ Std(t) = Std(s) /\ s.fun = t.fun IN
  CASE op = "index"  -> is(Std(s) \in Arrays /\ Std(t) = "INT", Element(s))
    [] op = "*"      -> is(both({"INT"}), Plain("INT"))
    [] op = "and"    -> is(both({"BOOL"}), Plain("BOOL"))
    [] op = "+"      -> is(both(Number), s)
    [] op = "or"     -> is(both({"BOOL"}), s)
    [] op = "<"      -> is(both(Number), Plain("BOOL"))
    [] op = "assign" -> is(Std(s) \in Number /\ Std(t) = Std(s) /\ t.fun = 0, s)

\* The k-th argument of x may have the type t.
Takes(x, k, t, but) ==
  \/ "call" \in but
  \/ /\ k \in DOMAIN params(x)
     /\ (Same(t, params(x)[k]) /\ t.fun = 0) \/ ("param" \in but /\ IsErr(params(x)[k]))

-----------------------------------------------------------------------------
(* Judgements.  A mistake is that of an operator whose operands have types *)
(* when it has none.  It is "open" if the analysis hands on a type, or     *)
(* none, where an error would be right; an operator that does so "spoils". *)

Judgement(name, args, types, mistakes, open, spoils) ==
  [name |-> name, args |-> args, types |-> types, mistakes |-> mistakes,
   open |-> open, spoils |-> spoils]

None == Judgement("", 0, [but \in Leniency |-> Bad], 0, FALSE, 0)

Count(yes) == IF yes THEN 1 ELSE 0

Literally(std) == Judgement("", 0, [but \in Leniency |-> Plain(std)], 0, FALSE, 0)

\* A name where its value is meant, and on the left of an assignment, where
\* the name of a function is its result.
Named(x) ==
  LET types == [but \in Leniency |-> NameType(x, but)]
      wrong == types[ByName] = Bad
  IN  Judgement(x, 0, types, Count(wrong), wrong /\ Known(x), 0)

Variable(x) ==
  LET types == [but \in Leniency |-> ResultType(x)]
  IN  Judgement(x, 0, types, Count(types[ByName] = Bad), FALSE, 0)

\* An operation without a type leaves its mistake open if none of its operands
\* is an error already, and its operator does not make it one.
Spoiler == {"sign", "or"}
Leaves(op, types, operands) ==
  /\ types[ByName] = Bad
  /\ \A e \in operands : e.types[ByName] = Bad => e.open
  /\ op \in Spoiler \/ \E e \in operands : e.open

Spoils(op, open) == Count(op \in Spoiler /\ open)

Unary(op, e) ==
  LET types == [but \in Leniency |-> UnaryType(op, e.types[but])]
      open  == Leaves(op, types, {e})
  IN  Judgement("", 0, types,
                e.mistakes + Count(types[ByName] = Bad /\ e.types[ByName] # Bad),
                open, e.spoils + Spoils(op, open))

Binary(op, l, r) ==
  LET types == [but \in Leniency |-> BinaryType(op, l.types[but], r.types[but])]
      open  == Leaves(op, types, {l, r})
  IN  Judgement("", 0, types,
                l.mistakes + r.mistakes
                  + Count(types[ByName] = Bad /\ l.types[ByName] # Bad /\ r.types[ByName] # Bad),
                open, l.spoils + r.spoils + Spoils(op, open))

\* A call: the name, then one argument after the other, then ")".  A call with
\* wrong arguments is one mistake, and by its name it has a type.
Callee(x) ==
  Judgement(x, 0, [but \in Leniency |-> ResultType(x)], 0, FALSE, 0)

Argument(call, e) ==
  Judgement(call.name, call.args + 1,
            [but \in Leniency |->
               is(Takes(call.name, call.args + 1, e.types[but], but), call.types[but])],
            call.mistakes + e.mistakes,
            FALSE, call.spoils + e.spoils)

Complete(call) ==
  LET types == [but \in Leniency |->
                  is("call" \in but \/ call.args = Len(params(call.name)), call.types[but])]
  IN  Judgement("", 0, types,
                call.mistakes + Count(types[ByName] = Bad \/ types[Strict] = Bad),
                FALSE, call.spoils)
=============================================================================
