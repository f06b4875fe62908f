---------------------------- MODULE TypingProofs ----------------------------
(***************************************************************************)
(* The semantic analysis of a statement, for every set of symbols and      *)
(* statements of any length: what its reports, and their absence, say      *)
(* about the statement.                                                    *)
(*                                                                         *)
(* The invariant compares, for each expression that is parsed or was       *)
(* parsed by a waiting procedure, three things: the type the code has for  *)
(* it, the number of reports made in it, and its judgement.  What is there *)
(* to be shown of an operator is then a fact about its semantic rule and   *)
(* the judgements of its operands, one lemma per operator, in which no     *)
(* state occurs.                                                           *)
(***************************************************************************)
EXTENDS Typing, SequenceTheorems, TLAPS

-----------------------------------------------------------------------------
(* What is claimed of an expression judged x, with the type t, in which n  *)
(* reports were made.                                                      *)

\* If there was none, the type is right or an error that was reported before.
Silent(n, t, x) == n = 0 /\ ~IsErr(t) => Same(t, x.types[Lenient])

\* If it is well typed, there was none, and the type is right.
Exact(n, t, x) == x.types[Strict] # Bad => n = 0 /\ Same(t, x.types[Strict])

\* A type as a rule sees it: with the mark of a function.
Alike(t, a) == Same(t, a) /\ t.fun = a.fun

\* As many reports as its mistakes pay for, and the operators that spoil.
Due(x) == x.mistakes + x.spoils

\* What is paid for pays for its reports; a mistake that left a type behind may
\* be reported once more, and that is paid for too.
Paid(n, t, x) ==
  IF x.types[ByName] = Bad THEN n < Due(x) \/ (n = Due(x) /\ IsErr(t))
  ELSE n <= Due(x) /\ Alike(t, x.types[ByName])

IsJudged(x) == x.mistakes \in Nat /\ x.spoils \in Nat

\* What is on the left of an assignment, and any other expression.
Target(n, t, x) == IsJudged(x) /\ Silent(n, t, x) /\ Exact(n, t, x)

Judged(n, t, x) ==
  /\ Target(n, t, x)
  /\ Paid(n, t, x)
  /\ x.types[ByName] = Bad /\ ~x.open => IsErr(t)
  /\ n = 0 /\ ~IsErr(t) => t.fun = x.types[Lenient].fun
  /\ x.types[Strict] # Bad => t.fun = x.types[Strict].fun

-----------------------------------------------------------------------------
(* Rules of operators.                                                     *)

LEMMA BadIsNoType == Std(Bad) = "BAD"
BY DEF Bad, Std, Plain

LEMMA BinaryIs ==
  ASSUME NEW op, NEW l, NEW r, IsJudged(l), IsJudged(r)
  PROVE  LET x == Binary(op, l, r) IN
         /\ IsJudged(x)
         /\ \A but \in Leniency : x.types[but] = BinaryType(op, l.types[but], r.types[but])
         /\ x.mistakes = l.mistakes + r.mistakes
              + Count(x.types[ByName] = Bad /\ l.types[ByName] # Bad /\ r.types[ByName] # Bad)
         /\ x.open <=> /\ x.types[ByName] = Bad
                       /\ (l.types[ByName] = Bad => l.open) /\ (r.types[ByName] = Bad => r.open)
                       /\ op \in Spoiler \/ l.open \/ r.open
         /\ x.spoils = l.spoils + r.spoils + Spoils(op, x.open)
<1> DEFINE types == [but \in Leniency |-> BinaryType(op, l.types[but], r.types[but])]
           x     == Binary(op, l, r)
<1>1. /\ x.types = types
      /\ x.mistakes = l.mistakes + r.mistakes
           + Count(types[ByName] = Bad /\ l.types[ByName] # Bad /\ r.types[ByName] # Bad)
      /\ x.open = Leaves(op, types, {l, r})
      /\ x.spoils = l.spoils + r.spoils + Spoils(op, x.open)
  BY DEF Binary, Judgement
<1>2. IsJudged(x)
  <2> HIDE DEF x, types
  <2> QED
    BY <1>1 DEF IsJudged, Count, Spoils, Leaves
<1>3. x.open <=> /\ x.types[ByName] = Bad
                 /\ (l.types[ByName] = Bad => l.open) /\ (r.types[ByName] = Bad => r.open)
                 /\ op \in Spoiler \/ l.open \/ r.open
  <2> HIDE DEF x, types
  <2> QED
    BY <1>1 DEF Leaves
<1> QED
  BY <1>1, <1>2, <1>3

LEMMA UnaryIs ==
  ASSUME NEW op, NEW e, IsJudged(e)
  PROVE  LET x == Unary(op, e) IN
         /\ IsJudged(x)
         /\ \A but \in Leniency : x.types[but] = UnaryType(op, e.types[but])
         /\ x.mistakes = e.mistakes + Count(x.types[ByName] = Bad /\ e.types[ByName] # Bad)
         /\ x.open = Leaves(op, x.types, {e})
         /\ x.spoils = e.spoils + Spoils(op, x.open)
<1> DEFINE types == [but \in Leniency |-> UnaryType(op, e.types[but])]
           x     == Unary(op, e)
<1>1. /\ x.types = types
      /\ x.mistakes = e.mistakes + Count(types[ByName] = Bad /\ e.types[ByName] # Bad)
      /\ x.open = Leaves(op, types, {e})
      /\ x.spoils = e.spoils + Spoils(op, x.open)
  BY DEF Unary, Judgement
<1>2. IsJudged(x)
  <2> HIDE DEF x, types
  <2> QED
    BY <1>1 DEF IsJudged, Count, Spoils, Leaves
<1> QED
  BY <1>1, <1>2

LEMMA LeniencyIs == Strict \in Leniency /\ Lenient \in Leniency /\ ByName \in Leniency
BY DEF Leniency

\* What a semantic rule has to do with the types s and t of its operands, to be
\* right about every operation whose operands are judged to have such types: to
\* keep quiet after an error, and otherwise to report what has no type, and to
\* pass on the type of what has one.
RightRule(op, s, t, rule) ==
  /\ rule.t \in Type /\ rule.semerr \in BOOLEAN
  /\ IsErr(s) \/ IsErr(t) => IsErr(rule.t) /\ ~rule.semerr
  /\ rule.semerr => IsErr(rule.t) \/ op = "or"
  /\ \A a, b : Alike(s, a) /\ Alike(t, b) /\ ~IsErr(s) /\ ~IsErr(t) =>
       LET type == BinaryType(op, a, b) IN
       /\ rule.semerr <=> type = Bad
       /\ ~rule.semerr => Alike(rule.t, type)

BinaryOp == {"*", "and", "+", "or", "<", "index"}

\* Only what has a type gets one.
LEMMA OperandsHaveTypes ==
  ASSUME NEW op \in BinaryOp \cup {"assign"}, NEW a, NEW b, BinaryType(op, a, b) # Bad
  PROVE  a # Bad /\ b # Bad /\ ~IsErr(a) /\ ~IsErr(b)
<1>1. Std(a) \in Number \cup Arrays \cup {"BOOL"} /\ Std(b) \in Number \cup {"BOOL"}
  BY DEF BinaryType, is, BinaryOp, Number, Arrays
<1> QED
  BY <1>1, BadIsNoType DEF Number, Arrays, IsErr, Std

LEMMA PaidIsEnough ==
  ASSUME NEW n \in Nat, NEW t, NEW x, IsJudged(x), Paid(n, t, x)
  PROVE  n <= Due(x)
BY DEF Paid, IsJudged, Due

LEMMA SameIsNotBad == ASSUME NEW t \in Type, NEW a, Same(t, a) PROVE a # Bad
BY BadIsNoType DEF Same, Type, StdTypes, Std

LEMMA BinaryJudged ==
  ASSUME NEW op \in BinaryOp, NEW s \in Type, NEW t \in Type, NEW l, NEW r,
         NEW n \in Nat, NEW m \in Nat, Judged(n, s, l), Judged(m, t, r),
         NEW rule, RightRule(op, s, t, rule)
  PROVE  Judged(n + m + Count(rule.semerr), rule.t, Binary(op, l, r))
<1> DEFINE x == Binary(op, l, r)
           c == Count(rule.semerr)
<1>1. /\ IsJudged(x)
      /\ \A but \in Leniency : x.types[but] = BinaryType(op, l.types[but], r.types[but])
      /\ x.mistakes = l.mistakes + r.mistakes
           + Count(x.types[ByName] = Bad /\ l.types[ByName] # Bad /\ r.types[ByName] # Bad)
      /\ x.open <=> /\ x.types[ByName] = Bad
                    /\ (l.types[ByName] = Bad => l.open) /\ (r.types[ByName] = Bad => r.open)
                    /\ op \in Spoiler \/ l.open \/ r.open
      /\ x.spoils = l.spoils + r.spoils + Spoils(op, x.open)
  <2>1. IsJudged(l) /\ IsJudged(r)
    BY DEF Judged, Target
  <2> QED
    BY <2>1, BinaryIs
<1>2. rule.t \in Type /\ c \in {0, 1} /\ (c = 1 <=> rule.semerr)
  BY DEF RightRule, Count
<1> HIDE DEF x, c
<1>3. \A but \in Leniency : x.types[but] # Bad =>
        /\ l.types[but] # Bad /\ r.types[but] # Bad
        /\ ~IsErr(l.types[but]) /\ ~IsErr(r.types[but])
  BY <1>1, OperandsHaveTypes
<1>4. n + m + c = 0 /\ ~IsErr(rule.t) => Alike(rule.t, x.types[Lenient])
  <2> SUFFICES ASSUME n + m + c = 0, ~IsErr(rule.t) PROVE Alike(rule.t, x.types[Lenient])
    OBVIOUS
  <2>1. n = 0 /\ m = 0 /\ ~rule.semerr
    BY <1>2
  <2>2. ~IsErr(s) /\ ~IsErr(t)
    BY DEF RightRule
  <2>3. Alike(s, l.types[Lenient]) /\ Alike(t, r.types[Lenient])
    BY <2>1, <2>2 DEF Judged, Target, Silent, Alike
  <2> QED
    BY <1>1, <2>1, <2>2, <2>3, LeniencyIs DEF RightRule
<1>5. x.types[Strict] # Bad => n + m + c = 0 /\ Alike(rule.t, x.types[Strict])
  <2> SUFFICES ASSUME x.types[Strict] # Bad
               PROVE  n + m + c = 0 /\ Alike(rule.t, x.types[Strict])
    OBVIOUS
  <2>1. /\ l.types[Strict] # Bad /\ r.types[Strict] # Bad
        /\ ~IsErr(l.types[Strict]) /\ ~IsErr(r.types[Strict])
    BY <1>3, LeniencyIs
  <2>2. /\ n = 0 /\ Alike(s, l.types[Strict])
        /\ m = 0 /\ Alike(t, r.types[Strict])
    BY <2>1 DEF Judged, Target, Exact, Alike
  <2>3. ~IsErr(s) /\ ~IsErr(t)
    BY <2>1, <2>2 DEF IsErr, Same, Alike, Std
  <2>4. ~rule.semerr /\ Alike(rule.t, x.types[Strict])
    BY <1>1, <2>2, <2>3, LeniencyIs DEF RightRule
  <2> QED
    BY <1>2, <2>2, <2>4
<1>6. x.types[ByName] = Bad /\ ~x.open => IsErr(rule.t)
  <2> SUFFICES ASSUME x.types[ByName] = Bad, ~x.open PROVE IsErr(rule.t)
    OBVIOUS
  <2>1. CASE IsErr(s) \/ IsErr(t)
    BY <2>1 DEF RightRule
  <2>2. CASE ~IsErr(s) /\ ~IsErr(t)
    <3>1. (l.types[ByName] = Bad => l.open) /\ (r.types[ByName] = Bad => r.open)
      BY <2>2 DEF Judged
    <3>2. op # "or" /\ ~l.open /\ ~r.open
      BY <1>1, <3>1 DEF Spoiler
    <3>3. Alike(s, l.types[ByName]) /\ Alike(t, r.types[ByName])
      BY <3>1, <3>2 DEF Judged, Paid
    <3> QED
      BY <1>1, <2>2, <3>2, <3>3, LeniencyIs DEF RightRule
  <2> QED
    BY <2>1, <2>2
<1>7. Paid(n + m + c, rule.t, x)
  <2>1. /\ l.mistakes \in Nat /\ r.mistakes \in Nat /\ l.spoils \in Nat /\ r.spoils \in Nat
        /\ Due(l) \in Nat /\ Due(r) \in Nat /\ n <= Due(l) /\ m <= Due(r)
    BY PaidIsEnough DEF Judged, Target, IsJudged, Due
  <2>2. rule.semerr /\ ~IsErr(rule.t) /\ x.types[ByName] = Bad =>
          Spoils(op, x.open) = 1
    BY <1>6 DEF RightRule, Spoils, Spoiler, Count
  <2>3. Spoils(op, x.open) \in {0, 1}
    BY DEF Spoils, Count
  <2>4. CASE l.types[ByName] # Bad /\ r.types[ByName] # Bad
    <3>1. Alike(s, l.types[ByName]) /\ Alike(t, r.types[ByName])
      BY <2>4 DEF Judged, Paid
    <3>2. CASE x.types[ByName] = Bad
      <4>1. x.mistakes = l.mistakes + r.mistakes + 1
        BY <1>1, <2>4, <3>2 DEF Count
      <4>2. Due(x) = Due(l) + Due(r) + 1 + Spoils(op, x.open)
        BY <1>1, <2>1, <2>3, <4>1 DEF Due
      <4>3. ~rule.semerr => IsErr(rule.t)
        <5>1. CASE IsErr(s) \/ IsErr(t)
          BY <5>1 DEF RightRule
        <5>2. CASE ~IsErr(s) /\ ~IsErr(t)
          BY <1>1, <3>1, <3>2, <5>2, LeniencyIs DEF RightRule
        <5> QED
          BY <5>1, <5>2
      <4> QED
        BY <1>2, <2>1, <2>2, <2>3, <3>2, <4>2, <4>3 DEF Paid
    <3>3. CASE x.types[ByName] # Bad
      <4>1. ~IsErr(s) /\ ~IsErr(t)
        BY <1>3, <3>1, <3>3, LeniencyIs DEF IsErr, Same, Alike, Std
      <4>2. ~rule.semerr /\ Alike(rule.t, x.types[ByName])
        BY <1>1, <3>1, <3>3, <4>1, LeniencyIs DEF RightRule
      <4>3. x.mistakes = l.mistakes + r.mistakes
        BY <1>1, <2>1, <3>3 DEF Count
      <4>4. Due(x) = Due(l) + Due(r) + Spoils(op, x.open)
        BY <1>1, <2>1, <2>3, <4>3 DEF Due
      <4> QED
        BY <1>2, <2>1, <2>3, <3>3, <4>2, <4>4 DEF Paid
    <3> QED
      BY <3>2, <3>3
  <2>5. CASE l.types[ByName] = Bad \/ r.types[ByName] = Bad
    <3>1. x.types[ByName] = Bad
      BY <1>3, <2>5, LeniencyIs
    <3>2. x.mistakes = l.mistakes + r.mistakes
      BY <1>1, <2>1, <2>5 DEF Count
    <3>3. Due(x) = Due(l) + Due(r) + Spoils(op, x.open)
      BY <1>1, <2>1, <2>3, <3>2 DEF Due
    <3>4. CASE IsErr(s) \/ IsErr(t)
      <4>1. ~rule.semerr /\ IsErr(rule.t)
        BY <3>4 DEF RightRule
      <4> QED
        BY <1>2, <2>1, <2>3, <3>1, <3>3, <4>1 DEF Paid
    <3>5. CASE ~IsErr(s) /\ ~IsErr(t)
      <4>1. n < Due(l) \/ m < Due(r)
        BY <2>5, <3>5 DEF Judged, Paid
      <4> QED
        BY <1>2, <2>1, <2>2, <2>3, <3>1, <3>3, <4>1 DEF Paid
    <3> QED
      BY <3>4, <3>5
  <2> QED
    BY <2>4, <2>5
<1>8. IsJudged(x) /\ Judged(n + m + c, rule.t, x)
  BY <1>1, <1>4, <1>5, <1>6, <1>7 DEF Judged, Target, Silent, Exact, Alike
<1> QED
  BY <1>8 DEF x, c

LEMMA MulopIsRight ==
  ASSUME NEW op \in {"*", "and"}, NEW s \in Type, NEW t \in Type
  PROVE  RightRule(op, s, t, MulopRule(s, t, op))
<1> DEFINE rule == MulopRule(s, t, op)
           std  == IF op = "*" THEN "INT" ELSE "BOOL"
<1>1. \A a, b : BinaryType(op, a, b) =
        IF Std(a) = std /\ Std(b) = std /\ a.fun = b.fun THEN Plain(std) ELSE Bad
  BY DEF BinaryType, is
<1>2. rule = IF IsErr(s) \/ IsErr(t) THEN Gives(Err)
             ELSE IF Std(s) = std /\ Std(t) = std /\ s.fun = t.fun THEN Gives(Plain(std)) ELSE Reports(Err)
  BY DEF MulopRule, types_equal, Arrays, Std
<1> HIDE DEF rule
<1>3. rule.t \in Type /\ rule.semerr \in BOOLEAN
  BY <1>2 DEF Gives, Reports, Err, Plain, Type, StdTypes
<1>4. RightRule(op, s, t, rule)
  BY <1>1, <1>2, <1>3, BadIsNoType DEF RightRule, Alike, Gives, Reports, Err, IsErr, Same, Std, Plain, Arrays
<1> QED
  BY <1>4 DEF rule

LEMMA AddopIsRight ==
  ASSUME NEW op \in {"+", "or"}, NEW s \in Type, NEW t \in Type
  PROVE  RightRule(op, s, t, AddopRule(s, t, op))
<1> DEFINE rule == AddopRule(s, t, op)
           stds == IF op = "+" THEN Number ELSE {"BOOL"}
<1>1. \A a, b : BinaryType(op, a, b) =
        IF Std(a) \in stds /\ Std(b) = Std(a) /\ a.fun = b.fun THEN a ELSE Bad
  BY DEF BinaryType, is
<1>2. rule = IF IsErr(s) \/ IsErr(t) THEN Gives(Err)
             ELSE IF Std(s) \in stds /\ Std(t) = Std(s) /\ s.fun = t.fun THEN Gives(s)
             ELSE IF op = "or" /\ types_equal(s, t, 1) THEN Reports(TYPE_DEFAULT) ELSE Reports(Err)
  BY DEF AddopRule, types_equal, Arrays, Number, Std
<1> HIDE DEF rule
<1>3. rule.t \in Type /\ rule.semerr \in BOOLEAN
  BY <1>2 DEF Gives, Reports, Err, Plain, Type, StdTypes, TYPE_DEFAULT
<1>4. RightRule(op, s, t, rule)
  BY <1>1, <1>2, <1>3, BadIsNoType DEF RightRule, Alike, Gives, Reports, Err, IsErr, Same, Std, Plain, Arrays, Number
<1> QED
  BY <1>4 DEF rule

LEMMA RelopIsRight ==
  ASSUME NEW s \in Type, NEW t \in Type
  PROVE  RightRule("<", s, t, RelopRule(s, t))
<1> DEFINE rule == RelopRule(s, t)
<1>1. \A a, b : BinaryType("<", a, b) =
        IF Std(a) \in Number /\ Std(b) = Std(a) /\ a.fun = b.fun THEN Plain("BOOL") ELSE Bad
  BY DEF BinaryType, is
<1>2. rule = IF IsErr(s) \/ IsErr(t) THEN Gives(Err)
             ELSE IF Std(s) \in Number /\ Std(t) = Std(s) /\ s.fun = t.fun THEN Gives(Plain("BOOL"))
             ELSE Reports(Err)
  BY DEF RelopRule, types_equal, Arrays, Number, Std
<1> HIDE DEF rule
<1>3. rule.t \in Type /\ rule.semerr \in BOOLEAN
  BY <1>2 DEF Gives, Reports, Err, Plain, Type, StdTypes
<1>4. RightRule("<", s, t, rule)
  BY <1>1, <1>2, <1>3, BadIsNoType DEF RightRule, Alike, Gives, Reports, Err, IsErr, Same, Std, Plain, Arrays, Number
<1> QED
  BY <1>4 DEF rule

LEMMA IndexIsRight ==
  ASSUME NEW s \in Type, NEW t \in Type
  PROVE  RightRule("index", s, t, IndexRule(s, t))
<1> DEFINE rule == IndexRule(s, t)
<1>1. \A a, b : BinaryType("index", a, b) = IF Std(a) \in Arrays /\ Std(b) = "INT" THEN Element(a) ELSE Bad
  BY DEF BinaryType, is
<1>2. rule = IF IsErr(s) \/ IsErr(t) THEN Gives(Err)
             ELSE IF Std(s) \in Arrays /\ Std(t) = "INT" THEN Gives(Element(s)) ELSE Reports(Err)
  BY DEF IndexRule, Std
<1> HIDE DEF rule
<1>3. rule.t \in Type /\ rule.semerr \in BOOLEAN
  BY <1>2 DEF Gives, Reports, Err, Plain, Type, StdTypes, Element
<1>4. RightRule("index", s, t, rule)
  BY <1>1, <1>2, <1>3, BadIsNoType DEF RightRule, Alike, Gives, Reports, Err, IsErr, Same, Std, Plain, Arrays, Element
<1> QED
  BY <1>4 DEF rule

-----------------------------------------------------------------------------
(* Signs and NOT.                                                          *)

LEMMA UnaryJudged ==
  ASSUME NEW op \in {"sign", "not"}, NEW t \in Type, NEW e, NEW n \in Nat, Judged(n, t, e)
  PROVE  LET rule == IF op = "sign" THEN SignRule(t) ELSE NotRule(t) IN
         /\ rule.t \in Type /\ rule.semerr \in BOOLEAN
         /\ Judged(n + Count(rule.semerr), rule.t, Unary(op, e))
<1> DEFINE rule == IF op = "sign" THEN SignRule(t) ELSE NotRule(t)
           stds == IF op = "sign" THEN Number ELSE {"BOOL"}
           x    == Unary(op, e)
           c    == Count(rule.semerr)
<1>1. rule = IF IsErr(t) \/ Std(t) \in stds THEN Gives(t)
             ELSE IF op = "sign" THEN Reports(t) ELSE Reports(Err)
  BY DEF SignRule, NotRule, IsErr, Std, Number
<1>2. /\ IsJudged(x)
      /\ \A but \in Leniency : x.types[but] = UnaryType(op, e.types[but])
      /\ x.mistakes = e.mistakes + Count(x.types[ByName] = Bad /\ e.types[ByName] # Bad)
      /\ x.open = Leaves(op, x.types, {e})
      /\ x.spoils = e.spoils + Spoils(op, x.open)
  BY UnaryIs DEF Judged, Target
<1>3. \A but \in Leniency : x.types[but] = IF Std(e.types[but]) \in stds THEN e.types[but] ELSE Bad
  BY <1>2 DEF UnaryType, is
<1>4. stds \in SUBSET {"INT", "REAL", "BOOL"}
  BY DEF Number
<1> HIDE DEF rule, x, stds
<1>5. rule.t \in Type /\ rule.semerr \in BOOLEAN
  BY <1>1 DEF Gives, Reports, Err, Plain, Type, StdTypes
<1>6. c \in {0, 1} /\ (c = 1 <=> rule.semerr)
  BY <1>5 DEF Count
<1> HIDE DEF c
<1>7. /\ n + c = 0 /\ ~IsErr(rule.t) => Alike(rule.t, x.types[Lenient])
      /\ x.types[Strict] # Bad => n + c = 0 /\ Alike(rule.t, x.types[Strict])
  <2>1. ASSUME n + c = 0, ~IsErr(rule.t) PROVE Alike(rule.t, x.types[Lenient])
    <3>1. n = 0 /\ ~rule.semerr
      BY <1>6, <2>1
    <3>2. rule.t = t /\ Std(t) \in stds
      BY <1>1, <2>1, <3>1 DEF Gives, Reports
    <3>3. Alike(t, e.types[Lenient])
      BY <2>1, <3>1, <3>2 DEF Judged, Target, Silent, Alike
    <3> QED
      BY <1>3, <3>2, <3>3, LeniencyIs DEF Alike, Same
  <2>2. ASSUME x.types[Strict] # Bad PROVE n + c = 0 /\ Alike(rule.t, x.types[Strict])
    <3>1. Std(e.types[Strict]) \in stds /\ x.types[Strict] = e.types[Strict]
      BY <1>3, <2>2, LeniencyIs
    <3>2. n = 0 /\ Alike(t, e.types[Strict])
      BY <2>2, <3>1 DEF Judged, Target, Exact, Alike
    <3>3. rule = Gives(t)
      BY <1>1, <3>1, <3>2 DEF Alike, Same
    <3> QED
      BY <1>6, <3>1, <3>2, <3>3 DEF Gives
  <2> QED
    BY <2>1, <2>2
<1>8. x.types[ByName] = Bad /\ ~x.open => IsErr(rule.t)
  <2> SUFFICES ASSUME x.types[ByName] = Bad, ~x.open PROVE IsErr(rule.t)
    OBVIOUS
  <2>1. CASE IsErr(t)
    BY <1>1, <2>1 DEF Gives
  <2>2. CASE ~IsErr(t)
    <3>1. (e.types[ByName] = Bad => e.open) /\ op # "sign" /\ ~e.open
      BY <1>2, <2>2 DEF Judged, Leaves, Spoiler
    <3>2. Alike(t, e.types[ByName]) /\ Std(e.types[ByName]) \notin stds
      BY <1>3, <3>1, LeniencyIs DEF Judged, Paid
    <3> QED
      BY <1>1, <2>2, <3>1, <3>2 DEF Alike, Same, Reports, IsErr, Err, Plain
  <2> QED
    BY <2>1, <2>2
<1>9. Paid(n + c, rule.t, x)
  <2>1. /\ e.mistakes \in Nat /\ e.spoils \in Nat /\ Due(e) \in Nat /\ n <= Due(e)
        /\ Spoils(op, x.open) \in {0, 1}
    BY PaidIsEnough DEF Judged, Target, IsJudged, Due, Count, Spoils
  <2>2. CASE x.types[ByName] # Bad
    <3>1. e.types[ByName] # Bad /\ Std(e.types[ByName]) \in stds /\ x.types[ByName] = e.types[ByName]
      BY <1>3, <2>2, LeniencyIs, BadIsNoType, <1>4
    <3>2. Alike(t, e.types[ByName]) /\ x.mistakes = e.mistakes
      BY <1>2, <2>1, <2>2, <3>1 DEF Judged, Paid, Count
    <3>3. rule = Gives(t)
      BY <1>1, <3>1, <3>2 DEF Same, Alike
    <3>4. Due(x) = Due(e) + Spoils(op, x.open)
      BY <1>2, <2>1, <3>2 DEF Due
    <3> QED
      BY <1>6, <2>1, <2>2, <3>1, <3>2, <3>3, <3>4 DEF Gives, Paid
  <2>3. CASE x.types[ByName] = Bad
    <3>1. rule.semerr /\ ~IsErr(rule.t) => Spoils(op, x.open) = 1
      BY <1>1, <1>8, <2>3 DEF Spoils, Spoiler, Count, Gives, Reports, IsErr, Err, Plain
    <3>2. IsErr(t) => IsErr(rule.t) /\ ~rule.semerr
      BY <1>1 DEF Gives
    <3>3. CASE e.types[ByName] # Bad
      <4>1. Due(x) = Due(e) + 1 + Spoils(op, x.open)
        BY <1>2, <2>1, <2>3, <3>3 DEF Count, Due
      <4>2. Alike(t, e.types[ByName]) /\ Std(e.types[ByName]) \notin stds
        BY <1>3, <2>3, <3>3, LeniencyIs DEF Judged, Paid
      <4>3. rule.semerr \/ IsErr(rule.t)
        BY <1>1, <4>2 DEF Alike, Same, Gives, Reports, IsErr
      <4> QED
        BY <1>6, <2>1, <2>3, <3>1, <4>1, <4>3 DEF Paid
    <3>4. CASE e.types[ByName] = Bad
      <4>1. Due(x) = Due(e) + Spoils(op, x.open)
        BY <1>2, <2>1, <3>4 DEF Count, Due
      <4>2. n < Due(e) \/ (n = Due(e) /\ IsErr(t))
        BY <3>4 DEF Judged, Paid
      <4> QED
        BY <1>6, <2>1, <2>3, <3>1, <3>2, <4>1, <4>2 DEF Paid
    <3> QED
      BY <3>3, <3>4
  <2> QED
    BY <2>2, <2>3
<1>10. rule.t \in Type /\ rule.semerr \in BOOLEAN /\ Judged(n + c, rule.t, x)
  BY <1>2, <1>5, <1>7, <1>8, <1>9 DEF Judged, Target, Silent, Exact, Alike
<1> QED
  BY <1>10 DEF rule, x, c

-----------------------------------------------------------------------------
(* Names and literals.                                                     *)

LEMMA GetTypeType == ASSUME NEW x PROVE get_type(x) \in Type
BY SymbolsAssumption DEF get_type, Type, StdTypes, TYPE_DEFAULT, Plain

LEMMA ParamsType ==
  ASSUME NEW x
  PROVE  /\ params(x) \in Seq(Type)
         /\ Len(params(x)) \in Nat /\ DOMAIN params(x) = 1 .. Len(params(x))
         /\ \A k \in 1 .. Len(params(x)) : params(x)[k] \in Type /\ params(x)[k].fun = 0
<1>1. params(x) \in Seq(Type)
  BY SymbolsAssumption DEF params
<1>2. \A k \in DOMAIN params(x) : params(x)[k].fun = 0
  BY SymbolsAssumption DEF params
<1> QED
  BY <1>1, <1>2

\* What parse_var and parse_factor have for a name.
LEMMA NameRuleIs ==
  ASSUME NEW x
  PROVE  LET rule == NameRule(get_type(x)) IN
         /\ rule.t \in Type /\ rule.semerr \in BOOLEAN
         /\ IsErr(rule.t) <=> ~Known(x)
         /\ rule.semerr => ~Known(x)
         /\ Known(x) => rule.t = get_type(x)
BY GetTypeType DEF NameRule, Known, Gives, Reports, Err, IsErr, Std, Plain, Type, StdTypes

LEMMA CallTypeIs ==
  ASSUME NEW t \in Type
  PROVE  /\ CallType(t) \in Type /\ CallType(t).fun = 0
         /\ Std(CallType(t)) = Std(t) /\ Same(t, CallType(t)) /\ CallType(t) # Bad
BY BadIsNoType DEF CallType, Type, Same, Std, StdTypes

LEMMA NamedJudged ==
  ASSUME NEW x
  PROVE  LET rule == NameRule(get_type(x)) IN
         Judged(Count(rule.semerr), rule.t, Named(x))
<1> DEFINE rule == NameRule(get_type(x))
           types == [but \in Leniency |-> NameType(x, but)]
           e     == Named(x)
<1>1. /\ e.types = types /\ e.mistakes = Count(types[ByName] = Bad) /\ e.spoils = 0
      /\ e.open = (types[ByName] = Bad /\ Known(x))
  BY DEF Named, Judgement
<1>2. /\ e.types[Strict] = IF Known(x) /\ get_type(x).fun # 1 THEN get_type(x) ELSE Bad
      /\ e.types[ByName] = e.types[Strict]
      /\ e.types[Lenient] = IF Known(x) THEN get_type(x) ELSE Bad
  BY <1>1, LeniencyIs DEF NameType, is, Strict, ByName, Lenient
<1>3. /\ rule.t \in Type /\ rule.semerr \in BOOLEAN
      /\ IsErr(rule.t) <=> ~Known(x)
      /\ rule.semerr => ~Known(x)
      /\ Known(x) => rule.t = get_type(x)
  BY NameRuleIs
<1>4. /\ get_type(x) \in Type /\ get_type(x).fun \in {0, 1}
      /\ Alike(get_type(x), get_type(x)) /\ get_type(x) # Bad
  BY GetTypeType, BadIsNoType DEF Type, StdTypes, Alike, Same, Std
<1>5. e.mistakes = Count(e.types[ByName] = Bad) /\ IsJudged(e)
  <2>1. e.mistakes = Count(e.types[ByName] = Bad)
    BY <1>1
  <2>2. e.mistakes \in Nat
    <3> HIDE DEF e
    <3> QED
      BY <2>1 DEF Count
  <2>3. e.spoils \in Nat /\ e.open \in BOOLEAN
    BY <1>1
  <2> QED
    BY <2>1, <2>2, <2>3 DEF IsJudged
<1>6. e.types[ByName] = Bad /\ ~e.open => IsErr(rule.t)
  BY <1>1, <1>3
<1> HIDE DEF rule, e
<1>7. /\ Count(rule.semerr) = 0 /\ ~IsErr(rule.t) => Alike(rule.t, e.types[Lenient])
      /\ e.types[Strict] # Bad => Count(rule.semerr) = 0 /\ Alike(rule.t, e.types[Strict])
  BY <1>2, <1>3, <1>4 DEF Count
<1>8. Paid(Count(rule.semerr), rule.t, e)
  <2>1. e.spoils = 0
    BY <1>1 DEF e
  <2> QED
    BY <1>2, <1>3, <1>4, <1>5, <2>1 DEF Paid, Due, Count
<1>9. Judged(Count(rule.semerr), rule.t, e)
  BY <1>5, <1>7, <1>8, <1>6 DEF Judged, Target, Silent, Exact, Alike
<1> QED
  BY <1>9 DEF rule, e

LEMMA VariableJudged ==
  ASSUME NEW x
  PROVE  LET rule == NameRule(get_type(x)) IN
         Target(Count(rule.semerr), rule.t, Variable(x))
<1> DEFINE rule == NameRule(get_type(x))
           e    == Variable(x)
<1>1. e.types = [but \in Leniency |-> ResultType(x)] /\ e.mistakes \in Nat /\ e.spoils = 0 /\ e.open = FALSE
  BY DEF Variable, Judgement, Count
<1>2. \A but \in Leniency : e.types[but] = IF Known(x) THEN CallType(get_type(x)) ELSE Bad
  BY <1>1 DEF ResultType, is
<1>3. /\ rule.t \in Type /\ rule.semerr \in BOOLEAN
      /\ IsErr(rule.t) <=> ~Known(x)
      /\ rule.semerr => ~Known(x)
      /\ Known(x) => rule.t = get_type(x)
  BY NameRuleIs
<1>4. Same(get_type(x), CallType(get_type(x)))
  BY GetTypeType, CallTypeIs
<1> HIDE DEF rule, e
<1>5. Silent(Count(rule.semerr), rule.t, e)
  BY <1>2, <1>3, <1>4, LeniencyIs DEF Silent
<1>6. Exact(Count(rule.semerr), rule.t, e)
  BY <1>2, <1>3, <1>4, LeniencyIs DEF Exact, Count
<1>7. Target(Count(rule.semerr), rule.t, e)
  BY <1>1, <1>5, <1>6 DEF Target, IsJudged
<1> QED
  BY <1>7 DEF rule, e

LEMMA LiteralJudged ==
  ASSUME NEW std \in Number
  PROVE  Plain(std) \in Type /\ Judged(0, Plain(std), Literally(std))
<1> DEFINE t == Plain(std)
           e == Literally(std)
<1>1. e.mistakes = 0 /\ IsJudged(e) /\ e.spoils = 0 /\ \A but \in Leniency : e.types[but] = t
  BY DEF Literally, Judgement, IsJudged
<1>2. t \in Type /\ t # Bad /\ t.fun = 0 /\ Same(t, t)
  BY DEF Plain, Type, StdTypes, Number, Bad, Same
<1> HIDE DEF t, e
<1>3. t \in Type /\ Judged(0, t, e)
  BY <1>1, <1>2, LeniencyIs DEF Judged, Target, Silent, Exact, Paid, Due, Alike
<1> QED
  BY <1>3 DEF t, e

-----------------------------------------------------------------------------
(* The left of an assignment, and the ends of statements.                  *)

LEMMA VarIndexJudged ==
  ASSUME NEW s \in Type, NEW t \in Type, NEW l, NEW r, NEW n \in Nat, NEW m \in Nat,
         Target(n, s, l), Judged(m, t, r)
  PROVE  LET rule == VarIndexRule(s, t) IN
         /\ rule.t \in Type /\ rule.semerr \in BOOLEAN
         /\ Target(n + m + Count(rule.semerr), rule.t, Binary("index", l, r))
<1> DEFINE rule == VarIndexRule(s, t)
           x    == Binary("index", l, r)
           c    == Count(rule.semerr)
<1>1. /\ IsJudged(x)
      /\ \A but \in Leniency : x.types[but] = BinaryType("index", l.types[but], r.types[but])
  <2>1. IsJudged(l) /\ IsJudged(r)
    BY DEF Judged, Target
  <2> QED
    BY <2>1, BinaryIs
<1>2. \A but \in Leniency : x.types[but] =
        IF Std(l.types[but]) \in Arrays /\ Std(r.types[but]) = "INT" THEN Element(l.types[but]) ELSE Bad
  BY <1>1 DEF BinaryType, is
<1>3. rule = IF Std(s) \in Arrays /\ Std(t) = "INT" THEN Gives(Element(s)) ELSE Reports(Err)
  BY DEF VarIndexRule, Std
<1> HIDE DEF rule, x
<1>4. rule.t \in Type /\ rule.semerr \in BOOLEAN
  BY <1>3 DEF Gives, Reports, Err, Plain, Type, StdTypes, Element
<1>5. c \in {0, 1} /\ (c = 1 <=> rule.semerr)
  BY <1>4 DEF Count
<1> HIDE DEF c
<1>6. Silent(n + m + c, rule.t, x)
  <2> SUFFICES ASSUME n + m + c = 0 PROVE Same(rule.t, x.types[Lenient])
    BY DEF Silent
  <2>1. n = 0 /\ m = 0 /\ ~rule.semerr
    BY <1>5
  <2>2. Std(s) \in Arrays /\ Std(t) = "INT" /\ rule.t = Element(s)
    BY <1>3, <2>1 DEF Gives, Reports
  <2>3. Same(s, l.types[Lenient]) /\ Same(t, r.types[Lenient])
    BY <2>1, <2>2 DEF Judged, Target, Silent, IsErr, Std, Arrays
  <2> QED
    BY <1>2, <2>2, <2>3, LeniencyIs DEF Same, Element, Plain, Std
<1>7. Exact(n + m + c, rule.t, x)
  <2> SUFFICES ASSUME x.types[Strict] # Bad PROVE n + m + c = 0 /\ Same(rule.t, x.types[Strict])
    BY DEF Exact
  <2>1. /\ Std(l.types[Strict]) \in Arrays /\ Std(r.types[Strict]) = "INT"
        /\ x.types[Strict] = Element(l.types[Strict])
    BY <1>2, LeniencyIs
  <2>2. n = 0 /\ m = 0 /\ Same(s, l.types[Strict]) /\ Same(t, r.types[Strict])
    BY <2>1, BadIsNoType DEF Judged, Target, Exact, Arrays
  <2> QED
    BY <1>3, <1>5, <2>1, <2>2 DEF Same, Element, Plain, Std, Gives
<1>8. rule.t \in Type /\ rule.semerr \in BOOLEAN /\ Target(n + m + c, rule.t, x)
  BY <1>1, <1>4, <1>6, <1>7 DEF Target
<1> QED
  BY <1>8 DEF rule, x, c

\* What a statement without reports, and one without mistakes, is.
Verdict(n, x) == /\ n = 0 => x.types[Lenient] # Bad
                 /\ x.types[Strict] # Bad => n = 0

LEMMA AssignmentJudged ==
  ASSUME NEW v \in Type, NEW t \in Type, NEW l, NEW r, NEW n \in Nat, NEW m \in Nat,
         Target(n, v, l), Judged(m, t, r)
  PROVE  Verdict(n + m + Count(AssignFails(v, t)), Binary("assign", l, r))
<1> DEFINE x == Binary("assign", l, r)
           c == Count(AssignFails(v, t))
<1>1. \A but \in Leniency : x.types[but] = BinaryType("assign", l.types[but], r.types[but])
  <2>1. IsJudged(l) /\ IsJudged(r)
    BY DEF Judged, Target
  <2> QED
    BY <2>1, BinaryIs
<1>2. \A but \in Leniency : x.types[but] =
        IF /\ Std(l.types[but]) \in Number /\ Std(r.types[but]) = Std(l.types[but])
           /\ r.types[but].fun = 0
        THEN l.types[but] ELSE Bad
  BY <1>1 DEF BinaryType, is
<1>3. AssignFails(v, t) <=> ~(Std(v) \in Number /\ Std(t) = Std(v) /\ t.fun = 0)
  BY DEF AssignFails, types_equal, Std, Number, Arrays
<1>4. c \in {0, 1} /\ (c = 1 <=> AssignFails(v, t))
  BY DEF Count
<1> HIDE DEF x, c
<1>5. ASSUME n + m + c = 0 PROVE x.types[Lenient] # Bad
  <2>1. n = 0 /\ m = 0 /\ Std(v) \in Number /\ Std(t) = Std(v) /\ t.fun = 0
    BY <1>3, <1>4, <1>5
  <2>2. Same(v, l.types[Lenient]) /\ Same(t, r.types[Lenient]) /\ r.types[Lenient].fun = 0
    BY <2>1 DEF Judged, Target, Silent, IsErr, Std, Number
  <2> QED
    BY <1>2, <2>1, <2>2, LeniencyIs, BadIsNoType DEF Same, Number
<1>6. ASSUME x.types[Strict] # Bad PROVE n + m + c = 0
  <2>1. /\ Std(l.types[Strict]) \in Number /\ Std(r.types[Strict]) = Std(l.types[Strict])
        /\ r.types[Strict].fun = 0
    BY <1>2, <1>6, LeniencyIs
  <2>2. n = 0 /\ m = 0 /\ Same(v, l.types[Strict]) /\ Same(t, r.types[Strict]) /\ t.fun = 0
    BY <2>1, BadIsNoType DEF Judged, Target, Exact, Number
  <2> QED
    BY <1>3, <1>4, <2>1, <2>2 DEF Same
<1> QED
  BY <1>5, <1>6 DEF Verdict, x, c

LEMMA ConditionJudged ==
  ASSUME NEW t \in Type, NEW e, NEW n \in Nat, Judged(n, t, e)
  PROVE  Verdict(n + Count(ConditionFails(t)), Unary("condition", e))
<1> DEFINE x == Unary("condition", e)
           c == Count(ConditionFails(t))
<1>1. \A but \in Leniency : x.types[but] = UnaryType("condition", e.types[but])
  BY UnaryIs DEF Judged, Target
<1>2. \A but \in Leniency : x.types[but] = IF Std(e.types[but]) = "BOOL" THEN e.types[but] ELSE Bad
  BY <1>1 DEF UnaryType, is
<1>3. c \in {0, 1} /\ (c = 0 <=> Std(t) = "BOOL")
  BY DEF Count, ConditionFails, Std
<1> HIDE DEF x, c
<1>4. ASSUME n + c = 0 PROVE x.types[Lenient] # Bad
  BY <1>2, <1>3, <1>4, LeniencyIs, BadIsNoType DEF Judged, Target, Silent, IsErr, Std, Same
<1>5. ASSUME x.types[Strict] # Bad PROVE n + c = 0
  BY <1>2, <1>3, <1>5, LeniencyIs, BadIsNoType DEF Judged, Target, Exact, Std, Same
<1> QED
  BY <1>4, <1>5 DEF Verdict, x, c

-----------------------------------------------------------------------------
(* Calls.                                                                  *)

\* What is claimed of a call judged x up to now, of a name with the type "in":
\* "wrong" says that one of its arguments is, or that the name is undefined.
Calling(n, in, wrong, c, x) ==
  /\ IsJudged(x) /\ x.args \in Nat /\ c \in Nat /\ wrong \in BOOLEAN
  /\ IsErr(in) <=> x.types[ByName] = Bad
  /\ ~IsErr(in) => Same(in, x.types[ByName])
  /\ Silent(n, in, x)
  /\ Exact(n, in, x)
  /\ n <= Due(x) + Count(wrong)
  /\ \A but \in Leniency : x.types[but].fun = 0
  /\ IsErr(in) => wrong
  /\ wrong => x.types[Strict] = Bad /\ (n = 0 => IsErr(in))
  /\ ~wrong => c = x.args /\ c <= Len(params(x.name))

LEMMA CallBegins ==
  ASSUME NEW x
  PROVE  LET rule == NameRule(get_type(x)) IN
         /\ Calling(Count(rule.semerr), rule.t, IsErr(rule.t), 0, Callee(x))
         /\ Callee(x).name = x
<1> DEFINE rule == NameRule(get_type(x))
           e    == Callee(x)
           n    == Count(rule.semerr)
<1>1. /\ e.name = x /\ e.args = 0 /\ e.mistakes = 0 /\ e.spoils = 0 /\ IsJudged(e)
      /\ \A but \in Leniency : e.types[but] = IF Known(x) THEN CallType(get_type(x)) ELSE Bad
  BY DEF Callee, Judgement, IsJudged, ResultType, is
<1>2. /\ rule.t \in Type /\ rule.semerr \in BOOLEAN
      /\ IsErr(rule.t) <=> ~Known(x)
      /\ rule.semerr => ~Known(x)
      /\ Known(x) => rule.t = get_type(x)
  BY NameRuleIs
<1>3. Same(get_type(x), CallType(get_type(x))) /\ CallType(get_type(x)) # Bad
  BY GetTypeType, CallTypeIs
<1>4. n \in {0, 1} /\ (n = 1 <=> rule.semerr)
  BY <1>2 DEF Count
<1>5. Len(params(x)) \in Nat
  BY ParamsType
<1> HIDE DEF rule, e, n
<1>6. Silent(n, rule.t, e) /\ Exact(n, rule.t, e)
  BY <1>1, <1>2, <1>3, <1>4, LeniencyIs DEF Silent, Exact
<1>7. Calling(n, rule.t, IsErr(rule.t), 0, e)
  <2>1. IsErr(rule.t) \in BOOLEAN
    BY DEF IsErr
  <2>2. n <= Due(e) + Count(IsErr(rule.t))
    BY <1>1, <1>2, <1>4 DEF Count, Due
  <2>3. \A but \in Leniency : e.types[but].fun = 0
    BY <1>1, GetTypeType, CallTypeIs DEF Bad, Plain
  <2> QED
    BY <1>1, <1>2, <1>3, <1>4, <1>5, <1>6, <2>1, <2>2, <2>3, LeniencyIs DEF Calling
<1> QED
  BY <1>1, <1>7 DEF rule, e, n

LEMMA ArgumentJudged ==
  ASSUME NEW in \in Type, NEW t \in Type, NEW x, NEW e, NEW n \in Nat, NEW m \in Nat,
         NEW wrong, NEW c, Calling(n, in, wrong, c, x), Judged(m, t, e)
  PROVE  LET rule == ArgumentRule(wrong, c, params(x.name), t) IN
         /\ rule.semerr \in BOOLEAN /\ (rule.semerr => rule.wrong)
         /\ Calling(n + m + Count(rule.semerr), in, rule.wrong, rule.c, Argument(x, e))
<1> DEFINE p    == params(x.name)
           rule == ArgumentRule(wrong, c, p, t)
           y    == Argument(x, e)
           r    == Count(rule.semerr)
           ok   == c + 1 <= Len(p) /\ Same(t, p[c + 1]) /\ t.fun = 0
<1>1. /\ y.name = x.name /\ y.args = x.args + 1 /\ y.mistakes = x.mistakes + e.mistakes
      /\ y.open = FALSE /\ y.spoils = x.spoils + e.spoils
      /\ \A but \in Leniency : y.types[but] =
           IF Takes(x.name, x.args + 1, e.types[but], but) THEN x.types[but] ELSE Bad
  BY DEF Argument, Judgement, is
<1>2. /\ Len(p) \in Nat /\ DOMAIN p = 1 .. Len(p)
      /\ \A k \in 1 .. Len(p) : p[k] \in Type /\ p[k].fun = 0
  BY ParamsType
<1>3. /\ wrong \in BOOLEAN /\ c \in Nat /\ x.args \in Nat
      /\ x.mistakes \in Nat /\ e.mistakes \in Nat /\ x.spoils \in Nat /\ e.spoils \in Nat
  BY DEF Calling, Judged, Target, IsJudged
<1> HIDE DEF p, y
<1>4. rule = IF wrong THEN [wrong |-> TRUE, c |-> 0, semerr |-> FALSE]
             ELSE IF ok THEN [wrong |-> FALSE, c |-> c + 1, semerr |-> FALSE]
             ELSE [wrong |-> TRUE, c |-> 0, semerr |-> TRUE]
  <2>1. Len(p) < c + 1 <=> ~(c + 1 <= Len(p))
    BY <1>2, <1>3
  <2>2. ASSUME c + 1 <= Len(p)
        PROVE  types_equal(p[c + 1], t, 1) <=> Same(t, p[c + 1]) /\ t.fun = 0
    <3>1. p[c + 1] \in Type /\ p[c + 1].fun = 0
      BY <1>2, <1>3, <2>2
    <3> QED
      BY <3>1 DEF types_equal, Same, Std
  <2> QED
    BY <2>1, <2>2 DEF ArgumentRule
<1> HIDE DEF rule
<1>5. /\ rule.semerr \in BOOLEAN /\ rule.wrong \in BOOLEAN /\ rule.c \in Nat
      /\ rule.wrong <=> wrong \/ ~ok
      /\ rule.semerr <=> ~wrong /\ ~ok
      /\ ~rule.wrong => rule.c = c + 1
  BY <1>3, <1>4
<1>6. r \in {0, 1} /\ (r = 1 <=> rule.semerr)
  BY <1>5 DEF Count
<1> HIDE DEF r
<1>7. IsJudged(y) /\ y.args \in Nat
  BY <1>1, <1>3 DEF IsJudged
<1>8. ~wrong => x.args = c /\ c <= Len(p)
  BY DEF Calling, p
<1>9. y.types[ByName] = x.types[ByName]
  BY <1>1, LeniencyIs DEF Takes, ByName
<1>10. y.types[Strict] # Bad =>
         /\ x.types[Strict] # Bad /\ y.types[Strict] = x.types[Strict]
         /\ x.args + 1 \in 1 .. Len(p) /\ Same(e.types[Strict], p[x.args + 1])
         /\ e.types[Strict].fun = 0
  BY <1>1, <1>2, LeniencyIs DEF Takes, Strict, p
<1>11. y.types[Strict] # Bad => ~wrong /\ ok /\ n = 0 /\ m = 0
  <2> SUFFICES ASSUME y.types[Strict] # Bad PROVE ~wrong /\ ok /\ n = 0 /\ m = 0
    OBVIOUS
  <2>1. ~wrong /\ n = 0
    BY <1>3, <1>10 DEF Calling, Exact
  <2>2. p[x.args + 1] \in Type
    BY <1>2, <1>10
  <2>3. e.types[Strict] # Bad
    BY <1>10, <2>2, BadIsNoType DEF Same, Std, Type, StdTypes
  <2>4. m = 0 /\ Same(t, e.types[Strict]) /\ t.fun = 0
    BY <1>10, <2>3 DEF Judged, Target, Exact
  <2>5. Same(t, p[x.args + 1])
    BY <1>10, <2>4 DEF Same
  <2> QED
    BY <1>2, <1>3, <1>8, <1>10, <2>1, <2>4, <2>5
<1>12. Silent(n + m + r, in, y)
  <2> SUFFICES ASSUME n + m + r = 0, ~IsErr(in) PROVE Same(in, y.types[Lenient])
    BY DEF Silent
  <2>1. n = 0 /\ m = 0 /\ ~rule.semerr
    BY <1>6
  <2>2. ~wrong /\ ok /\ x.args = c
    BY <1>5, <1>8, <2>1 DEF Calling
  <2>3. c + 1 \in 1 .. Len(p)
    BY <1>2, <1>3, <2>2
  <2>4. IsErr(p[c + 1]) \/ (Same(e.types[Lenient], p[c + 1]) /\ e.types[Lenient].fun = 0)
    <3>1. IsErr(t) \/ (Same(t, e.types[Lenient]) /\ t.fun = e.types[Lenient].fun)
      BY <2>1 DEF Judged, Target, Silent
    <3> QED
      BY <2>2, <3>1 DEF Same, IsErr, Std
  <2>5. Takes(x.name, x.args + 1, e.types[Lenient], Lenient)
    BY <1>2, <2>2, <2>3, <2>4 DEF Takes, Lenient, p
  <2>6. Same(in, x.types[Lenient])
    BY <2>1 DEF Calling, Silent
  <2> QED
    BY <1>1, <2>5, <2>6, LeniencyIs
<1>13. Exact(n + m + r, in, y)
  <2> SUFFICES ASSUME y.types[Strict] # Bad PROVE n + m + r = 0 /\ Same(in, y.types[Strict])
    BY DEF Exact
  <2> QED
    BY <1>5, <1>6, <1>10, <1>11 DEF Calling, Exact
<1>14. n + m + r <= Due(y) + Count(rule.wrong)
  <2>1. n <= Due(x) + Count(wrong) /\ m <= Due(e)
    BY PaidIsEnough DEF Calling, Judged, Target
  <2>2. Due(y) = Due(x) + Due(e) /\ Due(x) \in Nat /\ Due(e) \in Nat
    BY <1>1, <1>3 DEF Due
  <2> QED
    BY <1>3, <1>5, <1>6, <2>1, <2>2 DEF Count
<1>15. rule.wrong => y.types[Strict] = Bad /\ (n + m + r = 0 => IsErr(in))
  <2>1. wrong /\ n = 0 => IsErr(in)
    BY DEF Calling
  <2> QED
    BY <1>5, <1>6, <1>11, <2>1
<1>16. ~rule.wrong => rule.c = y.args /\ rule.c <= Len(params(y.name))
  BY <1>1, <1>5, <1>8 DEF p
<1>17. /\ IsErr(in) <=> y.types[ByName] = Bad
       /\ ~IsErr(in) => Same(in, y.types[ByName])
       /\ IsErr(in) => rule.wrong
       /\ \A but \in Leniency : y.types[but].fun = 0
  BY <1>1, <1>5, <1>9 DEF Calling, Bad, Plain
<1>18. /\ rule.semerr \in BOOLEAN /\ (rule.semerr => rule.wrong)
       /\ Calling(n + m + r, in, rule.wrong, rule.c, y)
  BY <1>5, <1>7, <1>12, <1>13, <1>14, <1>15, <1>16, <1>17 DEF Calling
<1> QED
  BY <1>18 DEF p, rule, y, r

LEMMA CallJudged ==
  ASSUME NEW in \in Type, NEW x, NEW n \in Nat, NEW wrong, NEW c, Calling(n, in, wrong, c, x)
  PROVE  /\ CallType(in) \in Type
         /\ Judged(n + Count(TooFew(wrong, c, params(x.name))), CallType(in), Complete(x))
<1> DEFINE p == params(x.name)
           y == Complete(x)
           r == Count(TooFew(wrong, c, p))
           t == CallType(in)
<1>1. /\ y.mistakes = x.mistakes + Count(y.types[ByName] = Bad \/ y.types[Strict] = Bad)
      /\ y.open = FALSE /\ y.spoils = x.spoils
      /\ \A but \in Leniency : y.types[but] =
           IF "call" \in but \/ x.args = Len(p) THEN x.types[but] ELSE Bad
  BY LeniencyIs DEF Complete, Judgement, is
<1>2. Len(p) \in Nat
  BY ParamsType
<1>3. wrong \in BOOLEAN /\ c \in Nat /\ x.args \in Nat /\ x.mistakes \in Nat /\ x.spoils \in Nat
  BY DEF Calling, IsJudged
<1>4. t \in Type /\ t.fun = 0 /\ (IsErr(t) <=> IsErr(in)) /\ \A a : Same(in, a) <=> Same(t, a)
  BY DEF CallType, Type, Same, Std, IsErr
<1>5. ~wrong => c = x.args /\ c <= Len(p)
  BY DEF Calling
<1>6. r \in {0, 1} /\ (r = 1 <=> ~wrong /\ c < Len(p))
  BY <1>2, <1>3 DEF TooFew, Count
<1> HIDE DEF p, y, r, t
<1>7. y.types[ByName] = x.types[ByName]
  BY <1>1, LeniencyIs DEF ByName
<1>8. /\ y.types[Strict] = IF x.args = Len(p) THEN x.types[Strict] ELSE Bad
      /\ y.types[Lenient] = IF x.args = Len(p) THEN x.types[Lenient] ELSE Bad
  BY <1>1, LeniencyIs DEF Strict, Lenient
<1>9. IsJudged(y)
  BY <1>1, <1>3 DEF IsJudged, Count
<1>10. Silent(n + r, t, y)
  <2> SUFFICES ASSUME n + r = 0, ~IsErr(t) PROVE Same(t, y.types[Lenient])
    BY DEF Silent
  <2>1. n = 0 /\ r = 0 /\ ~IsErr(in)
    BY <1>4, <1>6
  <2>2. ~wrong /\ Same(in, x.types[Lenient])
    BY <2>1 DEF Calling, Silent
  <2> QED
    BY <1>2, <1>3, <1>4, <1>5, <1>6, <1>8, <2>1, <2>2
<1>11. Exact(n + r, t, y)
  <2> SUFFICES ASSUME y.types[Strict] # Bad PROVE n + r = 0 /\ Same(t, y.types[Strict])
    BY DEF Exact
  <2>1. x.args = Len(p) /\ x.types[Strict] # Bad /\ y.types[Strict] = x.types[Strict]
    BY <1>8
  <2>2. ~wrong /\ n = 0 /\ Same(in, x.types[Strict])
    BY <1>3, <2>1 DEF Calling, Exact
  <2> QED
    BY <1>2, <1>3, <1>4, <1>5, <1>6, <2>1, <2>2
<1>12. Paid(n + r, t, y)
  <2>1. n <= Due(x) + Count(wrong)
    BY DEF Calling
  <2>2. wrong \/ r = 1 => y.types[Strict] = Bad
    BY <1>2, <1>3, <1>5, <1>6, <1>8 DEF Calling
  <2>3. n + r <= Due(y)
    BY <1>1, <1>3, <1>6, <2>1, <2>2 DEF Count, Due
  <2>4. /\ y.types[ByName] = Bad => IsErr(t)
        /\ y.types[ByName] # Bad => Alike(t, y.types[ByName])
    BY <1>4, <1>7, LeniencyIs DEF Calling, Alike
  <2>5. Due(y) \in Nat
    BY <1>9 DEF IsJudged, Due
  <2> QED
    BY <1>6, <2>3, <2>4, <2>5 DEF Paid
<1>13. /\ \A but \in Leniency : y.types[but].fun = 0
       /\ y.types[ByName] = Bad => IsErr(t)
  BY <1>1, <1>4, <1>7 DEF Calling, Bad, Plain
<1>14. t \in Type /\ Judged(n + r, t, y)
  BY <1>4, <1>9, <1>10, <1>11, <1>12, <1>13, LeniencyIs DEF Judged, Target
<1> QED
  BY <1>14 DEF p, y, r, t

-----------------------------------------------------------------------------
(* The invariant.                                                          *)

Judgements ==
  [name : Name \cup {""}, args : Nat, types : [Leniency -> Type \cup {Bad}],
   mistakes : Nat, open : BOOLEAN, spoils : Nat]

Bottom   == {"assign", "var_", "condition"}
Inner    == {"mulop", "addop", "relop", "index", "call", "sign", "not", "parenthesis"}
Operator == {"", "*", "and", "+", "or", "<"}

Frames ==
  [at : Bottom \cup Inner, in : Type, op : Operator, c : Nat, wrong : BOOLEAN,
   left : Judgements, reports : Nat]

Starts   == {"statement", "var_", "end"}
Parsed   == {"factor end", "term_", "simple_expr_", "expr end"}

TypingTypeOK ==
  /\ pc \in Starts \cup Parsed \cup {"simple_expr", "factor", "factor_"}
  /\ attr \in Type
  /\ stack \in Seq(Frames)
  /\ semerrs \in Nat
  /\ tokens \in 0 .. MaxTokens
  /\ expr \in Judgements

\* What holds of a waiting procedure, when n reports were made in the part of
\* the expression that it has parsed.
Waiting(f, n) ==
  /\ f.at = "mulop" => f.op \in {"*", "and"}
  /\ f.at = "addop" => f.op \in {"+", "or"}
  /\ f.at = "relop" => f.op = "<"
  /\ f.at \in {"mulop", "addop", "relop", "index"} => Judged(n, f.in, f.left)
  /\ f.at \in {"assign", "var_"} => Target(n, f.in, f.left)
  /\ f.at = "call" => Calling(n, f.in, f.wrong, f.c, f.left)
  /\ f.at \in {"sign", "not", "parenthesis", "condition"} => n = 0

\* The reports before the k-th procedure, and those before what is parsed now.
Before(k) == IF k = 0 THEN 0 ELSE stack[k].reports
Reported  == Before(Len(stack))

StackIsRight ==
  \A k \in 1 .. Len(stack) :
    /\ Before(k - 1) <= stack[k].reports
    /\ Waiting(stack[k], stack[k].reports - Before(k - 1))
    /\ stack[k].at \in Bottom <=> k = 1

\* What holds of the expression that is parsed now.
ExprIsRight ==
  /\ Reported <= semerrs
  /\ pc \in Starts <=> stack = <<>>
  /\ pc = "statement" => semerrs = 0
  /\ pc = "var_" => Target(semerrs, attr, expr)
  /\ pc \in {"simple_expr", "factor"} => semerrs = Reported
  /\ pc = "factor_" =>
       LET rule == NameRule(get_type(expr.name)) IN
       /\ expr = Named(expr.name) /\ attr = rule.t
       /\ semerrs = Reported + Count(rule.semerr)
  /\ pc \in Parsed => Judged(semerrs - Reported, attr, expr)
  /\ pc = "end" => Verdict(semerrs, expr)

TypingInvariant == TypingTypeOK /\ StackIsRight /\ ExprIsRight

-----------------------------------------------------------------------------
(* Judgements and frames.                                                  *)

LEMMA BinaryTypeIs ==
  ASSUME NEW op \in BinaryOp \cup {"assign"}, NEW a \in Type \cup {Bad}, NEW b
  PROVE  BinaryType(op, a, b) \in Type \cup {Bad}
<1>1. Plain("BOOL") \in Type /\ Plain("INT") \in Type /\ Element(a) \in Type
  BY DEF Plain, Element, Type, StdTypes
<1> QED
  BY <1>1 DEF BinaryType, is, BinaryOp

LEMMA UnaryTypeIs ==
  ASSUME NEW op \in {"sign", "not", "condition"}, NEW a \in Type \cup {Bad}
  PROVE  UnaryType(op, a) \in Type \cup {Bad}
BY DEF UnaryType, is

LEMMA JudgementIs ==
  ASSUME NEW name \in Name \cup {""}, NEW args \in Nat, NEW types \in [Leniency -> Type \cup {Bad}],
         NEW mistakes \in Nat, NEW open \in BOOLEAN, NEW spoils \in Nat
  PROVE  Judgement(name, args, types, mistakes, open, spoils) \in Judgements
BY DEF Judgement, Judgements

LEMMA JudgementHas ==
  ASSUME NEW e \in Judgements
  PROVE  /\ e.name \in Name \cup {""} /\ e.args \in Nat
         /\ e.mistakes \in Nat /\ e.open \in BOOLEAN /\ e.spoils \in Nat
         /\ e.types \in [Leniency -> Type \cup {Bad}] /\ IsJudged(e)
BY DEF Judgements, IsJudged

LEMMA NamesAreJudgements ==
  ASSUME NEW x \in Name \cup {""}
  PROVE  Named(x) \in Judgements /\ Variable(x) \in Judgements /\ Callee(x) \in Judgements
         /\ Named(x).name = x
<1>1. CallType(get_type(x)) \in Type
  BY GetTypeType, CallTypeIs
<1>2. \A but : NameType(x, but) \in Type \cup {Bad}
  BY GetTypeType DEF NameType, is
<1>3. ResultType(x) \in Type \cup {Bad}
  BY <1>1 DEF ResultType, is
<1>4. Named(x) \in Judgements
  <2> DEFINE types == [but \in Leniency |-> NameType(x, but)]
  <2>1. types \in [Leniency -> Type \cup {Bad}]
    BY <1>2
  <2> HIDE DEF types
  <2>2. Count(types[ByName] = Bad) \in Nat /\ (types[ByName] = Bad /\ Known(x)) \in BOOLEAN
    BY DEF Count
  <2>3. Judgement(x, 0, types, Count(types[ByName] = Bad), types[ByName] = Bad /\ Known(x), 0)
          \in Judgements
    BY <2>1, <2>2, JudgementIs
  <2> QED
    BY <2>3 DEF Named, types
<1>5. Variable(x) \in Judgements
  <2> DEFINE types == [but \in Leniency |-> ResultType(x)]
  <2>1. types \in [Leniency -> Type \cup {Bad}]
    BY <1>3
  <2> HIDE DEF types
  <2>2. Count(types[ByName] = Bad) \in Nat
    BY DEF Count
  <2>3. Judgement(x, 0, types, Count(types[ByName] = Bad), FALSE, 0) \in Judgements
    BY <2>1, <2>2, JudgementIs
  <2> QED
    BY <2>3 DEF Variable, types
<1>6. Callee(x) \in Judgements
  <2> DEFINE types == [but \in Leniency |-> ResultType(x)]
  <2>1. types \in [Leniency -> Type \cup {Bad}]
    BY <1>3
  <2> HIDE DEF types
  <2>2. Judgement(x, 0, types, 0, FALSE, 0) \in Judgements
    BY <2>1, JudgementIs
  <2> QED
    BY <2>2 DEF Callee, types
<1> QED
  BY <1>4, <1>5, <1>6 DEF Named, Judgement

LEMMA LeavesAreJudgements ==
  None \in Judgements /\ \A std \in Number : Literally(std) \in Judgements
<1>1. [but \in Leniency |-> Bad] \in [Leniency -> Type \cup {Bad}]
  OBVIOUS
<1>2. ASSUME NEW std \in Number PROVE [but \in Leniency |-> Plain(std)] \in [Leniency -> Type \cup {Bad}]
  BY LiteralJudged
<1> QED
  BY <1>1, <1>2, JudgementIs DEF None, Literally

LEMMA UnaryIsJudgement ==
  ASSUME NEW op \in {"sign", "not", "condition"}, NEW e \in Judgements
  PROVE  Unary(op, e) \in Judgements
<1> DEFINE types == [but \in Leniency |-> UnaryType(op, e.types[but])]
<1>1. types \in [Leniency -> Type \cup {Bad}]
  BY UnaryTypeIs DEF Judgements
<1> HIDE DEF types
<1>2. e.mistakes + Count(types[ByName] = Bad /\ e.types[ByName] # Bad) \in Nat
  <2>1. e.mistakes \in Nat
    BY JudgementHas
  <2> QED
    BY <2>1 DEF Count
<1> DEFINE open == Leaves(op, types, {e})
<1>3. open \in BOOLEAN /\ e.spoils + Spoils(op, open) \in Nat
  <2>1. open \in BOOLEAN
    BY DEF Leaves
  <2> HIDE DEF open
  <2>2. e.spoils \in Nat
    BY JudgementHas
  <2> QED
    BY <2>1, <2>2 DEF Spoils, Count
<1> HIDE DEF open
<1>4. Judgement("", 0, types, e.mistakes + Count(types[ByName] = Bad /\ e.types[ByName] # Bad),
                open, e.spoils + Spoils(op, open)) \in Judgements
  BY <1>1, <1>2, <1>3, JudgementIs
<1> QED
  BY <1>4 DEF Unary, types, open

LEMMA BinaryIsJudgement ==
  ASSUME NEW op \in BinaryOp \cup {"assign"}, NEW l \in Judgements, NEW r \in Judgements
  PROVE  Binary(op, l, r) \in Judgements
<1> DEFINE types == [but \in Leniency |-> BinaryType(op, l.types[but], r.types[but])]
           count == Count(types[ByName] = Bad /\ l.types[ByName] # Bad /\ r.types[ByName] # Bad)
<1>1. types \in [Leniency -> Type \cup {Bad}]
  BY BinaryTypeIs DEF Judgements
<1> HIDE DEF types
<1>2. l.mistakes + r.mistakes + count \in Nat
  <2>1. l.mistakes \in Nat /\ r.mistakes \in Nat
    BY JudgementHas
  <2> QED
    BY <2>1 DEF Count
<1> DEFINE open == Leaves(op, types, {l, r})
<1>3. open \in BOOLEAN /\ l.spoils + r.spoils + Spoils(op, open) \in Nat
  <2>1. open \in BOOLEAN
    BY DEF Leaves
  <2> HIDE DEF open
  <2>2. l.spoils \in Nat /\ r.spoils \in Nat
    BY JudgementHas
  <2> QED
    BY <2>1, <2>2 DEF Spoils, Count
<1> HIDE DEF open
<1>4. Judgement("", 0, types, l.mistakes + r.mistakes + count,
                open, l.spoils + r.spoils + Spoils(op, open)) \in Judgements
  BY <1>1, <1>2, <1>3, JudgementIs
<1> QED
  BY <1>4 DEF Binary, types, open

LEMMA CallsAreJudgements ==
  ASSUME NEW call \in Judgements, NEW e \in Judgements
  PROVE  Argument(call, e) \in Judgements /\ Complete(call) \in Judgements
<1>1. Argument(call, e) \in Judgements
  <2> DEFINE types == [but \in Leniency |->
                        is(Takes(call.name, call.args + 1, e.types[but], but), call.types[but])]
  <2>1. types \in [Leniency -> Type \cup {Bad}]
    BY DEF Judgements, is
  <2> HIDE DEF types
  <2>2. /\ call.name \in Name \cup {""} /\ call.args \in Nat
        /\ call.mistakes \in Nat /\ e.mistakes \in Nat /\ call.spoils \in Nat /\ e.spoils \in Nat
    BY JudgementHas
  <2> DEFINE args == call.args + 1
             mistakes == call.mistakes + e.mistakes
             spoils == call.spoils + e.spoils
  <2>3. args \in Nat /\ mistakes \in Nat /\ spoils \in Nat
    <3>1. \A i, j \in Nat : i + j \in Nat /\ i + 1 \in Nat
      OBVIOUS
    <3> QED
      BY <2>2, <3>1
  <2> HIDE DEF args, mistakes, spoils
  <2>4. Judgement(call.name, args, types, mistakes, FALSE, spoils) \in Judgements
    BY <2>1, <2>2, <2>3, JudgementIs
  <2> QED
    BY <2>4, Zenon DEF Argument, types, args, mistakes, spoils
<1>2. Complete(call) \in Judgements
  <2> DEFINE types == [but \in Leniency |->
                        is("call" \in but \/ call.args = Len(params(call.name)), call.types[but])]
  <2>1. types \in [Leniency -> Type \cup {Bad}]
    BY DEF Judgements, is
  <2> HIDE DEF types
  <2>2. call.mistakes + Count(types[ByName] = Bad \/ types[Strict] = Bad) \in Nat
    <3>1. call.mistakes \in Nat
      BY JudgementHas
    <3> QED
      BY <3>1 DEF Count
  <2>3. Judgement("", 0, types, call.mistakes + Count(types[ByName] = Bad \/ types[Strict] = Bad),
                  FALSE, call.spoils) \in Judgements
    BY <2>1, <2>2, JudgementHas, JudgementIs
  <2> QED
    BY <2>3 DEF Complete, types
<1> QED
  BY <1>1, <1>2

LEMMA FrameIs ==
  ASSUME semerrs \in Nat, NEW at \in Bottom \cup Inner, NEW in \in Type, NEW op \in Operator,
         NEW left \in Judgements
  PROVE  /\ Frame(at, in, op, left) \in Frames
         /\ Frame(at, in, op, left) =
              [at |-> at, in |-> in, op |-> op, c |-> 0, wrong |-> FALSE, left |-> left, reports |-> semerrs]
BY DEF Frame, Frames

-----------------------------------------------------------------------------
(* The stack.                                                              *)

LEMMA StackIsPushed ==
  ASSUME stack \in Seq(Frames), StackIsRight, semerrs \in Nat, Reported <= semerrs,
         NEW f \in Frames, f.reports = semerrs, Push(f), Waiting(f, semerrs - Reported),
         f.at \in Bottom <=> stack = <<>>
  PROVE  /\ stack' \in Seq(Frames) /\ stack' # <<>>
         /\ StackIsRight' /\ Reported' = semerrs
<1>1. /\ Len(stack) \in Nat /\ stack' = Append(stack, f)
      /\ stack' \in Seq(Frames) /\ Len(stack') = Len(stack) + 1
      /\ \A k \in 1 .. Len(stack) : stack'[k] = stack[k]
      /\ stack'[Len(stack) + 1] = f
  BY DEF Push
<1>2. stack = <<>> <=> Len(stack) = 0
  BY EmptySeq
<1>3. \A k \in 0 .. Len(stack) : Before(k)' = Before(k)
  BY <1>1 DEF Before
<1>4. Reported' = semerrs /\ stack' # <<>>
  BY <1>1 DEF Reported, Before
<1>5. ASSUME NEW k \in 1 .. Len(stack')
      PROVE  /\ Before(k - 1)' <= stack'[k].reports
             /\ Waiting(stack'[k], stack'[k].reports - Before(k - 1)')
             /\ stack'[k].at \in Bottom <=> k = 1
  <2>1. CASE k <= Len(stack)
    <3>1. k \in 1 .. Len(stack) /\ k - 1 \in 0 .. Len(stack)
      BY <1>1, <2>1
    <3>2. stack'[k] = stack[k] /\ Before(k - 1)' = Before(k - 1)
      BY <1>1, <1>3, <3>1
    <3> QED
      BY <3>1, <3>2 DEF StackIsRight
  <2>2. CASE k = Len(stack) + 1
    <3>1. stack'[k] = f /\ Before(k - 1)' = Reported
      BY <1>1, <1>3, <2>2 DEF Reported
    <3> QED
      BY <1>1, <1>2, <2>2, <3>1
  <2> QED
    BY <1>1, <2>1, <2>2
<1> QED
  BY <1>1, <1>4, <1>5 DEF StackIsRight, Waiting

LEMMA StackIsPopped ==
  ASSUME stack \in Seq(Frames), StackIsRight, stack # <<>>, Pop
  PROVE  /\ stack' \in Seq(Frames)
         /\ stack' = <<>> <=> Top.at \in Bottom
         /\ StackIsRight'
         /\ Top \in Frames /\ Reported = Top.reports
         /\ Reported' \in Nat /\ Reported' <= Top.reports
         /\ Waiting(Top, Top.reports - Reported')
         /\ Top.at \in Bottom => Reported' = 0
<1>1. Len(stack) \in Nat /\ Len(stack) # 0 /\ Len(stack) - 1 \in Nat /\ Len(stack) \in 1 .. Len(stack)
  BY EmptySeq
<1>2. /\ stack' \in Seq(Frames) /\ Len(stack') = Len(stack) - 1
      /\ \A k \in 1 .. Len(stack) - 1 : stack'[k] = stack[k]
  <2>1. \A k \in 1 .. Len(stack) - 1 : stack[k] \in Frames
    BY <1>1, ElementOfSeq
  <2> DEFINE n == Len(stack) - 1
  <2>2. n \in Nat
    BY <1>1
  <2> HIDE DEF n
  <2>3. /\ SubSeq(stack, 1, n) \in Seq(Frames)
        /\ Len(SubSeq(stack, 1, n)) = n
        /\ \A k \in 1 .. n : SubSeq(stack, 1, n)[k] = stack[k]
    <3>1. \A k \in 1 .. n : stack[k] \in Frames
      BY <2>1 DEF n
    <3>2. /\ SubSeq(stack, 1, n) \in Seq(Frames)
          /\ Len(SubSeq(stack, 1, n)) = IF 1 <= n THEN n - 1 + 1 ELSE 0
          /\ \A k \in 1 .. n - 1 + 1 : SubSeq(stack, 1, n)[k] = stack[1 + k - 1]
      BY <2>2, <3>1, SubSeqProperties
    <3>3. n - 1 + 1 = n /\ (IF 1 <= n THEN n - 1 + 1 ELSE 0) = n /\ \A k \in 1 .. n : 1 + k - 1 = k
      BY <2>2
    <3> QED
      BY <3>2, <3>3
  <2> QED
    BY <2>3 DEF Pop, n
<1>3. stack' = <<>> <=> Len(stack') = 0
  BY <1>2, EmptySeq
<1>4. /\ Top \in Frames /\ Top = stack[Len(stack)] /\ Reported = Top.reports
      /\ \A k \in 1 .. Len(stack) : stack[k] \in Frames
  BY <1>1, ElementOfSeq DEF Top, Reported, Before
<1>5. \A k \in 0 .. Len(stack) - 1 : Before(k)' = Before(k) /\ Before(k) \in Nat
  <2> SUFFICES ASSUME NEW k \in 0 .. Len(stack) - 1 PROVE Before(k)' = Before(k) /\ Before(k) \in Nat
    OBVIOUS
  <2>1. CASE k = 0
    BY <2>1 DEF Before
  <2>2. CASE k # 0
    <3>1. k \in 1 .. Len(stack) - 1 /\ k \in 1 .. Len(stack)
      BY <1>1, <2>2
    <3>2. stack'[k] = stack[k] /\ stack[k].reports \in Nat
      BY <1>2, <1>4, <3>1 DEF Frames
    <3> QED
      BY <2>2, <3>2 DEF Before
  <2> QED
    BY <2>1, <2>2
<1>6. Reported' = Before(Len(stack) - 1)
  BY <1>1, <1>2, <1>5 DEF Reported
<1>7. /\ Before(Len(stack) - 1) <= Top.reports
      /\ Waiting(Top, Top.reports - Before(Len(stack) - 1))
      /\ Top.at \in Bottom <=> Len(stack) = 1
  BY <1>1, <1>4 DEF StackIsRight
<1>8. \A k \in 1 .. Len(stack') :
        /\ Before(k - 1)' <= stack'[k].reports
        /\ Waiting(stack'[k], stack'[k].reports - Before(k - 1)')
        /\ stack'[k].at \in Bottom <=> k = 1
  <2> TAKE k \in 1 .. Len(stack')
  <2>1. k \in 1 .. Len(stack) /\ stack'[k] = stack[k] /\ Before(k - 1)' = Before(k - 1)
    BY <1>1, <1>2, <1>5
  <2> QED
    BY <2>1 DEF StackIsRight
<1> QED
  BY <1>1, <1>2, <1>3, <1>4, <1>5, <1>6, <1>7, <1>8 DEF StackIsRight, Before

LEMMA StackIsReplaced ==
  ASSUME stack \in Seq(Frames), StackIsRight, stack # <<>>,
         NEW f \in Frames, Replace(f), Top.reports <= f.reports,
         Top.at \in Bottom <=> f.at \in Bottom,
         \A before \in Nat : before <= Top.reports /\ Waiting(Top, Top.reports - before)
                                => Waiting(f, f.reports - before)
  PROVE  /\ stack' \in Seq(Frames) /\ stack' # <<>>
         /\ StackIsRight' /\ Reported' = f.reports
<1>1. Len(stack) \in Nat /\ Len(stack) # 0 /\ Len(stack) \in 1 .. Len(stack)
  BY EmptySeq
<1>2. /\ stack' \in Seq(Frames) /\ Len(stack') = Len(stack) /\ stack'[Len(stack)] = f
      /\ \A k \in 1 .. Len(stack) : k # Len(stack) => stack'[k] = stack[k]
  BY <1>1 DEF Replace
<1>3. Top = stack[Len(stack)] /\ \A k \in 1 .. Len(stack) : stack[k] \in Frames
  BY <1>1, ElementOfSeq DEF Top
<1>4. \A k \in 0 .. Len(stack) - 1 : Before(k)' = Before(k)
  <2> SUFFICES ASSUME NEW k \in 0 .. Len(stack) - 1 PROVE Before(k)' = Before(k)
    OBVIOUS
  <2>1. (k \in 1 .. Len(stack) /\ k # Len(stack)) \/ k = 0
    BY <1>1
  <2> QED
    BY <1>2, <2>1 DEF Before
<1>5. Reported' = f.reports /\ stack' # <<>>
  <2>1. stack' # <<>>
    BY <1>1, <1>2, EmptySeq
  <2> QED
    BY <1>1, <1>2, <2>1 DEF Reported, Before
<1>6. ASSUME NEW k \in 1 .. Len(stack')
      PROVE  /\ Before(k - 1)' <= stack'[k].reports
             /\ Waiting(stack'[k], stack'[k].reports - Before(k - 1)')
             /\ stack'[k].at \in Bottom <=> k = 1
  <2>1. k \in 1 .. Len(stack) /\ k - 1 \in 0 .. Len(stack) - 1 /\ Before(k - 1)' = Before(k - 1)
    BY <1>1, <1>2, <1>4
  <2>2. /\ Before(k - 1) <= stack[k].reports
        /\ Waiting(stack[k], stack[k].reports - Before(k - 1))
        /\ stack[k].at \in Bottom <=> k = 1
    BY <2>1 DEF StackIsRight
  <2>3. CASE k # Len(stack)
    BY <1>2, <2>1, <2>2, <2>3
  <2>4. CASE k = Len(stack)
    <3>1. stack'[k] = f /\ stack[k] = Top
      BY <1>2, <1>3, <2>4
    <3>2. Before(k - 1) \in Nat
      <4>1. k - 1 = 0 \/ k - 1 \in 1 .. Len(stack)
        BY <2>1
      <4>2. \A i \in 1 .. Len(stack) : stack[i].reports \in Nat
        BY <1>3 DEF Frames
      <4> QED
        BY <4>1, <4>2 DEF Before
    <3>3. Top.reports \in Nat /\ f.reports \in Nat
      BY <1>1, <1>3 DEF Frames
    <3>4. Before(k - 1) <= Top.reports /\ Waiting(Top, Top.reports - Before(k - 1))
      BY <2>2, <3>1
    <3>5. Waiting(f, f.reports - Before(k - 1)) /\ Before(k - 1) <= f.reports
      <4>1. Waiting(f, f.reports - Before(k - 1))
        BY <3>2, <3>4
      <4>2. Before(k - 1) <= f.reports
        BY <3>2, <3>3, <3>4
      <4> QED
        BY <4>1, <4>2
    <3> QED
      BY <2>1, <2>2, <3>1, <3>5
  <2> QED
    BY <2>3, <2>4
<1> QED
  BY <1>2, <1>5, <1>6 DEF StackIsRight, Waiting

LEMMA StackStays ==
  ASSUME stack' = stack
  PROVE  Reported' = Reported /\ (StackIsRight => StackIsRight')
BY DEF Reported, Before, StackIsRight, Waiting

-----------------------------------------------------------------------------
(* Steps: a procedure begins to wait, or an operand returns to one.        *)

LEMMA ReportedIs ==
  ASSUME TypingTypeOK
  PROVE  /\ Reported \in Nat
         /\ stack # <<>> => Top \in Frames /\ Reported = Top.reports
         /\ stack = <<>> => Reported = 0
<1>1. stack # <<>> => Len(stack) \in Nat /\ Len(stack) # 0 /\ Len(stack) \in 1 .. Len(stack)
  BY EmptySeq DEF TypingTypeOK
<1>2. stack # <<>> => Top \in Frames /\ Top = stack[Len(stack)]
  BY <1>1, ElementOfSeq DEF TypingTypeOK, Top
<1>3. stack # <<>> => Top.reports \in Nat
  BY <1>2 DEF Frames
<1> QED
  BY <1>1, <1>2, <1>3 DEF Reported, Before

LEMMA BeginsToWait ==
  ASSUME TypingInvariant, NEW f \in Frames, f.reports = semerrs, Push(f),
         Waiting(f, semerrs - Reported), f.at \in Bottom <=> stack = <<>>,
         pc' \in {"simple_expr", "factor"}, UNCHANGED <<attr, semerrs, expr>>,
         tokens' \in 0 .. MaxTokens
  PROVE  TypingInvariant'
<1>1. stack' \in Seq(Frames) /\ stack' # <<>> /\ StackIsRight' /\ Reported' = semerrs
  BY StackIsPushed DEF TypingInvariant, TypingTypeOK, ExprIsRight
<1>2. TypingTypeOK'
  BY <1>1 DEF TypingInvariant, TypingTypeOK
<1>3. semerrs' = Reported' /\ Reported' <= semerrs'
  BY <1>1 DEF TypingInvariant, TypingTypeOK
<1>4. pc' \notin Starts \cup Parsed /\ pc' \notin {"statement", "var_", "factor_", "end"}
  BY DEF Starts, Parsed
<1>5. ExprIsRight'
  BY <1>1, <1>3, <1>4 DEF ExprIsRight
<1> QED
  BY <1>1, <1>2, <1>5 DEF TypingInvariant

LEMMA OperandReturns ==
  ASSUME TypingInvariant, stack # <<>>, Top.at \notin Bottom, Pop, pc \in Parsed, pc' \in Parsed,
         attr' \in Type, expr' \in Judgements, tokens' = tokens,
         NEW c \in {0, 1}, semerrs' = semerrs + c,
         \A n \in Nat : Waiting(Top, n) => Judged(n + (semerrs - Top.reports) + c, attr', expr')
  PROVE  TypingInvariant'
<1>1. /\ stack' \in Seq(Frames) /\ stack' # <<>> /\ StackIsRight'
      /\ Top \in Frames /\ Reported = Top.reports
      /\ Reported' \in Nat /\ Reported' <= Top.reports
      /\ Waiting(Top, Top.reports - Reported')
  BY StackIsPopped DEF TypingInvariant, TypingTypeOK
<1>2. semerrs \in Nat /\ semerrs' \in Nat /\ Top.reports \in Nat /\ Top.reports <= semerrs
  BY <1>1 DEF TypingInvariant, TypingTypeOK, ExprIsRight, Frames
<1>3. Judged(semerrs' - Reported', attr', expr')
  <2> DEFINE n == Top.reports - Reported'
  <2>1. n \in Nat /\ n + (semerrs - Top.reports) + c = semerrs' - Reported'
    BY <1>1, <1>2
  <2> HIDE DEF n
  <2>2. Waiting(Top, n)
    BY <1>1 DEF n
  <2> QED
    BY <2>1, <2>2
<1>4. TypingTypeOK'
  BY <1>1, <1>2 DEF TypingInvariant, TypingTypeOK
<1>5. Reported' <= semerrs'
  BY <1>1, <1>2
<1>6. ExprIsRight'
  BY <1>1, <1>3, <1>5 DEF ExprIsRight, Starts, Parsed
<1> QED
  BY <1>1, <1>4, <1>6 DEF TypingInvariant

\* A statement ends where its procedure is the only one.
LEMMA StatementEnds ==
  ASSUME TypingInvariant, stack # <<>>, Top.at \in Bottom, Pop, pc \in Parsed, pc' = "end",
         attr' \in Type, expr' \in Judgements, tokens' = tokens,
         NEW c \in {0, 1}, semerrs' = semerrs + c,
         \A n \in Nat : Waiting(Top, n) => Verdict(n + (semerrs - Top.reports) + c, expr')
  PROVE  TypingInvariant'
<1>1. /\ stack' \in Seq(Frames) /\ stack' = <<>> /\ StackIsRight'
      /\ Top \in Frames /\ Reported = Top.reports
      /\ Reported' = 0 /\ Waiting(Top, Top.reports - Reported')
  BY StackIsPopped DEF TypingInvariant, TypingTypeOK
<1>2. semerrs \in Nat /\ semerrs' \in Nat /\ Top.reports \in Nat /\ Top.reports <= semerrs
  BY <1>1 DEF TypingInvariant, TypingTypeOK, ExprIsRight, Frames
<1>3. Verdict(semerrs', expr')
  <2>1. Top.reports - Reported' = Top.reports /\ Top.reports + (semerrs - Top.reports) + c = semerrs'
    BY <1>1, <1>2
  <2> QED
    BY <1>1, <1>2, <2>1
<1>4. TypingTypeOK'
  BY <1>1, <1>2 DEF TypingInvariant, TypingTypeOK, Starts
<1>5. Reported' <= semerrs'
  BY <1>1, <1>2
<1>6. pc' \in Starts \ Parsed
  BY DEF Starts, Parsed
<1>7. ExprIsRight'
  BY <1>1, <1>3, <1>5, <1>6 DEF ExprIsRight
<1> QED
  BY <1>1, <1>4, <1>7 DEF TypingInvariant

\* A return that leaves the expression as it is.
LEMMA ExpressionStays ==
  ASSUME TypingInvariant, pc \in Parsed, pc' \in Parsed, UNCHANGED <<attr, stack, semerrs, tokens, expr>>
  PROVE  TypingInvariant'
<1>1. Reported' = Reported /\ StackIsRight'
  BY StackStays DEF TypingInvariant
<1>2. TypingTypeOK'
  BY DEF TypingInvariant, TypingTypeOK
<1>3. ExprIsRight'
  BY <1>1 DEF TypingInvariant, ExprIsRight, Starts, Parsed
<1> QED
  BY <1>1, <1>2, <1>3 DEF TypingInvariant

-----------------------------------------------------------------------------
(* The actions.                                                            *)

LEMMA InitIsJudged == TypeInit => TypingInvariant
<1> SUFFICES ASSUME TypeInit PROVE TypingInvariant
  OBVIOUS
<1>1. TypingTypeOK
  <2>1. TYPE_DEFAULT \in Type
    BY DEF TYPE_DEFAULT, Plain, Type, StdTypes
  <2>2. 0 \in 0 .. MaxTokens
    BY MaxTokensAssumption
  <2> QED
    BY <2>1, <2>2, LeavesAreJudgements DEF TypeInit, TypingTypeOK, Starts
<1>2. StackIsRight /\ Reported = 0
  BY DEF TypeInit, StackIsRight, Reported, Before
<1>3. ExprIsRight
  BY <1>2 DEF TypeInit, ExprIsRight, Starts, Parsed
<1> QED
  BY <1>1, <1>2, <1>3 DEF TypingInvariant

LEMMA TokensAreRead == ASSUME TypingTypeOK, Read PROVE tokens' \in 0 .. MaxTokens
BY MaxTokensAssumption DEF TypingTypeOK, Read

LEMMA StartKeepsInvariant ==
  ASSUME TypingInvariant,
         (\E x \in Name : AssignTo(x)) \/ VarPlain \/ VarIndexed \/ Condition
  PROVE  TypingInvariant'
<1>1. CASE \E x \in Name : AssignTo(x)
  <2>1. PICK x \in Name : AssignTo(x)
    BY <1>1
  <2> DEFINE rule == NameRule(get_type(x))
  <2>2. /\ pc = "statement" /\ pc' = "var_" /\ Read /\ stack' = stack /\ expr' = Variable(x)
        /\ attr' = rule.t /\ semerrs' = IF rule.semerr THEN semerrs + 1 ELSE semerrs
    BY <2>1 DEF AssignTo, Apply, Report
  <2>3. Target(Count(rule.semerr), rule.t, Variable(x))
    BY VariableJudged
  <2>4. rule.t \in Type /\ rule.semerr \in BOOLEAN
    BY NameRuleIs
  <2> HIDE DEF rule
  <2>5. stack = <<>> /\ semerrs = 0 /\ StackIsRight' /\ Reported' = 0
    BY <2>2, StackStays, ReportedIs DEF TypingInvariant, ExprIsRight, Starts
  <2>6. semerrs' = Count(rule.semerr) /\ semerrs' \in Nat
    BY <2>2, <2>5 DEF Count
  <2>7. TypingTypeOK'
    BY <2>2, <2>4, <2>6, TokensAreRead, NamesAreJudgements DEF TypingInvariant, TypingTypeOK, Starts
  <2>8. ExprIsRight'
    BY <2>2, <2>3, <2>5, <2>6 DEF ExprIsRight, Starts, Parsed
  <2> QED
    BY <2>5, <2>7, <2>8 DEF TypingInvariant
<1>2. ASSUME VarPlain \/ VarIndexed PROVE TypingInvariant'
  <2>1. PICK at \in {"assign", "var_"} :
          /\ pc = "var_" /\ pc' = "simple_expr" /\ Push(Frame(at, attr, "", expr))
          /\ UNCHANGED <<attr, semerrs, tokens, expr>>
    BY <1>2 DEF VarPlain, VarIndexed
  <2> DEFINE f == Frame(at, attr, "", expr)
  <2>2. /\ f \in Frames
        /\ f = [at |-> at, in |-> attr, op |-> "", c |-> 0, wrong |-> FALSE, left |-> expr, reports |-> semerrs]
    BY FrameIs DEF TypingInvariant, TypingTypeOK, Bottom, Operator
  <2>3. Push(f)
    BY <2>1
  <2> HIDE DEF f
  <2>4. f.at = at /\ f.in = attr /\ f.left = expr /\ f.reports = semerrs
    BY <2>2
  <2>5. stack = <<>> /\ Target(semerrs, attr, expr)
    BY <2>1 DEF TypingInvariant, ExprIsRight, Starts
  <2>6. semerrs - Reported = semerrs
    BY <2>5, ReportedIs DEF TypingInvariant, TypingTypeOK
  <2>7. Waiting(f, semerrs - Reported)
    BY <2>4, <2>5, <2>6 DEF Waiting
  <2>8. f.at \in Bottom /\ tokens' \in 0 .. MaxTokens
    BY <2>1, <2>4 DEF Bottom, TypingInvariant, TypingTypeOK
  <2> QED
    BY <2>1, <2>2, <2>3, <2>4, <2>5, <2>7, <2>8, BeginsToWait
<1>3. CASE Condition
  <2> DEFINE f == Frame("condition", TYPE_DEFAULT, "", None)
  <2>1. /\ f \in Frames
        /\ f = [at |-> "condition", in |-> TYPE_DEFAULT, op |-> "", c |-> 0, wrong |-> FALSE, left |-> None,
                reports |-> semerrs]
    <3>1. TYPE_DEFAULT \in Type
      BY DEF TYPE_DEFAULT, Plain, Type, StdTypes
    <3> QED
      BY <3>1, FrameIs, LeavesAreJudgements DEF TypingInvariant, TypingTypeOK, Bottom, Operator
  <2> HIDE DEF f
  <2>2. Push(f) /\ pc = "statement" /\ pc' = "simple_expr" /\ UNCHANGED <<attr, semerrs, tokens, expr>>
    BY <1>3 DEF Condition, f
  <2>3. stack = <<>> /\ semerrs - Reported = 0
    BY <2>2, ReportedIs DEF TypingInvariant, ExprIsRight, Starts
  <2>4. Waiting(f, semerrs - Reported)
    BY <2>1, <2>3 DEF Waiting
  <2> QED
    BY <2>1, <2>2, <2>3, <2>4, BeginsToWait DEF TypingInvariant, TypingTypeOK, Bottom
<1> QED
  BY <1>1, <1>2, <1>3

\* Where an operand begins: a sign, a NOT and a parenthesis wait for it.
LEMMA OperandKeepsInvariant ==
  ASSUME TypingInvariant,
         \/ Sign \/ (\E std \in Number : Literal(std)) \/ (\E x \in Name : Identifier(x))
         \/ Parenthesis \/ Not
  PROVE  TypingInvariant'
<1>1. ASSUME Sign \/ Parenthesis \/ Not PROVE TypingInvariant'
  <2>1. PICK at \in {"sign", "parenthesis", "not"} :
          /\ pc \in {"simple_expr", "factor"} /\ pc' \in {"simple_expr", "factor"}
          /\ Push(Frame(at, TYPE_DEFAULT, "", None)) /\ Read
          /\ UNCHANGED <<attr, semerrs, expr>>
    BY <1>1 DEF Sign, Parenthesis, Not, Operand
  <2> DEFINE f == Frame(at, TYPE_DEFAULT, "", None)
  <2>2. /\ f \in Frames
        /\ f = [at |-> at, in |-> TYPE_DEFAULT, op |-> "", c |-> 0, wrong |-> FALSE, left |-> None,
                reports |-> semerrs]
    <3>1. TYPE_DEFAULT \in Type
      BY DEF TYPE_DEFAULT, Plain, Type, StdTypes
    <3> QED
      BY <3>1, FrameIs, LeavesAreJudgements DEF TypingInvariant, TypingTypeOK, Inner, Operator
  <2>3. Push(f)
    BY <2>1
  <2> HIDE DEF f
  <2>4. f.at = at /\ f.reports = semerrs
    BY <2>2
  <2>5. semerrs - Reported = 0
    <3>1. semerrs = Reported /\ Reported \in Nat
      BY <2>1, ReportedIs DEF TypingInvariant, ExprIsRight
    <3> QED
      BY <3>1
  <2>6. Waiting(f, semerrs - Reported)
    BY <2>1, <2>4, <2>5 DEF Waiting
  <2>7. f.at \notin Bottom /\ stack # <<>>
    BY <2>1, <2>4 DEF Bottom, TypingInvariant, ExprIsRight, Starts
  <2>8. tokens' \in 0 .. MaxTokens
    BY <2>1, TokensAreRead DEF TypingInvariant
  <2> QED
    BY <2>1, <2>2, <2>3, <2>4, <2>6, <2>7, <2>8, BeginsToWait
<1>2. CASE \E std \in Number : Literal(std)
  <2>1. PICK std \in Number : Literal(std)
    BY <1>2
  <2>2. /\ pc \in {"simple_expr", "factor"} /\ pc' = "factor end" /\ Read
        /\ attr' = Plain(std) /\ expr' = Literally(std) /\ UNCHANGED <<stack, semerrs>>
    BY <2>1 DEF Literal, Operand
  <2>3. Plain(std) \in Type /\ Judged(0, Plain(std), Literally(std)) /\ Literally(std) \in Judgements
    BY LiteralJudged, LeavesAreJudgements
  <2>4. Reported' = Reported /\ StackIsRight' /\ stack # <<>>
    BY <2>2, StackStays DEF TypingInvariant, ExprIsRight, Starts
  <2>5. semerrs' - Reported' = 0 /\ Reported' <= semerrs'
    <3>1. semerrs = Reported
      BY <2>2 DEF TypingInvariant, ExprIsRight
    <3>2. Reported \in Nat
      BY ReportedIs DEF TypingInvariant
    <3>3. semerrs' = Reported /\ Reported' = Reported
      BY <2>2, <2>4, <3>1
    <3> QED
      BY <3>2, <3>3
  <2>6. TypingTypeOK'
    BY <2>2, <2>3, TokensAreRead DEF TypingInvariant, TypingTypeOK, Parsed
  <2>7. pc' \in Parsed /\ pc' \notin Starts
    BY <2>2 DEF Parsed, Starts
  <2>8. ExprIsRight'
    BY <2>2, <2>3, <2>4, <2>5, <2>7 DEF ExprIsRight
  <2> QED
    BY <2>4, <2>6, <2>8 DEF TypingInvariant
<1>3. CASE \E x \in Name : Identifier(x)
  <2>1. PICK x \in Name : Identifier(x)
    BY <1>3
  <2> DEFINE rule == NameRule(get_type(x))
  <2>2. /\ pc \in {"simple_expr", "factor"} /\ pc' = "factor_" /\ Read /\ stack' = stack /\ expr' = Named(x)
        /\ attr' = rule.t /\ semerrs' = IF rule.semerr THEN semerrs + 1 ELSE semerrs
    BY <2>1 DEF Identifier, Apply, Report, Operand
  <2>3. rule.t \in Type /\ rule.semerr \in BOOLEAN
    BY NameRuleIs
  <2>4. Named(x) \in Judgements /\ Named(x).name = x
    BY NamesAreJudgements
  <2>5. Reported' = Reported /\ StackIsRight' /\ stack # <<>> /\ semerrs = Reported /\ semerrs \in Nat
    BY <2>2, StackStays DEF TypingInvariant, TypingTypeOK, ExprIsRight, Starts
  <2>6. semerrs' = Reported' + Count(rule.semerr) /\ semerrs' \in Nat /\ Reported' <= semerrs'
    BY <2>2, <2>5 DEF Count
  <2>7. TypingTypeOK'
    BY <2>2, <2>3, <2>4, <2>6, TokensAreRead DEF TypingInvariant, TypingTypeOK
  <2>8. pc' \notin Parsed /\ pc' \notin Starts
    BY <2>2 DEF Parsed, Starts
  <2>9. expr'.name = x
    BY <2>2, <2>4
  <2>10. ExprIsRight'
    BY <2>2, <2>5, <2>6, <2>8, <2>9 DEF ExprIsRight, Starts
  <2> QED
    BY <2>5, <2>7, <2>10 DEF TypingInvariant
<1> QED
  BY <1>1, <1>2, <1>3

\* What follows a name: nothing, arguments, or an index.
LEMMA FactorKeepsInvariant ==
  ASSUME TypingInvariant, FactorPlain \/ FactorCall \/ FactorIndexed
  PROVE  TypingInvariant'
<1> DEFINE x    == expr.name
           rule == NameRule(get_type(x))
           n    == Count(rule.semerr)
<1>1. /\ pc = "factor_" /\ attr = rule.t /\ expr = Named(x) /\ semerrs = Reported + n
      /\ stack # <<>>
  BY DEF FactorPlain, FactorCall, FactorIndexed, TypingInvariant, ExprIsRight, Starts
<1>2. Judged(n, rule.t, Named(x)) /\ Calling(n, rule.t, IsErr(rule.t), 0, Callee(x))
  BY NamedJudged, CallBegins
<1>3. n \in Nat
  BY DEF Count
<1> HIDE DEF rule, n, x
<1>4. /\ semerrs - Reported = n /\ Judged(semerrs - Reported, attr, expr)
      /\ Calling(semerrs - Reported, attr, IsErr(attr), 0, Callee(x))
  <2>1. semerrs - Reported = n
    BY <1>1, <1>3, ReportedIs DEF TypingInvariant
  <2> QED
    BY <1>1, <1>2, <2>1
<1>5. x \in Name \cup {""} /\ expr \in Judgements /\ semerrs \in Nat /\ attr \in Type /\ tokens \in 0 .. MaxTokens
  BY JudgementHas DEF TypingInvariant, TypingTypeOK, x
<1>6. CASE FactorPlain
  <2>1. pc' = "factor end" /\ UNCHANGED <<attr, stack, semerrs, tokens, expr>>
    BY <1>6 DEF FactorPlain
  <2>2. Reported' = Reported /\ StackIsRight'
    BY <2>1, StackStays DEF TypingInvariant
  <2>3. TypingTypeOK'
    BY <2>1 DEF TypingInvariant, TypingTypeOK, Parsed
  <2>4. pc' \in Parsed \ Starts
    BY <2>1 DEF Parsed, Starts
  <2>5. ExprIsRight'
    BY <1>1, <1>4, <2>1, <2>2, <2>4 DEF TypingInvariant, ExprIsRight
  <2> QED
    BY <2>2, <2>3, <2>5 DEF TypingInvariant
<1>7. CASE FactorIndexed
  <2> DEFINE f == Frame("index", attr, "", expr)
  <2>1. /\ f \in Frames
        /\ f = [at |-> "index", in |-> attr, op |-> "", c |-> 0, wrong |-> FALSE, left |-> expr,
                reports |-> semerrs]
    BY <1>5, FrameIs DEF Inner, Operator
  <2>2. Push(f) /\ pc' = "simple_expr" /\ UNCHANGED <<attr, semerrs, tokens, expr>>
    BY <1>7 DEF FactorIndexed
  <2> HIDE DEF f
  <2>3. f.at = "index" /\ f.in = attr /\ f.left = expr /\ f.reports = semerrs
    BY <2>1
  <2>4. Waiting(f, semerrs - Reported) /\ f.at \notin Bottom
    BY <1>4, <2>3 DEF Waiting, Bottom
  <2> QED
    BY <1>1, <1>5, <2>1, <2>2, <2>3, <2>4, BeginsToWait
<1>8. CASE FactorCall
  <2> DEFINE g == Frame("call", attr, "", Callee(x))
             f == [g EXCEPT !.wrong = IsErr(attr)]
  <2>1. Push(f) /\ pc' = "simple_expr" /\ UNCHANGED <<attr, semerrs, tokens, expr>>
    BY <1>8 DEF FactorCall, x
  <2>2. /\ g \in Frames
        /\ g = [at |-> "call", in |-> attr, op |-> "", c |-> 0, wrong |-> FALSE, left |-> Callee(x),
                reports |-> semerrs]
    BY <1>5, FrameIs, NamesAreJudgements DEF Inner, Operator
  <2> HIDE DEF g
  <2>3. IsErr(attr) \in BOOLEAN
    BY DEF IsErr
  <2>4. /\ f \in Frames /\ f.at = "call" /\ f.in = attr /\ f.c = 0 /\ f.wrong = IsErr(attr)
        /\ f.left = Callee(x) /\ f.reports = semerrs
    BY <2>2, <2>3 DEF Frames
  <2> HIDE DEF f
  <2>5. Waiting(f, semerrs - Reported) /\ f.at \notin Bottom
    BY <1>4, <2>4 DEF Waiting, Bottom
  <2> QED
    BY <1>1, <1>5, <2>1, <2>4, <2>5, BeginsToWait
<1> QED
  BY <1>6, <1>7, <1>8

LEMMA OperatorKeepsInvariant ==
  ASSUME TypingInvariant,
         (\E op \in {"*", "and"} : Mulop(op)) \/ (\E op \in {"+", "or"} : Addop(op)) \/ Relop
  PROVE  TypingInvariant'
<1>1. PICK at \in {"mulop", "addop", "relop"}, op \in {"*", "and", "+", "or", "<"} :
        /\ at = "mulop" => op \in {"*", "and"}
        /\ at = "addop" => op \in {"+", "or"}
        /\ at = "relop" => op = "<"
        /\ pc \in Parsed /\ pc' \in {"simple_expr", "factor"}
        /\ Push(Frame(at, attr, op, expr)) /\ UNCHANGED <<attr, semerrs, tokens, expr>>
  BY DEF Mulop, Addop, Relop, Parsed
<1> DEFINE f == Frame(at, attr, op, expr)
<1>2. /\ f \in Frames
      /\ f = [at |-> at, in |-> attr, op |-> op, c |-> 0, wrong |-> FALSE, left |-> expr, reports |-> semerrs]
  <2>1. at \in Bottom \cup Inner /\ op \in Operator
    BY DEF Inner, Operator
  <2> QED
    BY <2>1, FrameIs DEF TypingInvariant, TypingTypeOK
<1>3. Push(f)
  BY <1>1
<1> HIDE DEF f
<1>4. f.at = at /\ f.in = attr /\ f.op = op /\ f.left = expr /\ f.reports = semerrs
  BY <1>2
<1>5. Judged(semerrs - Reported, attr, expr)
  BY <1>1 DEF TypingInvariant, ExprIsRight
<1>6. Waiting(f, semerrs - Reported)
  BY <1>1, <1>4, <1>5 DEF Waiting
<1>7. f.at \notin Bottom /\ stack # <<>> /\ tokens' \in 0 .. MaxTokens
  BY <1>1, <1>4 DEF Bottom, TypingInvariant, TypingTypeOK, ExprIsRight, Starts, Parsed
<1> QED
  BY <1>1, <1>2, <1>3, <1>4, <1>6, <1>7, BeginsToWait

\* What is known where an operand returns.
LEMMA ParsedIsJudged ==
  ASSUME TypingInvariant, pc \in Parsed
  PROVE  /\ stack # <<>> /\ Top \in Frames
         /\ semerrs \in Nat /\ semerrs - Top.reports \in Nat
         /\ attr \in Type /\ expr \in Judgements /\ tokens \in 0 .. MaxTokens
         /\ Judged(semerrs - Top.reports, attr, expr)
<1>1. stack # <<>> /\ Reported <= semerrs /\ Judged(semerrs - Reported, attr, expr)
  BY DEF TypingInvariant, ExprIsRight, Parsed, Starts
<1>2. Top \in Frames /\ Reported = Top.reports /\ Reported \in Nat
  BY <1>1, ReportedIs DEF TypingInvariant
<1>3. /\ semerrs \in Nat /\ attr \in Type /\ expr \in Judgements /\ tokens \in 0 .. MaxTokens
  BY DEF TypingInvariant, TypingTypeOK
<1> QED
  BY <1>1, <1>2, <1>3

LEMMA ReportCounts ==
  ASSUME semerrs \in Nat, NEW yes \in BOOLEAN, Report(yes)
  PROVE  Count(yes) \in {0, 1} /\ semerrs' = semerrs + Count(yes)
BY DEF Report, Count

LEMMA ReportsAdd ==
  ASSUME NEW before \in Nat, NEW top \in Nat, before <= top, NEW m \in Nat, NEW now \in Nat,
         m = now - top, NEW c \in {0, 1}
  PROVE  top - before \in Nat /\ now + c - before = top - before + m + c
OBVIOUS

LEMMA UnaryKeepsInvariant ==
  ASSUME TypingInvariant, NotEnds \/ SignEnds
  PROVE  TypingInvariant'
<1>1. PICK op \in {"sign", "not"} :
        /\ pc \in Parsed /\ pc' \in Parsed /\ Top.at = op /\ Pop /\ tokens' = tokens
        /\ Apply(IF op = "sign" THEN SignRule(attr) ELSE NotRule(attr))
        /\ expr' = Unary(op, expr)
  <2>1. CASE NotEnds
    BY <2>1 DEF NotEnds, At, Parsed
  <2>2. CASE SignEnds
    BY <2>2 DEF SignEnds, At, Parsed
  <2> QED
    BY <2>1, <2>2
<1> DEFINE rule == IF op = "sign" THEN SignRule(attr) ELSE NotRule(attr)
           m    == semerrs - Top.reports
           c    == Count(rule.semerr)
<1>2. /\ stack # <<>> /\ semerrs \in Nat /\ m \in Nat /\ attr \in Type /\ expr \in Judgements
      /\ Judged(m, attr, expr)
  BY <1>1, ParsedIsJudged
<1>3. rule.t \in Type /\ rule.semerr \in BOOLEAN /\ Judged(m + c, rule.t, Unary(op, expr))
  BY <1>2, UnaryJudged
<1>4. attr' = rule.t /\ Report(rule.semerr)
  BY <1>1 DEF Apply
<1> HIDE DEF rule
<1>5. c \in {0, 1} /\ semerrs' = semerrs + c
  BY <1>2, <1>3, <1>4, ReportCounts
<1>6. expr' \in Judgements
  BY <1>1, <1>2, UnaryIsJudgement
<1> HIDE DEF c, m
<1>7. ASSUME NEW n \in Nat, Waiting(Top, n) PROVE Judged(n + m + c, attr', expr')
  <2>1. n + m + c = m + c
    <3>1. n = 0
      BY <1>1, <1>7 DEF Waiting
    <3> QED
      BY <1>2, <1>5, <3>1
  <2> QED
    BY <1>1, <1>3, <1>4, <2>1
<1>8. Top.at \notin Bottom
  BY <1>1 DEF Bottom
<1> QED
  BY <1>1, <1>2, <1>3, <1>4, <1>5, <1>6, <1>7, <1>8, OperandReturns DEF m

LEMMA BinaryKeepsInvariant ==
  ASSUME TypingInvariant, MulopEnds \/ AddopEnds \/ RelopEnds \/ IndexEnds
  PROVE  TypingInvariant'
<1>1. PICK op \in BinaryOp : \E rule :
        /\ pc \in Parsed /\ pc' \in Parsed /\ Pop /\ tokens' = tokens
        /\ Top.at \in {"mulop", "addop", "relop", "index"}
        /\ RightRule(op, Top.in, attr, rule) /\ attr' = rule.t /\ Report(rule.semerr)
        /\ expr' = Binary(op, Top.left, expr)
  <2>1. pc \in Parsed /\ pc' \in Parsed /\ Pop /\ tokens' = tokens
    BY DEF MulopEnds, AddopEnds, RelopEnds, IndexEnds, Parsed
  <2>2. /\ stack # <<>> /\ Top.in \in Type /\ attr \in Type
        /\ Top.at = "mulop" => Top.op \in {"*", "and"}
        /\ Top.at = "addop" => Top.op \in {"+", "or"}
        /\ Top.at = "relop" => Top.op = "<"
    <3>1. stack # <<>> /\ Top \in Frames /\ attr \in Type
      BY <2>1, ParsedIsJudged
    <3>2. Waiting(Top, Top.reports - Reported')
      BY <2>1, <3>1, StackIsPopped DEF TypingInvariant, TypingTypeOK
    <3> QED
      BY <3>1, <3>2 DEF Waiting, Frames
  <2>3. CASE MulopEnds
    <3>1. RightRule(Top.op, Top.in, attr, MulopRule(Top.in, attr, Top.op)) /\ Top.op \in BinaryOp
      BY <2>2, <2>3, MulopIsRight DEF MulopEnds, At, BinaryOp
    <3> QED
      BY <2>1, <2>3, <3>1 DEF MulopEnds, At, Apply, Joined
  <2>4. CASE AddopEnds
    <3>1. RightRule(Top.op, Top.in, attr, AddopRule(Top.in, attr, Top.op)) /\ Top.op \in BinaryOp
      BY <2>2, <2>4, AddopIsRight DEF AddopEnds, At, BinaryOp
    <3> QED
      BY <2>1, <2>4, <3>1 DEF AddopEnds, At, Apply, Joined
  <2>5. CASE RelopEnds
    <3>1. RightRule(Top.op, Top.in, attr, RelopRule(Top.in, attr)) /\ Top.op \in BinaryOp
      BY <2>2, <2>5, RelopIsRight DEF RelopEnds, At, BinaryOp
    <3> QED
      BY <2>1, <2>5, <3>1 DEF RelopEnds, At, Apply, Joined
  <2>6. CASE IndexEnds
    <3>1. RightRule("index", Top.in, attr, IndexRule(Top.in, attr)) /\ "index" \in BinaryOp
      BY <2>2, <2>6, IndexIsRight DEF BinaryOp
    <3> QED
      BY <2>1, <2>6, <3>1 DEF IndexEnds, At, Apply
  <2> QED
    BY <2>3, <2>4, <2>5, <2>6
<1>2. PICK rule :
        /\ pc \in Parsed /\ pc' \in Parsed /\ Pop /\ tokens' = tokens
        /\ Top.at \in {"mulop", "addop", "relop", "index"}
        /\ RightRule(op, Top.in, attr, rule) /\ attr' = rule.t /\ Report(rule.semerr)
        /\ expr' = Binary(op, Top.left, expr)
  BY <1>1
<1> DEFINE m == semerrs - Top.reports
           c == Count(rule.semerr)
<1>3. /\ stack # <<>> /\ semerrs \in Nat /\ m \in Nat /\ attr \in Type /\ expr \in Judgements
      /\ Judged(m, attr, expr) /\ Top.in \in Type /\ Top.left \in Judgements
  BY <1>2, ParsedIsJudged DEF Frames
<1>4. rule.t \in Type /\ rule.semerr \in BOOLEAN
  BY <1>2 DEF RightRule
<1>5. c \in {0, 1} /\ semerrs' = semerrs + c
  BY <1>2, <1>3, <1>4, ReportCounts
<1>6. expr' \in Judgements
  BY <1>2, <1>3, BinaryIsJudgement
<1> HIDE DEF m
<1>7. ASSUME NEW n \in Nat, Waiting(Top, n) PROVE Judged(n + m + c, attr', expr')
  <2>1. Judged(n, Top.in, Top.left)
    BY <1>2, <1>7 DEF Waiting
  <2> QED
    BY <1>2, <1>3, <2>1, BinaryJudged
<1> HIDE DEF c
<1>8. Top.at \notin Bottom
  BY <1>2 DEF Bottom
<1> QED
  BY <1>2, <1>3, <1>4, <1>5, <1>6, <1>7, <1>8, OperandReturns DEF m

LEMMA ReturnKeepsInvariant ==
  ASSUME TypingInvariant, FactorEnds \/ TermEnds \/ ExprPlain \/ ParenthesisEnds
  PROVE  TypingInvariant'
<1>1. CASE FactorEnds \/ TermEnds \/ ExprPlain
  BY <1>1, ExpressionStays DEF FactorEnds, TermEnds, ExprPlain, Parsed
<1>2. CASE ParenthesisEnds
  <2> DEFINE m == semerrs - Top.reports
  <2>1. /\ pc \in Parsed /\ pc' \in Parsed /\ Top.at = "parenthesis" /\ Pop
        /\ UNCHANGED <<attr, semerrs, tokens, expr>>
    BY <1>2 DEF ParenthesisEnds, At, Parsed
  <2>2. /\ stack # <<>> /\ semerrs \in Nat /\ m \in Nat /\ attr \in Type /\ expr \in Judgements
        /\ Judged(m, attr, expr)
    BY <2>1, ParsedIsJudged
  <2> HIDE DEF m
  <2>3. ASSUME NEW n \in Nat, Waiting(Top, n) PROVE Judged(n + m + 0, attr', expr')
    <3>1. n + m + 0 = m
      <4>1. n = 0
        BY <2>1, <2>3 DEF Waiting
      <4> QED
        BY <2>2, <4>1
    <3> QED
      BY <2>1, <2>2, <3>1
  <2>4. Top.at \notin Bottom /\ semerrs' = semerrs + 0
    BY <2>1, <2>2 DEF Bottom
  <2> QED
    BY <2>1, <2>2, <2>3, <2>4, OperandReturns DEF m
<1> QED
  BY <1>1, <1>2

\* An argument ends: another follows, or the call is complete.
LEMMA ArgumentKeepsInvariant ==
  ASSUME TypingInvariant, NextArgument \/ LastArgument
  PROVE  TypingInvariant'
<1> DEFINE m  == semerrs - Top.reports
           r  == Checked
           c  == Count(r.semerr)
<1>1. pc = "expr end" /\ pc \in Parsed /\ Top.at = "call" /\ Top.at \notin Bottom
  BY DEF NextArgument, LastArgument, At, Parsed, Bottom
<1>2. /\ stack # <<>> /\ Top \in Frames /\ semerrs \in Nat /\ m \in Nat
      /\ attr \in Type /\ expr \in Judgements /\ tokens \in 0 .. MaxTokens /\ Judged(m, attr, expr)
      /\ Top.in \in Type /\ Top.left \in Judgements
  BY <1>1, ParsedIsJudged DEF Frames
<1>3. Called \in Judgements /\ Complete(Called) \in Judgements
  BY <1>2, CallsAreJudgements DEF Called
<1>4. ASSUME NEW n \in Nat, Waiting(Top, n)
      PROVE  /\ r.semerr \in BOOLEAN /\ (r.semerr => r.wrong)
             /\ Calling(n + m + c, Top.in, r.wrong, r.c, Called)
  <2>1. Calling(n, Top.in, Top.wrong, Top.c, Top.left)
    BY <1>1, <1>4 DEF Waiting
  <2> QED
    BY <1>2, <2>1, ArgumentJudged DEF Checked, Called
<1>5. /\ r.semerr \in BOOLEAN /\ (r.semerr => r.wrong) /\ r.wrong \in BOOLEAN /\ r.c \in Nat
  <2>1. PICK n \in Nat : Waiting(Top, n)
    <3>1. Len(stack) \in 1 .. Len(stack) /\ Top = stack[Len(stack)]
      BY <1>2, EmptySeq DEF TypingInvariant, TypingTypeOK, Top
    <3>2. /\ Before(Len(stack) - 1) <= Top.reports
          /\ Waiting(Top, Top.reports - Before(Len(stack) - 1))
      BY <3>1 DEF TypingInvariant, StackIsRight
    <3>3. Before(Len(stack) - 1) \in Nat
      <4>1. stack \in Seq(Frames)
        BY DEF TypingInvariant, TypingTypeOK
      <4>2. \A k \in 1 .. Len(stack) : stack[k] \in Frames
        BY <4>1, ElementOfSeq
      <4>3. Len(stack) - 1 = 0 \/ Len(stack) - 1 \in 1 .. Len(stack)
        <5>1. Len(stack) \in Nat /\ Len(stack) # 0
          BY <1>2, <4>1, EmptySeq
        <5> QED
          BY <5>1
      <4> QED
        BY <4>2, <4>3 DEF Before, Frames
    <3>4. Top.reports - Before(Len(stack) - 1) \in Nat
      BY <1>2, <3>2, <3>3 DEF Frames
    <3> QED
      BY <3>2, <3>4
  <2> QED
    BY <1>4, <2>1 DEF Calling
<1>6. params(Top.left.name) = params(Called.name)
  BY DEF Called, Argument, Judgement
<1> HIDE DEF m, r
<1>7. c \in {0, 1}
  BY DEF Count
<1> HIDE DEF c
<1>8. CASE NextArgument
  <2> DEFINE f == [Top EXCEPT !.wrong = r.wrong, !.c = r.c, !.left = Called, !.reports = semerrs']
  <2>1. /\ pc' = "simple_expr" /\ Report(r.semerr) /\ Replace(f) /\ UNCHANGED <<attr, tokens, expr>>
    BY <1>8 DEF NextArgument, r
  <2>2. semerrs' = semerrs + c /\ semerrs' \in Nat
    <3>1. semerrs' = semerrs + c
      BY <1>2, <1>5, <2>1, ReportCounts DEF c
    <3> QED
      BY <1>2, <1>7, <3>1
  <2>3. /\ f \in Frames /\ f.at = "call" /\ f.in = Top.in /\ f.wrong = r.wrong /\ f.c = r.c
        /\ f.left = Called /\ f.reports = semerrs'
    BY <1>1, <1>2, <1>3, <1>5, <2>2 DEF Frames
  <2> HIDE DEF f
  <2>4. Top.reports \in Nat /\ Top.reports <= semerrs' /\ m = semerrs - Top.reports
    <3>1. Top.reports \in Nat /\ m = semerrs - Top.reports
      BY <1>2 DEF Frames, m
    <3> QED
      BY <1>2, <1>7, <2>2, <3>1
  <2>5. ASSUME NEW before \in Nat, before <= Top.reports, Waiting(Top, Top.reports - before)
        PROVE  Waiting(f, f.reports - before)
    <3> DEFINE n == Top.reports - before
    <3>1. n \in Nat /\ f.reports - before = n + m + c
      <4>1. f.reports = semerrs + c
        BY <2>2, <2>3
      <4>2. Top.reports \in Nat /\ m = semerrs - Top.reports
        BY <2>4
      <4>3. before \in Nat /\ before <= Top.reports /\ semerrs \in Nat /\ c \in Nat
        BY <1>2, <1>7, <2>5
      <4> QED
        BY <4>1, <4>2, <4>3
    <3> HIDE DEF n
    <3>2. Waiting(Top, n)
      BY <2>5 DEF n
    <3>3. Calling(n + m + c, f.in, f.wrong, f.c, f.left)
      BY <1>4, <2>3, <3>1, <3>2
    <3> QED
      BY <2>3, <3>1, <3>3 DEF Waiting
  <2>6. stack' \in Seq(Frames) /\ stack' # <<>> /\ StackIsRight' /\ Reported' = semerrs'
    <3>1. Top.at \in Bottom <=> f.at \in Bottom
      BY <1>1, <2>3
    <3> QED
      BY <1>2, <2>1, <2>3, <2>4, <2>5, <3>1, StackIsReplaced DEF TypingInvariant, TypingTypeOK
  <2>7. TypingTypeOK'
    BY <2>1, <2>2, <2>6 DEF TypingInvariant, TypingTypeOK
  <2>8. pc' \notin Parsed /\ pc' \notin Starts
    BY <2>1 DEF Parsed, Starts
  <2>9. ExprIsRight'
    BY <2>1, <2>2, <2>6, <2>8 DEF ExprIsRight
  <2> QED
    BY <2>6, <2>7, <2>9 DEF TypingInvariant
<1>9. CASE LastArgument
  <2> DEFINE few == TooFew(r.wrong, r.c, params(Called.name))
             d   == Count(r.semerr \/ few)
  <2>1. /\ pc' = "factor end" /\ pc' \in Parsed /\ Pop /\ tokens' = tokens
        /\ attr' = CallType(Top.in) /\ expr' = Complete(Called)
        /\ Report(r.semerr \/ few)
    BY <1>6, <1>9 DEF LastArgument, Parsed, r
  <2>2. few \in BOOLEAN /\ (r.semerr => ~few)
    BY <1>5 DEF TooFew
  <2>3. attr' \in Type /\ expr' \in Judgements
    BY <1>2, <1>3, <2>1, CallTypeIs
  <2> HIDE DEF few
  <2>4. d \in {0, 1} /\ semerrs' = semerrs + d /\ d = c + Count(few)
    <3>1. (r.semerr \/ few) \in BOOLEAN
      OBVIOUS
    <3>2. d \in {0, 1} /\ semerrs' = semerrs + d
      BY <1>2, <2>1, <3>1, ReportCounts
    <3>3. d = c + Count(few)
      BY <1>5, <2>2 DEF Count, c
    <3> QED
      BY <3>2, <3>3
  <2>5. Count(few) \in {0, 1}
    BY DEF Count
  <2> HIDE DEF d
  <2>6. ASSUME NEW n \in Nat, Waiting(Top, n) PROVE Judged(n + m + d, attr', expr')
    <3> DEFINE k == n + m + c
    <3>1. k \in Nat /\ n + m + d = k + Count(few)
      BY <1>2, <1>7, <2>4, <2>5
    <3>2. Calling(k, Top.in, r.wrong, r.c, Called)
      BY <1>4, <2>6
    <3> HIDE DEF k
    <3>3. Judged(k + Count(few), CallType(Top.in), Complete(Called))
      BY <1>2, <3>1, <3>2, CallJudged DEF few
    <3> QED
      BY <2>1, <3>1, <3>3
  <2>7. \A n \in Nat : Waiting(Top, n) => Judged(n + (semerrs - Top.reports) + d, attr', expr')
    BY <2>6 DEF m
  <2> QED
    BY <1>1, <1>2, <2>1, <2>3, <2>4, <2>7, OperandReturns
<1> QED
  BY <1>8, <1>9

\* The index on the left of an assignment ends.
LEMMA VarIndexKeepsInvariant ==
  ASSUME TypingInvariant, VarIndexEnds
  PROVE  TypingInvariant'
<1> DEFINE m    == semerrs - Top.reports
           rule == VarIndexRule(Top.in, attr)
           c    == Count(rule.semerr)
           x    == Binary("index", Top.left, expr)
           g    == Frame("assign", rule.t, "", x)
           f    == [g EXCEPT !.reports = semerrs']
<1>1. /\ pc = "expr end" /\ pc \in Parsed /\ Top.at = "var_" /\ Top.at \in Bottom
      /\ pc' = "simple_expr" /\ attr' = rule.t /\ Report(rule.semerr) /\ Replace(f)
      /\ UNCHANGED <<tokens, expr>>
  BY DEF VarIndexEnds, At, Parsed, Bottom, Apply
<1>2. /\ stack # <<>> /\ Top \in Frames /\ semerrs \in Nat /\ m \in Nat
      /\ attr \in Type /\ expr \in Judgements /\ tokens \in 0 .. MaxTokens /\ Judged(m, attr, expr)
      /\ Top.in \in Type /\ Top.left \in Judgements /\ Top.reports \in Nat
  BY <1>1, ParsedIsJudged DEF Frames
<1>3. rule.t \in Type /\ rule.semerr \in BOOLEAN
  BY <1>2 DEF VarIndexRule, Gives, Reports, Err, Plain, Type, StdTypes, Element
<1>4. ASSUME NEW n \in Nat, Waiting(Top, n) PROVE Target(n + m + c, rule.t, x)
  <2>1. Target(n, Top.in, Top.left)
    BY <1>1, <1>4 DEF Waiting
  <2> QED
    BY <1>2, <2>1, VarIndexJudged
<1>5. x \in Judgements
  BY <1>2, BinaryIsJudgement DEF BinaryOp
<1> HIDE DEF rule, x
<1>6. c \in {0, 1} /\ semerrs' = semerrs + c
  BY <1>1, <1>2, <1>3, ReportCounts
<1>7. m = semerrs - Top.reports
  OBVIOUS
<1> HIDE DEF c, m
<1>8. semerrs' \in Nat /\ Top.reports <= semerrs'
  BY <1>2, <1>6, <1>7
<1>9. /\ f \in Frames /\ f.at = "assign" /\ f.in = rule.t /\ f.left = x /\ f.reports = semerrs'
  <2>1. /\ g \in Frames
        /\ g = [at |-> "assign", in |-> rule.t, op |-> "", c |-> 0, wrong |-> FALSE, left |-> x,
                reports |-> semerrs]
    BY <1>2, <1>3, <1>5, FrameIs DEF Bottom, Operator
  <2> HIDE DEF g
  <2> QED
    BY <1>8, <2>1 DEF Frames
<1> HIDE DEF f
<1>10. ASSUME NEW before \in Nat, before <= Top.reports, Waiting(Top, Top.reports - before)
       PROVE  Waiting(f, f.reports - before)
  <2> DEFINE n == Top.reports - before
  <2>1. n \in Nat /\ f.reports - before = n + m + c
    <3>1. f.reports = semerrs + c
      BY <1>6, <1>9
    <3>2. before <= Top.reports /\ Top.reports \in Nat /\ m \in Nat /\ semerrs \in Nat
      BY <1>2, <1>10
    <3>3. n \in Nat /\ semerrs + c - before = n + m + c
      BY <1>6, <1>7, <3>2, ReportsAdd
    <3> HIDE DEF n
    <3> QED
      BY <1>6, <3>1, <3>2, <3>3
  <2> HIDE DEF n
  <2>2. Waiting(Top, n)
    BY <1>10 DEF n
  <2>3. Target(n + m + c, f.in, f.left)
    BY <1>4, <1>9, <2>1, <2>2
  <2> QED
    BY <1>9, <2>1, <2>3 DEF Waiting
<1>11. stack' \in Seq(Frames) /\ stack' # <<>> /\ StackIsRight' /\ Reported' = semerrs'
  <2>1. Top.at \in Bottom <=> f.at \in Bottom
    BY <1>1, <1>9 DEF Bottom
  <2> QED
    BY <1>1, <1>2, <1>8, <1>9, <1>10, <2>1, StackIsReplaced DEF TypingInvariant, TypingTypeOK
<1>12. TypingTypeOK'
  BY <1>1, <1>3, <1>8, <1>11 DEF TypingInvariant, TypingTypeOK
<1>13. pc' \notin Parsed \cup Starts /\ pc' \notin {"statement", "var_", "factor_", "end"}
  BY <1>1 DEF Parsed, Starts
<1>14. Reported' <= semerrs'
  BY <1>8, <1>11
<1>15. ExprIsRight'
  BY <1>1, <1>11, <1>13, <1>14 DEF ExprIsRight
<1> QED
  BY <1>11, <1>12, <1>15 DEF TypingInvariant

LEMMA EndKeepsInvariant ==
  ASSUME TypingInvariant, Assign \/ Decide
  PROVE  TypingInvariant'
<1> DEFINE m == semerrs - Top.reports
<1>1. pc \in Parsed /\ Top.at \in Bottom /\ pc' = "end" /\ Pop /\ UNCHANGED <<attr, tokens>>
  BY DEF Assign, Decide, At, Parsed, Bottom
<1>2. /\ stack # <<>> /\ Top \in Frames /\ semerrs \in Nat /\ m \in Nat
      /\ attr \in Type /\ expr \in Judgements /\ Judged(m, attr, expr)
      /\ Top.in \in Type /\ Top.left \in Judgements
  BY <1>1, ParsedIsJudged DEF Frames
<1>3. PICK yes \in BOOLEAN :
        /\ Report(yes) /\ expr' \in Judgements
        /\ \A n \in Nat : Waiting(Top, n) => Verdict(n + m + Count(yes), expr')
  <2>1. CASE Assign
    <3> DEFINE yes == AssignFails(Top.in, attr)
    <3>1. Report(yes) /\ Top.at = "assign" /\ expr' = Binary("assign", Top.left, expr)
      BY <2>1 DEF Assign, At
    <3>2. yes \in BOOLEAN
      BY DEF AssignFails
    <3>3. expr' \in Judgements
      BY <1>2, <3>1, BinaryIsJudgement
    <3>4. ASSUME NEW n \in Nat, Waiting(Top, n) PROVE Verdict(n + m + Count(yes), expr')
      <4>1. Target(n, Top.in, Top.left)
        BY <3>1, <3>4 DEF Waiting
      <4> QED
        BY <1>2, <3>1, <4>1, AssignmentJudged
    <3> HIDE DEF yes, m
    <3> QED
      BY <3>1, <3>2, <3>3, <3>4
  <2>2. CASE Decide
    <3> DEFINE yes == ConditionFails(attr)
    <3>1. Report(yes) /\ Top.at = "condition" /\ expr' = Unary("condition", expr)
      BY <2>2 DEF Decide, At
    <3>2. yes \in BOOLEAN
      BY DEF ConditionFails
    <3>3. expr' \in Judgements
      BY <1>2, <3>1, UnaryIsJudgement
    <3>4. ASSUME NEW n \in Nat, Waiting(Top, n) PROVE Verdict(n + m + Count(yes), expr')
      <4>1. Verdict(m + Count(yes), expr')
        BY <1>2, <3>1, ConditionJudged
      <4>2. n = 0
        BY <3>1, <3>4 DEF Waiting
      <4>3. n + m = m
        BY <1>2, <4>2
      <4> QED
        BY <4>1, <4>3
    <3> HIDE DEF yes, m
    <3> QED
      BY <3>1, <3>2, <3>3, <3>4
  <2> QED
    BY <2>1, <2>2
<1>4. Count(yes) \in {0, 1} /\ semerrs' = semerrs + Count(yes)
  BY <1>2, <1>3, ReportCounts
<1>5. \A n \in Nat : Waiting(Top, n) => Verdict(n + (semerrs - Top.reports) + Count(yes), expr')
  BY <1>3
<1> QED
  BY <1>1, <1>2, <1>3, <1>4, <1>5, StatementEnds

-----------------------------------------------------------------------------
(* The theorems.                                                           *)

\* Of every expression that was parsed, and of every part of one that waits, the
\* analysis knows the right type, or has reported that there is none; its reports
\* are as many as the mistakes allow.  For every set of symbols, and statements of
\* any length.
THEOREM StatementsAreJudged == TypeSpec => []TypingInvariant
<1>1. TypeInit => TypingInvariant
  BY InitIsJudged
<1>2. TypingInvariant /\ [TypeNext]_typeVars => TypingInvariant'
  <2> SUFFICES ASSUME TypingInvariant, [TypeNext]_typeVars PROVE TypingInvariant'
    OBVIOUS
  <2>1. CASE Begin
    BY <2>1, StartKeepsInvariant DEF Begin
  <2>2. CASE Operate
    BY <2>2, OperandKeepsInvariant, FactorKeepsInvariant, OperatorKeepsInvariant DEF Operate
  <2>3. CASE Resume
    BY <2>3, UnaryKeepsInvariant, BinaryKeepsInvariant, ReturnKeepsInvariant,
       ArgumentKeepsInvariant, VarIndexKeepsInvariant, EndKeepsInvariant DEF Resume
  <2>4. CASE UNCHANGED typeVars
    <3>1. StackIsRight' /\ Reported' = Reported
      BY <2>4, StackStays DEF typeVars, TypingInvariant
    <3>2. TypingTypeOK'
      BY <2>4 DEF typeVars, TypingInvariant, TypingTypeOK
    <3>3. ExprIsRight'
      BY <2>4, <3>1 DEF typeVars, TypingInvariant, ExprIsRight
    <3> QED
      BY <3>1, <3>2, <3>3 DEF TypingInvariant
  <2> QED
    BY <2>1, <2>2, <2>3, <2>4 DEF TypeNext
<1> QED
  BY <1>1, <1>2, PTL DEF TypeSpec

\* No mistake goes unnoticed: what was parsed without any report is well typed,
\* with the leniency of the property.
THEOREM SilenceIsWellTyped == TypeSpec => []SilentMeansWellTyped
<1>1. TypingInvariant => SilentMeansWellTyped
  BY DEF TypingInvariant, ExprIsRight, Verdict, SilentMeansWellTyped, WellTyped
<1> QED
  BY <1>1, StatementsAreJudged, PTL

\* No false alarm: semerr is never called in a well-typed statement.
THEOREM WellTypedIsNotReported == TypeSpec => []WellTypedIsSilent
<1>1. TypingInvariant => WellTypedIsSilent
  BY DEF TypingInvariant, ExprIsRight, Verdict, WellTypedIsSilent, WellTyped
<1> QED
  BY <1>1, StatementsAreJudged, PTL

\* However deep an expression is nested, the ERR that an operator passes on keeps
\* those around it from reporting its mistake again.
THEOREM MistakesAreReportedOnce == TypeSpec => []NoCascade
<1>1. TypingInvariant => NoCascade
  <2> SUFFICES ASSUME TypingInvariant, pc = "expr end"
               PROVE  semerrs - Top.reports <= Due(expr)
    BY DEF NoCascade, Due
  <2>1. /\ semerrs - Top.reports \in Nat /\ expr \in Judgements
        /\ Judged(semerrs - Top.reports, attr, expr)
    BY ParsedIsJudged DEF Parsed
  <2>2. Paid(semerrs - Top.reports, attr, expr) /\ IsJudged(expr)
    BY <2>1, JudgementHas DEF Judged
  <2> QED
    BY <2>1, <2>2, PaidIsEnough
<1> QED
  BY <1>1, StatementsAreJudged, PTL
=============================================================================
