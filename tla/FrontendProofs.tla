--------------------------- MODULE FrontendProofs ---------------------------
(***************************************************************************)
(* What is proved of the parser and of the symbol table, each on its own,  *)
(* holds of the two together: every step of the front-end is a step of     *)
(* each or leaves it alone.  So the table is sound whatever source drives  *)
(* it, through any recovery; and as long as there is no syntax error the   *)
(* parser calls the table in the order that Declarations.tla assumes, and  *)
(* leaves every method that it enters.                                     *)
(*                                                                         *)
(* For the first, what has to be shown is that the parser asks for nothing *)
(* the table's specification does not allow.  The count of parameters      *)
(* never exceeds the entries that were made; and the functions that        *)
(* dereference the eye are called only while a function head is entered,   *)
(* where the eye is on the method or on the last of its parameters.  That  *)
(* begins with the parser alone: at most one function head is being        *)
(* parsed, what is left of its body says which of its calls were made, and *)
(* only the calls of symbol_table.c enter it and leave it.                 *)
(*                                                                         *)
(* For the second, the scopes around the eye are those of the declarations *)
(* on the stack that were entered and not left yet.  What is left of the   *)
(* body of such a declaration says which of the two it is, so that one     *)
(* part is about the stack alone, one about the table, and the last puts   *)
(* them together.                                                          *)
(*                                                                         *)
(* At the end, HandUp.tla: the count of parameters that the productions    *)
(* hand up is the number of those entered, so that the parser with its     *)
(* attributes implements Frontend.tla.                                     *)
(***************************************************************************)
EXTENDS HandUp, ParserProofs, SymbolTableProofs, FiniteSetTheorems

-----------------------------------------------------------------------------
(* Function heads on the stack.                                            *)

\* A call that waits is at the place of its callee in a body.
LEMMA CallIsInBody ==
  ASSUME ParserTypeOK, CallsNest, PlacesInBodies, NEW i \in DOMAIN stack, i < Len(stack)
  PROVE  /\ i + 1 \in DOMAIN stack /\ stack[i].prod \in Production /\ stack[i].at = "body"
         /\ \E a \in Rules[stack[i].prod] : \E k \in DOMAIN a.body :
              /\ a.body[k] = Sub(stack[i + 1].prod)
              /\ stack[i].todo = SubSeq(a.body, k + 1, Len(a.body))
<1>1. stack # <<>>
  BY EmptySeq
<1>2. /\ Len(stack) \in DOMAIN stack /\ stack[i].at = "body" /\ i + 1 \in DOMAIN stack
      /\ stack[i].prod \in Production /\ i # Len(stack)
  BY <1>1, TopIsFrame DEF CallsNest, FrameType
<1>3. PICK a \in Rules[stack[i].prod] : \E k \in 0 .. Len(a.body) :
        /\ stack[i].todo = SubSeq(a.body, k + 1, Len(a.body))
        /\ k > 0 /\ a.body[k] = Sub(stack[i + 1].prod)
  BY <1>2 DEF PlacesInBodies
<1>4. PICK k \in 0 .. Len(a.body) :
        /\ stack[i].todo = SubSeq(a.body, k + 1, Len(a.body))
        /\ k > 0 /\ a.body[k] = Sub(stack[i + 1].prod)
  BY <1>3
<1>5. a.body \in Seq(Step)
  BY <1>2, BodyIsSteps
<1>6. k \in DOMAIN a.body
  BY <1>4, <1>5, LenProperties
<1> QED
  BY <1>2, <1>4, <1>6

\* What a call that waits is waiting for is among the calls of its production.
LEMMA CalleeInHead ==
  ASSUME ParserTypeOK, CallsNest, PlacesInBodies, NEW i \in DOMAIN stack, i < Len(stack)
  PROVE  /\ stack[i].prod \in InHead \cup {"subprogram_head"} => stack[i + 1].prod \in InHead
         /\ stack[i + 1].prod \in HeadParts => stack[i].prod \in HeadParts \cup {"subprogram_head"}
<1>1. stack[i].prod \in Production
  BY CallIsInBody
<1>2. PICK a \in Rules[stack[i].prod] : \E k \in DOMAIN a.body : a.body[k] = Sub(stack[i + 1].prod)
  BY CallIsInBody
<1>3. PICK k \in DOMAIN a.body : a.body[k] = Sub(stack[i + 1].prod)
  BY <1>2
<1>4. a.body[k].op = "parse" /\ a.body[k].arg = stack[i + 1].prod
  BY <1>3 DEF Sub
<1> QED
  BY <1>1, <1>4, HeadAssumption

\* All that is called from a function head is part of it.
LEMMA OnlyPartsInside ==
  ASSUME ParserTypeOK, CallsNest, PlacesInBodies,
         NEW i \in DOMAIN stack, stack[i].prod \in InHead \cup {"subprogram_head"},
         NEW j \in DOMAIN stack, i < j
  PROVE  stack[j].prod \in InHead
<1> DEFINE Out == {x \in DOMAIN stack : i < x /\ stack[x].prod \notin InHead}
<1>1. SUFFICES ASSUME Out # {} PROVE FALSE
  OBVIOUS
<1>2. stack # <<>> /\ DOMAIN stack = 1 .. Len(stack) /\ Len(stack) \in Nat
  BY TopIsFrame, EmptySeq
<1>3. PICK x \in Out : \A y \in Out : x <= y
  <2>1. Out \in SUBSET Nat
    BY <1>2
  <2> HIDE DEF Out
  <2> QED
    BY <1>1, <2>1, LeastExists
<1> DEFINE z == x - 1
<1>4. x \in DOMAIN stack /\ i < x /\ stack[x].prod \notin InHead
  OBVIOUS
<1>5. z \in DOMAIN stack /\ z < Len(stack) /\ z + 1 = x /\ ~(x <= z) /\ (i < z \/ i = z)
  BY <1>2, <1>4
<1>6. z \notin Out
  BY <1>3, <1>5
<1> HIDE DEF z
<1>7. stack[z].prod \in InHead \cup {"subprogram_head"}
  BY <1>5, <1>6
<1> HIDE DEF Out
<1>8. stack[z + 1].prod \in InHead
  BY <1>5, <1>7, CalleeInHead
<1> QED
  BY <1>4, <1>5, <1>8

\* Parameters are parsed inside a function head.
LEMMA HeadIsBelow ==
  ASSUME ParserTypeOK, CallsNest, PlacesInBodies, ProgramIsOutermost,
         NEW i \in DOMAIN stack, stack[i].prod \in HeadParts
  PROVE  \E j \in DOMAIN stack : j < Len(stack) /\ stack[j].prod = "subprogram_head"
                                 /\ stack[j + 1].prod \in HeadParts
<1> DEFINE Parts == {x \in DOMAIN stack : stack[x].prod \in HeadParts}
<1>1. stack # <<>> /\ DOMAIN stack = 1 .. Len(stack) /\ Len(stack) \in Nat
  BY TopIsFrame, EmptySeq
<1>2. PICK x \in Parts : \A y \in Parts : x <= y
  <2>1. Parts \in SUBSET Nat /\ Parts # {}
    BY <1>1
  <2> HIDE DEF Parts
  <2> QED
    BY <2>1, LeastExists
<1>3. x # 1
  BY <1>1 DEF ProgramIsOutermost, HeadParts
<1> DEFINE z == x - 1
<1>4. z \in DOMAIN stack /\ z < Len(stack) /\ z + 1 = x /\ ~(x <= z) /\ stack[x].prod \in HeadParts
  BY <1>1, <1>3
<1>5. stack[z].prod \notin HeadParts
  BY <1>2, <1>4
<1> HIDE DEF z
<1>6. stack[z + 1].prod \in HeadParts
  BY <1>4
<1>7. stack[z].prod \in HeadParts \cup {"subprogram_head"}
  BY <1>4, <1>6, CalleeInHead
<1> QED
  BY <1>4, <1>5, <1>6, <1>7

\* Where the calls of symbol_table.c are in a function head.
LEMMA HeadCalls ==
  /\ HeadBody \in Seq({HeadBody[i] : i \in 1 .. 6}) /\ Len(HeadBody) = 6
  /\ \A i \in 1 .. 6 : /\ HeadBody[i] = Sym("check_enter_method") <=> i = 3
                       /\ HeadBody[i] = Sym("set_method_type") <=> i = 5
                       /\ HeadBody[i] = Sym("set_method_param_count") <=> i = 6
                       /\ HeadBody[i].op = "match" => i \in 1 .. 2
                       /\ HeadBody[i].op = "parse" <=> i = 4
<1>1. /\ HeadBody[1] = Tok("FUNCTION") /\ HeadBody[2] = Tok("ID")
      /\ HeadBody[3] = Sym("check_enter_method") /\ HeadBody[4] = Sub("subprogram_head_")
      /\ HeadBody[5] = Sym("set_method_type") /\ HeadBody[6] = Sym("set_method_param_count")
      /\ Len(HeadBody) = 6 /\ DOMAIN HeadBody = 1 .. 6
  BY DEF HeadBody
<1>2. HeadBody \in Seq({HeadBody[i] : i \in 1 .. 6})
  <2>1. \E n \in Nat : HeadBody \in [1 .. n -> {HeadBody[i] : i \in 1 .. 6}]
    <3>1. HeadBody = [i \in 1 .. 6 |-> HeadBody[i]]
      BY DEF HeadBody
    <3>2. HeadBody \in [1 .. 6 -> {HeadBody[i] : i \in 1 .. 6}]
      BY <3>1
    <3> QED
      BY <3>2
  <2> QED
    BY <2>1, SeqDef
<1>3. ASSUME NEW i \in 1 .. 6
      PROVE  /\ HeadBody[i] = Sym("check_enter_method") <=> i = 3
             /\ HeadBody[i] = Sym("set_method_type") <=> i = 5
             /\ HeadBody[i] = Sym("set_method_param_count") <=> i = 6
             /\ HeadBody[i].op = "match" => i \in 1 .. 2
             /\ HeadBody[i].op = "parse" <=> i = 4
  <2>1. i = 1 \/ i = 2 \/ i = 3 \/ i = 4 \/ i = 5 \/ i = 6
    OBVIOUS
  <2> QED
    BY <1>1, <2>1 DEF Tok, Sub, Sym
<1> QED
  BY <1>1, <1>2, <1>3

\* What is in the rest of a function head.
LEMMA RestOfHead ==
  ASSUME NEW k \in 0 .. 6, NEW p \in 1 .. 6, NEW s,
         \A i \in 1 .. 6 : HeadBody[i] = s <=> i = p
  PROVE  s \in ToSet(SubSeq(HeadBody, k + 1, 6)) <=> k < p
<1> DEFINE S == {HeadBody[i] : i \in 1 .. 6}
           b == HeadBody
           r == SubSeq(b, k + 1, Len(b))
<1>1. b \in Seq(S) /\ Len(b) = 6
  BY HeadCalls
<1> HIDE DEF S, b
<1>2. k \in 0 .. Len(b)
  BY <1>1
<1>3. r \in Seq(S) /\ Len(r) = 6 - k /\ \A i \in 1 .. 6 - k : r[i] = b[k + i]
  BY <1>1, <1>2, Rest
<1>4. DOMAIN r = 1 .. 6 - k
  BY <1>3, LenProperties
<1> HIDE DEF r
<1>5. s \in ToSet(r) <=> \E i \in 1 .. 6 - k : b[k + i] = s
  BY <1>3, <1>4 DEF ToSet
<1>6. \A i \in 1 .. 6 - k : b[k + i] = s <=> k + i = p
  <2> TAKE i \in 1 .. 6 - k
  <2>1. k + i \in 1 .. 6
    OBVIOUS
  <2> QED
    BY <2>1 DEF b
<1>7. k < p <=> \E i \in 1 .. 6 - k : k + i = p
  <2>1. k < p => p - k \in 1 .. 6 - k /\ k + (p - k) = p
    OBVIOUS
  <2> QED
    BY <2>1
<1> QED
  BY <1>1, <1>5, <1>6, <1>7 DEF r, b

\* How much of a function head is left says which of its calls are.
HeadsAreCounted ==
  \A i \in DOMAIN stack : stack[i].prod = "subprogram_head" =>
    LET l == Len(stack[i].todo)
    IN  /\ l \in 0 .. 6
        /\ Sym("check_enter_method") \in ToSet(stack[i].todo) <=> l >= 4
        /\ Sym("set_method_type") \in ToSet(stack[i].todo) <=> l >= 2
        /\ Sym("set_method_param_count") \in ToSet(stack[i].todo) <=> l >= 1
        /\ i < Len(stack) => l = 2
        /\ l > 0 => Head(stack[i].todo) = HeadBody[7 - l]

LEMMA HeadTodo ==
  ParserTypeOK /\ CallsNest /\ PlacesInBodies => HeadsAreCounted
<1> SUFFICES ASSUME ParserTypeOK, CallsNest, PlacesInBodies,
                    NEW i \in DOMAIN stack, stack[i].prod = "subprogram_head"
             PROVE  LET l == Len(stack[i].todo)
                    IN  /\ l \in 0 .. 6
                        /\ Sym("check_enter_method") \in ToSet(stack[i].todo) <=> l >= 4
                        /\ Sym("set_method_type") \in ToSet(stack[i].todo) <=> l >= 2
                        /\ Sym("set_method_param_count") \in ToSet(stack[i].todo) <=> l >= 1
                        /\ i < Len(stack) => l = 2
                        /\ l > 0 => Head(stack[i].todo) = HeadBody[7 - l]
  BY DEF HeadsAreCounted
<1>1. stack # <<>> /\ Len(stack) \in DOMAIN stack /\ DOMAIN stack = 1 .. Len(stack)
      /\ stack[i] \in FrameType
  BY TopIsFrame, EmptySeq
<1>2. ASSUME NEW k \in 0 .. 6, stack[i].todo = SubSeq(HeadBody, k + 1, 6)
      PROVE  /\ Len(stack[i].todo) = 6 - k
             /\ Sym("check_enter_method") \in ToSet(stack[i].todo) <=> k < 3
             /\ Sym("set_method_type") \in ToSet(stack[i].todo) <=> k < 5
             /\ Sym("set_method_param_count") \in ToSet(stack[i].todo) <=> k < 6
             /\ k < 6 => Head(stack[i].todo) = HeadBody[k + 1]
  <2> DEFINE S == {HeadBody[j] : j \in 1 .. 6}
  <2>1. HeadBody \in Seq(S) /\ Len(HeadBody) = 6
    BY HeadCalls
  <2> HIDE DEF S
  <2>2. Len(SubSeq(HeadBody, k + 1, Len(HeadBody))) = 6 - k
    BY <2>1, Rest
  <2>3. SubSeq(HeadBody, k + 1, Len(HeadBody)) = <<>> => k = 6
    BY <2>1, RestGoesOn
  <2>4. SubSeq(HeadBody, k + 1, Len(HeadBody)) # <<>> =>
          Head(SubSeq(HeadBody, k + 1, Len(HeadBody))) = HeadBody[k + 1]
    BY <2>1, RestGoesOn
  <2>5. 3 \in 1 .. 6 /\ 5 \in 1 .. 6 /\ 6 \in 1 .. 6
    OBVIOUS
  <2>6. /\ Sym("check_enter_method") \in ToSet(stack[i].todo) <=> k < 3
        /\ Sym("set_method_type") \in ToSet(stack[i].todo) <=> k < 5
        /\ Sym("set_method_param_count") \in ToSet(stack[i].todo) <=> k < 6
    BY <1>2, <2>5, HeadCalls, RestOfHead
  <2> QED
    BY <1>2, <2>1, <2>2, <2>3, <2>4, <2>6
<1>3. CASE stack[i].at # "body"
  <2>1. stack[i].todo = <<>>
    BY <1>3 DEF PlacesInBodies
  <2>2. Len(stack[i].todo) = 0 /\ ToSet(stack[i].todo) = {}
    BY <2>1, EmptySeq DEF ToSet
  <2>3. ~(i < Len(stack))
    BY <1>1, <1>3 DEF CallsNest
  <2> QED
    BY <2>2, <2>3
<1>4. CASE stack[i].at = "body"
  <2>1. PICK a \in Rules[stack[i].prod] : \E k \in 0 .. Len(a.body) :
           /\ stack[i].todo = SubSeq(a.body, k + 1, Len(a.body))
           /\ i < Len(stack) => k > 0 /\ a.body[k] = Sub(stack[i + 1].prod)
    BY <1>1, <1>4 DEF PlacesInBodies
  <2>2. a.body = HeadBody /\ Len(a.body) = 6
    BY HeadAssumption, HeadCalls
  <2>3. PICK k \in 0 .. 6 :
           /\ stack[i].todo = SubSeq(HeadBody, k + 1, 6)
           /\ i < Len(stack) => k > 0 /\ HeadBody[k] = Sub(stack[i + 1].prod)
    BY <2>1, <2>2
  <2>4. i < Len(stack) => k = 4
    <3> SUFFICES ASSUME i < Len(stack) PROVE k = 4
      OBVIOUS
    <3>1. k \in 1 .. 6 /\ HeadBody[k].op = "parse"
      BY <2>3 DEF Sub
    <3> QED
      BY <3>1, HeadCalls
  <2>5. /\ Len(stack[i].todo) = 6 - k
        /\ Sym("check_enter_method") \in ToSet(stack[i].todo) <=> k < 3
        /\ Sym("set_method_type") \in ToSet(stack[i].todo) <=> k < 5
        /\ Sym("set_method_param_count") \in ToSet(stack[i].todo) <=> k < 6
        /\ k < 6 => Head(stack[i].todo) = HeadBody[k + 1]
    BY <1>2, <2>3
  <2> DEFINE l == Len(stack[i].todo)
  <2>6. l = 6 - k /\ k + 1 = 7 - l
    BY <2>5
  <2>7. k < 6 <=> l > 0
    BY <2>6
  <2> HIDE DEF l
  <2>8. l > 0 => Head(stack[i].todo) = HeadBody[7 - l]
    BY <2>5, <2>6, <2>7
  <2> QED
    BY <2>4, <2>5, <2>6, <2>8 DEF l
<1> QED
  BY <1>3, <1>4

\* A call of parse_subprogram_head that has entered its method.
FrameEntered(f, call) ==
  /\ f.prod = "subprogram_head" /\ Sym(call) \in ToSet(f.todo)
  /\ Sym("check_enter_method") \notin ToSet(f.todo)

LEMMA EnteredFrame ==
  \A call : EnteredWith(call) <=> \E i \in DOMAIN stack : FrameEntered(stack[i], call)
BY DEF EnteredWith, FrameEntered

HeadCall == {"set_method_type", "set_method_param_count"}

\* How much of the head is left when its method is entered.
FramesAreCounted ==
  \A i \in DOMAIN stack : \A call \in HeadCall :
    FrameEntered(stack[i], call) <=>
      /\ stack[i].prod = "subprogram_head"
      /\ Len(stack[i].todo) \in 1 .. 3
      /\ call = "set_method_type" => Len(stack[i].todo) # 1

LEMMA FrameCounted == HeadsAreCounted => FramesAreCounted
<1> SUFFICES ASSUME HeadsAreCounted, NEW i \in DOMAIN stack, NEW call \in HeadCall
             PROVE  FrameEntered(stack[i], call) <=>
                      /\ stack[i].prod = "subprogram_head"
                      /\ Len(stack[i].todo) \in 1 .. 3
                      /\ call = "set_method_type" => Len(stack[i].todo) # 1
  BY DEF FramesAreCounted
<1> DEFINE l == Len(stack[i].todo)
           s == ToSet(stack[i].todo)
<1>1. CASE stack[i].prod = "subprogram_head"
  <2>1. /\ l \in 0 .. 6
        /\ Sym("check_enter_method") \in s <=> l >= 4
        /\ Sym("set_method_type") \in s <=> l >= 2
        /\ Sym("set_method_param_count") \in s <=> l >= 1
    BY <1>1 DEF HeadsAreCounted
  <2> HIDE DEF l, s
  <2>2. FrameEntered(stack[i], call) <=> Sym(call) \in s /\ ~(Sym("check_enter_method") \in s)
    BY <1>1 DEF FrameEntered, s
  <2>3. (l >= 4 <=> l \in 4 .. 6) /\ (l >= 2 <=> l \in 2 .. 6) /\ (l >= 1 <=> l \in 1 .. 6)
    BY <2>1
  <2>4. CASE call = "set_method_type"
    <3>1. FrameEntered(stack[i], call) <=> l \in 2 .. 3
      BY <2>1, <2>2, <2>3, <2>4
    <3>2. l \in 2 .. 3 <=> l \in 1 .. 3 /\ l # 1
      BY <2>1
    <3> QED
      BY <1>1, <2>4, <3>1, <3>2 DEF l
  <2>5. CASE call = "set_method_param_count"
    <3>1. FrameEntered(stack[i], call) <=> l \in 1 .. 3
      BY <2>1, <2>2, <2>3, <2>5
    <3> QED
      BY <1>1, <2>5, <3>1 DEF l
  <2> QED
    BY <2>4, <2>5 DEF HeadCall
<1>2. CASE stack[i].prod # "subprogram_head"
  BY <1>2 DEF FrameEntered
<1> QED
  BY <1>1, <1>2

\* Only one head is parsed at a time.
LEMMA OneHead ==
  ParserTypeOK /\ CallsNest /\ PlacesInBodies =>
    \A i, j \in DOMAIN stack :
      stack[i].prod = "subprogram_head" /\ stack[j].prod = "subprogram_head" => i = j
<1> SUFFICES ASSUME ParserTypeOK, CallsNest, PlacesInBodies,
                    NEW i \in DOMAIN stack, NEW j \in DOMAIN stack,
                    stack[i].prod = "subprogram_head", stack[j].prod = "subprogram_head", i # j
             PROVE  FALSE
  OBVIOUS
<1>1. i < j \/ j < i
  <2>1. DOMAIN stack = 1 .. Len(stack) /\ Len(stack) \in Nat
    BY TopIsFrame, EmptySeq
  <2> QED
    BY <2>1
<1>2. "subprogram_head" \notin InHead
  BY DEF InHead, HeadParts
<1> QED
  BY <1>1, <1>2, OnlyPartsInside

\* So what is left of it says what is left of every head.
EnteredAreCounted ==
  \A i \in DOMAIN stack : stack[i].prod = "subprogram_head" =>
    \A call \in HeadCall :
      EnteredWith(call) <=> /\ Len(stack[i].todo) \in 1 .. 3
                            /\ call = "set_method_type" => Len(stack[i].todo) # 1

LEMMA EnteredCounted ==
  ParserTypeOK /\ CallsNest /\ PlacesInBodies => EnteredAreCounted
<1> SUFFICES ASSUME ParserTypeOK, CallsNest, PlacesInBodies, NEW i \in DOMAIN stack,
                    stack[i].prod = "subprogram_head", NEW call \in HeadCall
             PROVE  EnteredWith(call) <=> /\ Len(stack[i].todo) \in 1 .. 3
                                          /\ call = "set_method_type" => Len(stack[i].todo) # 1
  BY DEF EnteredAreCounted
<1>1. HeadsAreCounted
  BY HeadTodo
<1>2. \A j \in DOMAIN stack : FrameEntered(stack[j], call) => j = i
  BY OneHead DEF FrameEntered
<1>3. EnteredWith(call) <=> FrameEntered(stack[i], call)
  BY <1>2, EnteredFrame
<1> QED
  BY <1>1, <1>3, FrameCounted DEF FramesAreCounted

\* A step of the running call, by what it does to that call alone.
LEMMA EnteredByTop ==
  ASSUME ParserTypeOK, stack # <<>>, NEW f \in FrameType, Become(f), NEW call,
         FrameEntered(f, call) <=> FrameEntered(Top, call)
  PROVE  EnteredWith(call)' <=> EnteredWith(call)
<1>1. stack \in Seq(FrameType)
  BY DEF ParserTypeOK
<1>2. Len(stack) \in Nat \ {0} /\ DOMAIN stack = 1 .. Len(stack) /\ Top = stack[Len(stack)]
  BY TopIsFrame
<1>3. /\ stack' \in Seq(FrameType) /\ Len(stack') = Len(stack) /\ stack'[Len(stack)] = f
      /\ \A i \in 1 .. Len(stack) - 1 : stack'[i] = stack[i]
  BY <1>1, Replaced DEF Become
<1>4. DOMAIN stack' = DOMAIN stack
  BY <1>2, <1>3, LenProperties
<1>5. \A i \in DOMAIN stack : FrameEntered(stack'[i], call) <=> FrameEntered(stack[i], call)
  <2> TAKE i \in DOMAIN stack
  <2>1. CASE i = Len(stack)
    BY <1>2, <1>3, <2>1
  <2>2. CASE i # Len(stack)
    BY <1>2, <1>3, <2>2
  <2> QED
    BY <2>1, <2>2
<1>6. EnteredWith(call)' <=> \E i \in DOMAIN stack' : FrameEntered(stack'[i], call)
  BY DEF EnteredWith, FrameEntered
<1> QED
  BY <1>4, <1>5, <1>6, EnteredFrame

\* A call with nothing left to do leaves nothing behind.
LEMMA EnteredByPop ==
  ASSUME StackInvariant, stack # <<>>, stack' = Front(stack), UNCHANGED read, Top.todo = <<>>, NEW call
  PROVE  EnteredWith(call)' <=> EnteredWith(call)
<1>1. /\ DOMAIN stack' = 1 .. Len(stack) - 1
      /\ \A i \in DOMAIN stack' : i \in DOMAIN stack /\ stack'[i] = stack[i]
  BY ReturnKeepsNesting
<1>2. Len(stack) \in Nat \ {0} /\ DOMAIN stack = 1 .. Len(stack) /\ Top = stack[Len(stack)]
  BY TopIsFrame DEF StackInvariant
<1>3. ~FrameEntered(Top, call)
  BY EmptySeq DEF FrameEntered, ToSet
<1>4. EnteredWith(call)' <=> \E i \in DOMAIN stack' : FrameEntered(stack'[i], call)
  BY DEF EnteredWith, FrameEntered
<1>5. \A i \in DOMAIN stack : i # Len(stack) => i \in DOMAIN stack'
  BY <1>1, <1>2
<1> QED
  BY <1>1, <1>2, <1>3, <1>4, <1>5, EnteredFrame

\* The running call at a step of a function head.
LEMMA HeadStep ==
  ASSUME ParserTypeOK, CallsNest, PlacesInBodies, NEW op, NextIs(op), Top.prod = "subprogram_head"
  PROVE  /\ Len(Top.todo) \in 1 .. 6 /\ Len(Advanced.todo) = Len(Top.todo) - 1
         /\ Head(Top.todo) = HeadBody[7 - Len(Top.todo)]
         /\ op = "match" => Len(Top.todo) \in 5 .. 6
         /\ op = "parse" => Len(Top.todo) = 3
<1> DEFINE l == Len(Top.todo)
           m == 7 - l
<1>1. stack # <<>> /\ Top.todo # <<>> /\ Head(Top.todo).op = op
  BY HeadIsStep
<1>2. Len(stack) \in DOMAIN stack /\ Top = stack[Len(stack)] /\ Top \in FrameType /\ Top.todo \in Seq(Step)
  BY <1>1, TopIsFrame DEF FrameType
<1>3. l \in 0 .. 6 /\ (l > 0 => Head(Top.todo) = HeadBody[7 - l])
  BY <1>2, HeadTodo DEF HeadsAreCounted
<1>4. l # 0
  BY <1>1, <1>2, EmptySeq
<1>5. Len(Advanced.todo) = l - 1
  <2>1. Advanced.todo = Tail(Top.todo)
    BY <1>2 DEF Advanced, FrameType
  <2> QED
    BY <1>1, <1>2, <2>1, HeadTailProperties
<1> HIDE DEF l
<1>6. l \in 1 .. 6 /\ l > 0 /\ m \in 1 .. 6
  BY <1>3, <1>4
<1>7. Head(Top.todo) = HeadBody[m]
  BY <1>3, <1>6
<1>8. (m = 4 => l = 3) /\ (m \in 1 .. 2 => l \in 5 .. 6)
  BY <1>6
<1>9. HeadBody[7 - l] = HeadBody[m]
  OBVIOUS
<1> HIDE DEF m
<1>10. (op = "match" => m \in 1 .. 2) /\ (op = "parse" => m = 4)
  BY <1>1, <1>6, <1>7, HeadCalls
<1> QED
  BY <1>5, <1>6, <1>7, <1>8, <1>9, <1>10 DEF l

\* Heads come and go, and are entered, only with a call of symbol_table.c.
LEMMA EnteredKept ==
  ASSUME ParserInvariant, Switch \/ match \/ Call \/ Return \/ synch \/ Finish, NEW call \in HeadCall
  PROVE  EnteredWith(call)' <=> EnteredWith(call)
<1>1. /\ StackInvariant /\ ParserTypeOK /\ CallsNest /\ PlacesInBodies
  BY DEF ParserInvariant, StackInvariant
<1>2. stack # <<>> => /\ Len(stack) \in DOMAIN stack /\ Len(stack) \in Nat \ {0}
                      /\ Top = stack[Len(stack)] /\ Top \in FrameType
                      /\ DOMAIN stack = 1 .. Len(stack) /\ stack \in Seq(FrameType)
  BY <1>1, TopIsFrame DEF ParserTypeOK
<1>3. stack # <<>> => (FrameEntered(Top, call) <=>
                         /\ Top.prod = "subprogram_head"
                         /\ Len(Top.todo) \in 1 .. 3
                         /\ call = "set_method_type" => Len(Top.todo) # 1)
  BY <1>1, <1>2, HeadTodo, FrameCounted DEF FramesAreCounted
<1>4. ASSUME stack # <<>> PROVE /\ Recovering \in FrameType /\ Recovering.todo = <<>>
                                /\ ~FrameEntered(Recovering, call)
  <2>1. Recovering \in FrameType /\ Recovering.todo = <<>>
    BY <1>2, <1>4, EmptySeq DEF Recovering, FrameType
  <2> QED
    BY <2>1, EmptySeq DEF FrameEntered, ToSet
<1>5. CASE Switch
  <2>1. stack # <<>> /\ Top.at = "switch"
    BY <1>5 DEF Switch, Running
  <2>2. Top.todo = <<>>
    BY <1>1, <1>2, <2>1 DEF PlacesInBodies
  <2>3. ~FrameEntered(Top, call)
    BY <2>2, EmptySeq DEF FrameEntered, ToSet
  <2>4. ASSUME NEW a \in Rules[Top.prod], Become([Top EXCEPT !.at = "body", !.todo = a.body])
        PROVE  EnteredWith(call)' <=> EnteredWith(call)
    <3> DEFINE f == [Top EXCEPT !.at = "body", !.todo = a.body]
    <3>1. Top.prod \in Production /\ a.body \in Seq(Step)
      BY <1>2, <2>1, BodyIsSteps DEF FrameType
    <3>2. f \in FrameType /\ f.prod = Top.prod /\ f.todo = a.body
      BY <1>2, <2>1, <3>1 DEF FrameType
    <3>3. Become(f)
      BY <2>4
    <3> HIDE DEF f
    <3>4. ~FrameEntered(f, call)
      <4>1. CASE Top.prod = "subprogram_head"
        <5>1. f.todo = SubSeq(HeadBody, 0 + 1, 6)
          <6>1. a.body = HeadBody /\ Len(a.body) = 6
            BY <4>1, HeadAssumption, HeadCalls
          <6>2. 0 \in 0 .. Len(a.body)
            BY <6>1
          <6>3. SubSeq(a.body, 0 + 1, Len(a.body)) = a.body
            BY <3>1, <6>2, RestGoesOn
          <6> QED
            BY <3>2, <6>1, <6>3
        <5>2. 3 \in 1 .. 6 /\ 0 \in 0 .. 6 /\ 0 < 3
          OBVIOUS
        <5>3. Sym("check_enter_method") \in ToSet(f.todo)
          BY <5>1, <5>2, HeadCalls, RestOfHead
        <5> QED
          BY <5>3 DEF FrameEntered
      <4>2. CASE Top.prod # "subprogram_head"
        BY <3>2, <4>2 DEF FrameEntered
      <4> QED
        BY <4>1, <4>2
    <3> QED
      BY <1>1, <2>1, <2>3, <3>2, <3>3, <3>4, EnteredByTop
  <2>5. ASSUME Become(Recovering) PROVE EnteredWith(call)' <=> EnteredWith(call)
    BY <1>1, <1>4, <2>1, <2>3, <2>5, EnteredByTop
  <2> QED
    BY <1>5, <2>4, <2>5 DEF Switch
<1>6. CASE match
  <2>1. NextIs("match") /\ stack # <<>> /\ Advanced \in FrameType /\ Advanced.prod = Top.prod
    BY <1>1, <1>6, HeadIsStep DEF match
  <2>2. ~FrameEntered(Top, call)
    <3>1. Top.prod = "subprogram_head" => Len(Top.todo) \in 5 .. 6
      BY <1>1, <2>1, HeadStep
    <3>2. ~(Len(Top.todo) \in 5 .. 6 /\ Len(Top.todo) \in 1 .. 3)
      OBVIOUS
    <3> QED
      BY <1>3, <2>1, <3>1, <3>2
  <2>3. ASSUME Become(Advanced) PROVE EnteredWith(call)' <=> EnteredWith(call)
    <3>1. ~FrameEntered(Advanced, call)
      <4>1. CASE Top.prod = "subprogram_head"
        <5>1. PICK a \in Rules[Top.prod] : \E k \in 0 .. Len(a.body) :
                /\ k + 1 \in 1 .. Len(a.body)
                /\ a.body[k + 1] = Head(Top.todo)
                /\ Advanced.todo = SubSeq(a.body, k + 1 + 1, Len(a.body))
          BY <1>1, <2>1, PlaceOfStep
        <5>2. a.body = HeadBody /\ Len(a.body) = 6
          BY <4>1, HeadAssumption, HeadCalls
        <5>3. PICK k \in 0 .. 6 :
                /\ k + 1 \in 1 .. 6
                /\ HeadBody[k + 1] = Head(Top.todo)
                /\ Advanced.todo = SubSeq(HeadBody, k + 1 + 1, 6)
          BY <5>1, <5>2
        <5>4. HeadBody[k + 1].op = "match"
          BY <1>1, <2>1, <5>3, HeadIsStep
        <5> DEFINE m == k + 1
        <5>5. m \in 1 .. 2
          BY <5>3, <5>4, HeadCalls
        <5>6. Advanced.todo = SubSeq(HeadBody, m + 1, 6)
          BY <5>3
        <5> HIDE DEF m
        <5>7. m \in 0 .. 6 /\ 3 \in 1 .. 6 /\ m < 3
          BY <5>5
        <5>8. Sym("check_enter_method") \in ToSet(Advanced.todo)
          BY <5>6, <5>7, HeadCalls, RestOfHead
        <5> QED
          BY <5>8 DEF FrameEntered
      <4>2. CASE Top.prod # "subprogram_head"
        BY <2>1, <4>2 DEF FrameEntered
      <4> QED
        BY <4>1, <4>2
    <3> QED
      BY <1>1, <2>1, <2>2, <2>3, <3>1, EnteredByTop
  <2>4. ASSUME Become(Recovering) PROVE EnteredWith(call)' <=> EnteredWith(call)
    BY <1>1, <1>4, <2>1, <2>2, <2>4, EnteredByTop
  <2> QED
    BY <1>6, <2>3, <2>4 DEF match
<1>7. CASE Call
  <2>1. PICK q : stack' = Append(Front(stack), Advanced) \o <<Frame(q, read)>>
    BY <1>7 DEF Call
  <2> DEFINE n == Len(stack)
  <2>2. /\ NextIs("parse") /\ stack # <<>> /\ Advanced.prod = Top.prod
    BY <1>1, <1>7, HeadIsStep DEF Call
  <2>3. /\ stack' \in Seq(FrameType) /\ Len(stack') = n + 1
        /\ \A i \in 1 .. n - 1 : stack'[i] = stack[i]
        /\ stack'[n] = Advanced /\ stack'[n + 1] = Frame(Head(Top.todo).arg, read)
    BY <1>1, <1>7, Called
  <2>a. /\ n \in Nat \ {0} /\ n \in DOMAIN stack /\ Top = stack[n] /\ DOMAIN stack = 1 .. n
    BY <1>2, <2>2
  <2> HIDE DEF n
  <2>4. DOMAIN stack' = 1 .. n + 1
    BY <2>3, <2>a, LenProperties
  <2>5. FrameEntered(Advanced, call) <=> FrameEntered(Top, call)
    <3>1. CASE Top.prod = "subprogram_head"
      <4>1. PlacesInBodies' /\ ParserTypeOK' /\ CallsNest'
        <5>1. PlaceInvariant
          BY DEF ParserInvariant, PlaceInvariant
        <5>2. PlaceInvariant'
          BY <1>1, <1>7, <5>1, CallKeepsPlaces
        <5>3. StackInvariant'
          BY <1>1, <1>7, CallKeeps
        <5> QED
          BY <5>2, <5>3 DEF PlaceInvariant, StackInvariant
      <4>2. HeadsAreCounted'
        <5>1. ParserTypeOK' /\ CallsNest' /\ PlacesInBodies' => HeadsAreCounted'
          BY HeadTodo, PTL
        <5> QED
          BY <4>1, <5>1
      <4>3. n \in DOMAIN stack'
        BY <2>4, <2>a
      <4>4. FrameEntered(Advanced, call) <=>
              /\ Len(Advanced.todo) \in 1 .. 3
              /\ call = "set_method_type" => Len(Advanced.todo) # 1
        <5>1. FramesAreCounted'
          <6>1. HeadsAreCounted' => FramesAreCounted'
            BY FrameCounted, PTL
          <6> QED
            BY <4>2, <6>1
        <5>2. FrameEntered(stack'[n], call) <=>
                /\ stack'[n].prod = "subprogram_head"
                /\ Len(stack'[n].todo) \in 1 .. 3
                /\ call = "set_method_type" => Len(stack'[n].todo) # 1
          BY <4>3, <5>1 DEF FramesAreCounted, FrameEntered, HeadCall
        <5>3. stack'[n] = Advanced /\ Advanced.prod = "subprogram_head"
          BY <2>2, <2>3, <3>1
        <5> HIDE DEF FrameEntered
        <5> QED
          BY <5>2, <5>3
      <4>5. Len(Top.todo) = 3 /\ Len(Advanced.todo) = 2
        <5>1. Len(Top.todo) = 3 /\ Len(Advanced.todo) = Len(Top.todo) - 1
          BY <1>1, <2>2, <3>1, HeadStep
        <5> QED
          BY <5>1
      <4> QED
        BY <1>3, <2>2, <3>1, <4>4, <4>5
    <3>2. CASE Top.prod # "subprogram_head"
      BY <2>2, <3>2 DEF FrameEntered
    <3> QED
      BY <3>1, <3>2
  <2>6. ~FrameEntered(stack'[n + 1], call)
    BY <2>3, EmptySeq DEF FrameEntered, ToSet, Frame
  <2>7. EnteredWith(call)' <=> \E i \in DOMAIN stack' : FrameEntered(stack'[i], call)
    BY DEF EnteredWith, FrameEntered
  <2>8. \A i \in 1 .. n : FrameEntered(stack'[i], call) <=> FrameEntered(stack[i], call)
    <3> TAKE i \in 1 .. n
    <3>1. i = n \/ i \in 1 .. n - 1
      BY <2>a
    <3> QED
      BY <2>a, <2>3, <2>5, <3>1
  <2>9. \A i \in 1 .. n + 1 : i = n + 1 \/ i \in 1 .. n
    BY <2>a
  <2>10. \A i \in 1 .. n : i \in 1 .. n + 1
    BY <2>a
  <2> QED
    BY <2>a, <2>4, <2>6, <2>7, <2>8, <2>9, <2>10, EnteredFrame
<1>8. CASE Return
  <2>1. stack # <<>> /\ Top.todo = <<>> /\ UNCHANGED read /\ stack' = Front(stack)
    BY <1>8 DEF Return, InBody, Running, sourceVars
  <2> QED
    BY <1>1, <2>1, EnteredByPop
<1>9. CASE synch
  <2>1. stack # <<>> /\ Top.at = "synch"
    BY <1>9 DEF synch, InSynch, Running
  <2>2. Top.todo = <<>>
    BY <1>1, <1>2, <2>1 DEF PlacesInBodies
  <2>3. CASE UNCHANGED stack
    BY <2>3 DEF EnteredWith
  <2>4. CASE stack' = Front(stack) /\ UNCHANGED sourceVars
    BY <1>1, <2>1, <2>2, <2>4, EnteredByPop DEF sourceVars
  <2> QED
    BY <1>9, <2>3, <2>4 DEF synch
<1>10. CASE Finish
  BY <1>10 DEF Finish, EnteredWith
<1> QED
  BY <1>5, <1>6, <1>7, <1>8, <1>9, <1>10

\* A production calls only the functions it names.
LEMMA CallOfProduction ==
  ASSUME ParserTypeOK, PlacesInBodies, NextIs("table")
  PROVE  /\ Top.prod \in Production /\ Head(Top.todo).arg \in TableCalls(Top.prod)
         /\ Head(Top.todo) = Sym(Head(Top.todo).arg)
<1>1. stack # <<>> /\ Head(Top.todo) \in Step /\ Head(Top.todo).op = "table"
  BY HeadIsStep
<1>2. Top.prod \in Production
  BY <1>1, TopIsFrame DEF FrameType
<1>3. PICK a \in Rules[Top.prod] : \E k \in 0 .. Len(a.body) :
        k + 1 \in 1 .. Len(a.body) /\ a.body[k + 1] = Head(Top.todo)
  BY PlaceOfStep
<1>4. PICK k \in 0 .. Len(a.body) : k + 1 \in 1 .. Len(a.body) /\ a.body[k + 1] = Head(Top.todo)
  BY <1>3
<1> DEFINE m == k + 1
<1>5. m \in 1 .. Len(a.body) /\ a.body[m] = Head(Top.todo)
  BY <1>4
<1> HIDE DEF m
<1>6. a.body \in Seq(Step)
  BY <1>2, BodyIsSteps
<1>7. m \in DOMAIN a.body
  BY <1>5, <1>6, LenProperties
<1>8. Head(Top.todo).arg \in TableCalls(Top.prod)
  BY <1>1, <1>2, <1>5, <1>7, HeadAssumption
<1>9. Head(Top.todo) = Sym(Head(Top.todo).arg)
  BY <1>1 DEF Step, Sym, Tok, Sub
<1> QED
  BY <1>2, <1>8, <1>9

LEMMA CallsByProduction ==
  /\ TableCalls("program") = {"check_enter_method", "check_exit_method"}
  /\ TableCalls("subprogram_head") =
       {"check_enter_method", "set_method_type", "set_method_param_count"}
  /\ \A prod \in HeadParts : TableCalls(prod) = {"check_add_fun_param"}
  /\ \A prod \in InHead \ HeadParts : TableCalls(prod) = {}
  /\ \A prod : prod \notin InHead \cup {"program", "subprogram_head"} =>
       TableCalls(prod) = {"check_add_prog_param", "check_add_var", "check_exit_method"}
<1>1. TableCalls("program") = {"check_enter_method", "check_exit_method"}
  BY DEF TableCalls, InHead, HeadParts
<1>2. TableCalls("subprogram_head") =
        {"check_enter_method", "set_method_type", "set_method_param_count"}
  BY DEF TableCalls, InHead, HeadParts
<1>3. ASSUME NEW prod \in InHead PROVE prod # "program" /\ prod # "subprogram_head"
  BY DEF InHead, HeadParts
<1>4. HeadParts \subseteq InHead
  BY DEF InHead
<1>5. ASSUME NEW prod \in HeadParts PROVE TableCalls(prod) = {"check_add_fun_param"}
  BY <1>3, <1>4, <1>5 DEF TableCalls
<1>6. ASSUME NEW prod \in InHead \ HeadParts PROVE TableCalls(prod) = {}
  BY <1>3, <1>6 DEF TableCalls
<1>7. ASSUME NEW prod, prod \notin InHead \cup {"program", "subprogram_head"}
      PROVE  TableCalls(prod) = {"check_add_prog_param", "check_add_var", "check_exit_method"}
  BY <1>4, <1>7 DEF TableCalls
<1> QED
  BY <1>1, <1>2, <1>5, <1>6, <1>7

\* Outside of a function head nothing is entered that waits.
LEMMA NoHeadAround ==
  ASSUME ParserTypeOK, CallsNest, PlacesInBodies, stack # <<>>,
         Top.prod \notin InHead \cup {"subprogram_head"}, NEW call
  PROVE  ~EnteredWith(call)
<1> SUFFICES ASSUME NEW i \in DOMAIN stack, stack[i].prod = "subprogram_head" PROVE FALSE
  BY EnteredFrame DEF FrameEntered
<1>1. Len(stack) \in DOMAIN stack /\ Top = stack[Len(stack)] /\ DOMAIN stack = 1 .. Len(stack)
      /\ Len(stack) \in Nat
  BY TopIsFrame
<1>2. i # Len(stack)
  BY <1>1
<1>3. i < Len(stack)
  BY <1>1, <1>2
<1> QED
  BY <1>1, <1>3, OnlyPartsInside

\* The parts of a function head are parsed between its entry and its type.
LEMMA HeadAround ==
  ASSUME ParserTypeOK, CallsNest, PlacesInBodies, ProgramIsOutermost, stack # <<>>,
         Top.prod \in HeadParts, NEW call \in HeadCall
  PROVE  EnteredWith(call)
<1>1. Len(stack) \in DOMAIN stack /\ Top = stack[Len(stack)]
  BY TopIsFrame
<1>2. PICK j \in DOMAIN stack : j < Len(stack) /\ stack[j].prod = "subprogram_head"
  BY <1>1, HeadIsBelow
<1>3. Len(stack[j].todo) = 2
  BY <1>2, HeadTodo DEF HeadsAreCounted
<1>4. 2 \in 1 .. 3 /\ 2 # 1
  OBVIOUS
<1>5. Len(stack[j].todo) \in 1 .. 3 /\ Len(stack[j].todo) # 1
  BY <1>3, <1>4
<1> QED
  BY <1>2, <1>5, EnteredCounted DEF EnteredAreCounted

\* The calls that need an entered head are made inside one.
LEMMA CalledInHead ==
  ASSUME ParserInvariant, NextIs("table"),
         Head(Top.todo).arg \in {"set_method_type", "set_method_param_count", "check_add_fun_param"}
  PROVE  HeadIsEntered
<1> DEFINE arg == Head(Top.todo).arg
<1>1. /\ ParserTypeOK /\ CallsNest /\ PlacesInBodies /\ ProgramIsOutermost
      /\ stack # <<>> /\ "set_method_param_count" \in HeadCall
  BY HeadIsStep DEF ParserInvariant, StackInvariant, HeadCall
<1>2. /\ Len(stack) \in DOMAIN stack /\ Top = stack[Len(stack)]
  BY <1>1, TopIsFrame
<1>3. arg \in TableCalls(Top.prod) /\ Head(Top.todo) = Sym(arg)
  BY <1>1, CallOfProduction
<1> HIDE DEF arg
<1>4. Top.prod = "subprogram_head" \/ Top.prod \in HeadParts
  BY <1>3, CallsByProduction DEF arg
<1>5. CASE Top.prod \in HeadParts
  BY <1>1, <1>5, HeadAround DEF HeadIsEntered
<1>6. CASE Top.prod = "subprogram_head"
  <2> DEFINE l == Len(Top.todo)
             i == 7 - l
  <2>1. l \in 1 .. 6 /\ Head(Top.todo) = HeadBody[i]
    BY <1>1, <1>6, HeadStep
  <2>2. l \in 1 .. 3 => HeadIsEntered
    BY <1>1, <1>2, <1>6, EnteredCounted DEF EnteredAreCounted, HeadIsEntered
  <2> HIDE DEF l
  <2>3. i \in 1 .. 6 /\ (i \in {5, 6} => l \in 1 .. 3)
    BY <2>1
  <2> HIDE DEF i
  <2>4. arg \in {"set_method_type", "set_method_param_count"}
    BY <1>3, <1>6, CallsByProduction DEF arg
  <2>5. i \in {5, 6}
    BY <1>3, <2>1, <2>3, <2>4, HeadCalls
  <2> QED
    BY <2>2, <2>3, <2>5
<1> QED
  BY <1>4, <1>5, <1>6

\* What is entered before and after each call of symbol_table.c.
Entering ==
  /\ Head(Top.todo).arg = "check_enter_method"
  /\ \A call \in HeadCall : ~EnteredWith(call)
  /\ \/ Top.prod = "program" /\ ~HeadIsEntered'
     \/ Top.prod = "subprogram_head" /\ EnteredWith("set_method_type")'
Typing ==
  /\ Head(Top.todo).arg = "set_method_type"
  /\ HeadIsEntered /\ HeadIsEntered'
  /\ EnteredWith("set_method_type") /\ ~EnteredWith("set_method_type")'
Counting ==
  /\ Head(Top.todo).arg = "set_method_param_count"
  /\ HeadIsEntered /\ ~HeadIsEntered'
  /\ ~EnteredWith("set_method_type")
Parametrised ==
  /\ Head(Top.todo).arg = "check_add_fun_param"
  /\ HeadIsEntered /\ HeadIsEntered'
  /\ EnteredWith("set_method_type") /\ EnteredWith("set_method_type")'
Outside ==
  /\ Head(Top.todo).arg \in {"check_add_prog_param", "check_add_var", "check_exit_method"}
  /\ ~HeadIsEntered /\ ~HeadIsEntered'

LEMMA TableCallsInOrder ==
  ASSUME ParserInvariant, TableCall
  PROVE  Entering \/ Typing \/ Counting \/ Parametrised \/ Outside
<1> DEFINE arg == Head(Top.todo).arg
           l   == Len(Top.todo)
<1>1. /\ StackInvariant /\ ParserTypeOK /\ CallsNest /\ PlacesInBodies /\ ProgramIsOutermost
      /\ NextIs("table") /\ Become(Advanced)
  BY DEF ParserInvariant, StackInvariant, TableCall
<1>2. /\ stack # <<>> /\ Advanced \in FrameType /\ Advanced.prod = Top.prod
  BY <1>1, HeadIsStep
<1>3. /\ Len(stack) \in DOMAIN stack /\ Top = stack[Len(stack)]
  BY <1>1, <1>2, TopIsFrame
<1>4. arg \in TableCalls(Top.prod) /\ Head(Top.todo) = Sym(arg)
  BY <1>1, CallOfProduction
<1>5. ASSUME NEW call \in HeadCall, Top.prod # "subprogram_head"
      PROVE  EnteredWith(call)' <=> EnteredWith(call)
  <2>1. FrameEntered(Advanced, call) <=> FrameEntered(Top, call)
    BY <1>2, <1>5 DEF FrameEntered
  <2> QED
    BY <1>1, <1>2, <2>1, EnteredByTop
<1>6. "set_method_type" \in HeadCall /\ "set_method_param_count" \in HeadCall
  BY DEF HeadCall
<1>a. /\ Len(stack) \in DOMAIN stack' /\ stack'[Len(stack)] = Advanced
      /\ EnteredAreCounted'
  <2>1. /\ stack' \in Seq(FrameType) /\ Len(stack') = Len(stack) /\ stack'[Len(stack)] = Advanced
        /\ Len(stack) \in 1 .. Len(stack)
    BY <1>1, <1>2, TopIsFrame, Replaced DEF Become, ParserTypeOK
  <2>2. Len(stack) \in DOMAIN stack'
    BY <2>1, LenProperties
  <2>3. ParserInvariant'
    BY NextSound DEF ParserNext
  <2>4. ParserTypeOK' /\ CallsNest' /\ PlacesInBodies'
    BY <2>3 DEF ParserInvariant, StackInvariant
  <2>5. ParserTypeOK' /\ CallsNest' /\ PlacesInBodies' => EnteredAreCounted'
    BY EnteredCounted, PTL
  <2> QED
    BY <2>1, <2>2, <2>4, <2>5
<1>7. CASE Top.prod = "subprogram_head"
  <2>1. /\ l \in 1 .. 6 /\ Len(Advanced.todo) = l - 1 /\ Head(Top.todo) = HeadBody[7 - l]
    BY <1>1, <1>7, HeadStep
  <2>2. \A call \in HeadCall :
          EnteredWith(call) <=> l \in 1 .. 3 /\ (call = "set_method_type" => l # 1)
    BY <1>1, <1>3, <1>7, EnteredCounted DEF EnteredAreCounted
  <2> DEFINE i == 7 - l
  <2> HIDE DEF l
  <2>3. i \in 1 .. 6 /\ Sym(arg) = HeadBody[i]
    BY <1>4, <2>1
  <2>4. (i = 3 <=> l = 4) /\ (i = 5 <=> l = 2) /\ (i = 6 <=> l = 1)
    BY <2>1
  <2> HIDE DEF i
  <2>5. arg \in {"check_enter_method", "set_method_type", "set_method_param_count"}
    BY <1>4, <1>7, CallsByProduction
  <2>6. CASE arg = "check_enter_method"
    <3>1. l = 4
      BY <2>3, <2>4, <2>6, HeadCalls
    <3>2. Len(Advanced.todo) = 3
      BY <2>1, <3>1
    <3>3. EnteredWith("set_method_type")'
      BY <1>2, <1>6, <1>7, <1>a, <3>2 DEF EnteredAreCounted
    <3> QED
      BY <1>7, <2>2, <2>6, <3>1, <3>3 DEF Entering
  <2>7. CASE arg = "set_method_type"
    <3>1. l = 2
      BY <2>3, <2>4, <2>7, HeadCalls
    <3>2. HeadIsEntered /\ EnteredWith("set_method_type")
      BY <1>6, <2>2, <3>1 DEF HeadIsEntered
    <3>3. Len(Advanced.todo) = 1
      BY <2>1, <3>1
    <3>4. HeadIsEntered' /\ ~EnteredWith("set_method_type")'
      BY <1>2, <1>6, <1>7, <1>a, <3>3 DEF EnteredAreCounted, HeadIsEntered
    <3> QED
      BY <2>7, <3>2, <3>4 DEF Typing
  <2>8. CASE arg = "set_method_param_count"
    <3>1. l = 1
      BY <2>3, <2>4, <2>8, HeadCalls
    <3>2. HeadIsEntered /\ ~EnteredWith("set_method_type")
      BY <1>6, <2>2, <3>1 DEF HeadIsEntered
    <3>3. Len(Advanced.todo) = 0
      BY <2>1, <3>1
    <3>4. ~HeadIsEntered'
      BY <1>2, <1>6, <1>7, <1>a, <3>3 DEF EnteredAreCounted, HeadIsEntered
    <3> QED
      BY <2>8, <3>2, <3>4 DEF Counting
  <2> QED
    BY <2>5, <2>6, <2>7, <2>8
<1>8. CASE Top.prod = "program"
  <2>1. arg \in {"check_enter_method", "check_exit_method"}
    BY <1>4, <1>8, CallsByProduction
  <2>2. "program" \notin InHead \cup {"subprogram_head"}
    BY DEF InHead, HeadParts
  <2>3. \A call \in HeadCall : ~EnteredWith(call)
    BY <1>1, <1>2, <1>8, <2>2, NoHeadAround
  <2>4. ~HeadIsEntered'
    BY <1>5, <1>6, <1>8, <2>3 DEF HeadIsEntered
  <2> QED
    BY <1>6, <1>8, <2>1, <2>3, <2>4 DEF Entering, Outside, HeadIsEntered
<1>9. CASE Top.prod \in HeadParts
  <2>1. arg = "check_add_fun_param"
    BY <1>4, <1>9, CallsByProduction
  <2>2. HeadIsEntered /\ EnteredWith("set_method_type")
    BY <1>1, <1>2, <1>6, <1>9, HeadAround DEF HeadIsEntered
  <2>3. Top.prod # "subprogram_head"
    BY <1>9 DEF HeadParts
  <2>4. HeadIsEntered' /\ EnteredWith("set_method_type")'
    BY <1>5, <1>6, <2>2, <2>3 DEF HeadIsEntered
  <2> QED
    BY <2>1, <2>2, <2>4 DEF Parametrised
<1>10. CASE Top.prod \in InHead \ HeadParts
  BY <1>4, <1>10, CallsByProduction
<1>11. CASE Top.prod \notin InHead \cup {"program", "subprogram_head"}
  <2>1. arg \in {"check_add_prog_param", "check_add_var", "check_exit_method"}
    BY <1>4, <1>11, CallsByProduction
  <2>2. ~HeadIsEntered
    BY <1>1, <1>2, <1>11, NoHeadAround DEF HeadIsEntered
  <2>3. ~HeadIsEntered'
    BY <1>5, <1>6, <1>11, <2>2 DEF HeadIsEntered
  <2> QED
    BY <2>1, <2>2, <2>3 DEF Outside
<1> QED
  BY <1>7, <1>8, <1>9, <1>10, <1>11

-----------------------------------------------------------------------------
(* The table while a function head is entered.                             *)

\* What a new entry is, and that it changes no other.
LEMMA Added ==
  ASSUME TableInvariant, NEW sym, NEW where \in {"below", "after", "nowhere"},
         where # "nowhere" => sym_eye # NULL,
         NewEntry(sym, where), NEW new, new = size + 1
  PROVE  /\ new \in Entry /\ size' = new /\ sym_eye' = new
         /\ new \notin Allocated /\ Allocated' = Allocated \cup {new}
         /\ \A e \in Allocated : symbol'[e] = symbol[e] /\ parent'[e] = parent[e]
         /\ symbol'[new] = sym
         /\ parent'[new] = CASE where = "below" -> sym_eye
                             [] where = "after" -> parent[sym_eye]
                             [] where = "nowhere" -> NULL
<1>1. TypeOK /\ Ordered /\ WellLinked /\ TempIsParent /\ size < MaxEntries
  BY DEF TableInvariant, NewEntry
<1>2. new \in Entry /\ parent[new] = NULL
  BY <1>1, FreshEntry
<1>3. /\ size \in Nat /\ size' = new /\ sym_eye' = new /\ parent \in [Entry -> Link]
      /\ Allocated = 1 .. size /\ Allocated' = 1 .. new /\ Allocated \subseteq Entry
      /\ symbol' = [e \in 1 .. new |-> IF e = new THEN sym ELSE symbol[e]]
  <2>1. size \in 0 .. MaxEntries /\ MaxEntries \in Nat /\ parent \in [Entry -> Link]
    BY <1>1, MaxEntriesAssumption DEF TypeOK
  <2>2. 1 .. size \subseteq 1 .. MaxEntries /\ size \in Nat
    BY <2>1
  <2>3. size' = new /\ sym_eye' = new
        /\ symbol' = [e \in 1 .. new |-> IF e = new THEN sym ELSE symbol[e]]
    BY DEF NewEntry
  <2> QED
    BY <2>1, <2>2, <2>3 DEF Allocated, Entry
<1>4. new \notin Allocated /\ Allocated' = Allocated \cup {new}
  BY <1>3
<1>5. \A e \in Allocated : symbol'[e] = symbol[e] /\ e # new
  BY <1>3, <1>4
<1>6. symbol'[new] = sym
  BY <1>3, <1>4
<1>7. CASE where = "below"
  <2>1. parent' = [parent EXCEPT ![new] = sym_eye]
    BY <1>7 DEF NewEntry, HangBelow
  <2> QED
    BY <1>2, <1>3, <1>4, <1>5, <1>6, <1>7, <2>1
<1>8. CASE where = "after"
  <2>1. parent' = [parent EXCEPT ![new] = parent[sym_eye]]
    BY <1>8 DEF NewEntry, HangAfter
  <2> QED
    BY <1>2, <1>3, <1>4, <1>5, <1>6, <1>8, <2>1
<1>9. CASE where = "nowhere"
  <2>1. parent' = parent
    BY <1>9 DEF NewEntry
  <2> QED
    BY <1>2, <1>3, <1>4, <1>5, <1>6, <1>9, <2>1
<1> QED
  BY <1>7, <1>8, <1>9

\* The entries that ParametersComeFirst is about.
Inside(m) == {e \in Allocated : parent[e] = m /\ symbol[e].param = 1}
Entered(m) == IF HeadIsEntered /\ m = size - c THEN c ELSE symbol[m].count

LEMMA ParametersInside ==
  ParametersComeFirst <=>
    \A m \in Allocated : symbol[m].fun = 1 => Inside(m) = m + 1 .. m + Entered(m)
BY DEF ParametersComeFirst, Inside, Entered

\* Outside of a head an entry that is no parameter leaves them as they are.
LEMMA NotAParameter ==
  ASSUME TableInvariant, ParametersComeFirst, ~HeadIsEntered,
         TableInvariant', NEW new \in Nat, new \notin Allocated, Allocated' = Allocated \cup {new},
         size' = new,
         \A e \in Allocated : symbol'[e] = symbol[e] /\ parent'[e] = parent[e],
         symbol'[new].param = 0, symbol'[new].count = 0,
         HeadIsEntered' => c' = 0
  PROVE  ParametersComeFirst'
<1>1. ASSUME NEW m \in Allocated PROVE Inside(m)' = Inside(m) /\ Entered(m)' = Entered(m)
  <2>1. Inside(m)' = Inside(m)
    BY DEF Inside
  <2>2. m # new
    BY <1>1
  <2>3. Entered(m) = symbol[m].count
    BY DEF Entered
  <2>4. HeadIsEntered' => size' - c' = new
    OBVIOUS
  <2>5. Entered(m)' = symbol'[m].count
    BY <2>2, <2>4 DEF Entered
  <2> QED
    BY <1>1, <2>1, <2>3, <2>5
<1>2. Inside(new)' = {}
  <2>1. \A e \in Allocated' : parent'[e] # new
    <3> TAKE e \in Allocated'
    <3>1. e \in Entry /\ parent'[e] < e /\ e <= new /\ parent'[e] \in Link
      <4>1. /\ size' \in 0 .. MaxEntries /\ parent' \in [Entry -> Link]
            /\ \A x \in Entry : parent'[x] < x
        BY DEF TableInvariant, TypeOK, Ordered
      <4>2. e \in 1 .. new /\ e \in Entry
        BY <4>1, MaxEntriesAssumption DEF Allocated, Entry
      <4> QED
        BY <4>1, <4>2
    <3>2. e \in Int /\ parent'[e] \in Int
      BY <3>1 DEF Entry, Link, NULL
    <3> QED
      BY <3>1, <3>2
  <2> QED
    BY <2>1 DEF Inside
<1>3. Entered(new)' = 0
  BY DEF Entered
<1>4. new + 1 .. new + 0 = {}
  OBVIOUS
<1>5. \A m \in Allocated' : symbol'[m].fun = 1 => Inside(m)' = m + 1 .. m + Entered(m)'
  <2> TAKE m \in Allocated'
  <2>1. CASE m = new
    BY <1>2, <1>3, <1>4, <2>1
  <2>2. CASE m \in Allocated
    BY <1>1, <2>2, ParametersInside
  <2> QED
    BY <2>1, <2>2
<1> QED
  BY <1>5 DEF ParametersComeFirst, Inside, Entered

\* The method of the head that is entered.
HeadFacts(m) ==
  /\ size \in Nat /\ c \in Nat /\ m \in Nat /\ m = size - c /\ m + c = size
  /\ m \in Allocated /\ size \in Allocated
  /\ sym_eye = size /\ (sym_turn = 1 <=> c = 0)
  /\ \A e \in m + 1 .. size :
       /\ e \in Allocated /\ e # m
       /\ parent[e] = m /\ symbol[e].param = 1 /\ symbol[e].fun = 0
  /\ symbol[m].fun = 0 => parent[m] = NULL /\ symbol[m].std_type = "PGNAME"

LEMMA HeadMethod ==
  ASSUME TableInvariant, CountFollowsEntries, HeadIsLatest, HeadIsEntered, NEW m, m = size - c
  PROVE  HeadFacts(m)
<1>1. size \in Nat /\ c \in Nat /\ c < size /\ m \in Nat /\ m > 0 /\ m + c = size
  BY DEF TableInvariant, TypeOK, CountFollowsEntries, HeadIsLatest
<1>2. /\ sym_eye = size /\ (sym_turn = 1 <=> c = 0)
      /\ \A e \in m + 1 .. size : parent[e] = m /\ symbol[e].param = 1 /\ symbol[e].fun = 0
      /\ symbol[m].fun = 0 => parent[m] = NULL /\ symbol[m].std_type = "PGNAME"
  BY DEF HeadIsLatest
<1>3. m \in Allocated /\ size \in Allocated /\ \A e \in m + 1 .. size : e \in Allocated /\ e # m
  BY <1>1 DEF Allocated
<1> QED
  BY <1>1, <1>2, <1>3 DEF HeadFacts

\* The entries inside it are all that were made since.
LEMMA InsideHead ==
  ASSUME TableInvariant, NEW m, HeadFacts(m)
  PROVE  Inside(m) = m + 1 .. m + c
<1>1. \A e \in m + 1 .. size : e \in Inside(m)
  BY DEF HeadFacts, Inside
<1>2. ASSUME NEW e \in Inside(m) PROVE e \in m + 1 .. size
  <2>1. e \in 1 .. size /\ parent[e] = m /\ size \in Nat /\ m \in Nat
    BY DEF Inside, Allocated, HeadFacts
  <2>2. e \in Entry
    BY <2>1, MaxEntriesAssumption DEF TableInvariant, TypeOK, Entry
  <2>3. parent[e] < e
    BY <2>2 DEF TableInvariant, Ordered
  <2> QED
    BY <2>1, <2>3
<1> QED
  BY <1>1, <1>2 DEF HeadFacts

\* The method that is written to is the one that was entered, or none.
LEMMA ViewInHead ==
  ASSUME TableInvariant, NEW m, HeadFacts(m)
  PROVE  \/ MethodInView = m
         \/ MethodInView = NULL /\ c = 0 /\ symbol[size].std_type = "PGNAME" /\ symbol[m].fun = 0
<1>1. CASE c = 0
  <2>1. m = size /\ sym_eye = m
    BY <1>1 DEF HeadFacts
  <2>2. symbol[m].fun \in {0, 1}
    BY DEF HeadFacts, TableInvariant, TypeOK, Symbol
  <2> QED
    BY <1>1, <2>1, <2>2 DEF HeadFacts, MethodInView
<1>2. CASE c # 0
  <2>1. size \in m + 1 .. size /\ sym_eye = size
    BY <1>2 DEF HeadFacts
  <2>2. symbol[size].fun = 0 /\ parent[size] = m
    BY <2>1 DEF HeadFacts
  <2> QED
    BY <2>1, <2>2 DEF MethodInView
<1> QED
  BY <1>1, <1>2

-----------------------------------------------------------------------------
LEMMA EnterKeepsHeads ==
  ASSUME TableInvariant, TableInvariant', ParametersComeFirst, ~HeadIsEntered,
         NEW n \in Name, check_enter_method(n), c' = 0
  PROVE  HeadIsLatest' /\ ParametersComeFirst'
<1> DEFINE new   == size + 1
           sym   == MethodSymbol(n)
           where == IF symbol_table # NULL /\ sym_eye # NULL THEN Place ELSE "nowhere"
<1>1. /\ where \in {"below", "after", "nowhere"}
      /\ where # "nowhere" => sym_eye # NULL
      /\ sym_eye = NULL => where = "nowhere"
      /\ NewEntry(sym, where) /\ sym_turn' = 1
  BY DEF check_enter_method, Place
<1>2. /\ sym.param = 0 /\ sym.count = 0
      /\ sym.fun = 0 => sym_eye = NULL /\ sym.std_type = "PGNAME"
  BY DEF MethodSymbol
<1>3. size \in Nat /\ new = size + 1 /\ new \in Nat
  BY DEF TableInvariant, TypeOK
<1> HIDE DEF new, sym, where
<1>4. /\ new \in Entry /\ size' = new /\ sym_eye' = new
      /\ new \notin Allocated /\ Allocated' = Allocated \cup {new}
      /\ \A e \in Allocated : symbol'[e] = symbol[e] /\ parent'[e] = parent[e]
      /\ symbol'[new] = sym
      /\ parent'[new] = CASE where = "below" -> sym_eye
                          [] where = "after" -> parent[sym_eye]
                          [] where = "nowhere" -> NULL
  BY <1>1, <1>3, Added
<1>5. where = "nowhere" => parent'[new] = NULL
  BY <1>4
<1>6. HeadIsLatest'
  <2>1. size' - c' = new /\ c' < size' /\ size' - c' + 1 .. size' = {}
    BY <1>3, <1>4
  <2>2. symbol'[new].fun = 0 => parent'[new] = NULL /\ symbol'[new].std_type = "PGNAME"
    BY <1>1, <1>2, <1>4, <1>5
  <2> QED
    BY <1>1, <1>4, <2>1, <2>2 DEF HeadIsLatest
<1>7. ParametersComeFirst'
  BY <1>2, <1>3, <1>4, NotAParameter
<1> QED
  BY <1>6, <1>7

LEMMA AddKeepsHeads ==
  ASSUME TableInvariant, TableInvariant', ParametersComeFirst, ~HeadIsEntered, ~HeadIsEntered',
         NEW n, NEW t, check_add_var(n, t), c' = c
  PROVE  HeadIsLatest' /\ ParametersComeFirst'
<1>1. HeadIsLatest'
  BY DEF HeadIsLatest
<1>2. CASE UNCHANGED <<symbol, links, size>>
  <2>1. Allocated' = Allocated
    BY <1>2 DEF Allocated
  <2>2. \A m : Inside(m)' = Inside(m) /\ Entered(m)' = Entered(m)
    BY <1>2, <2>1 DEF links, Inside, Entered
  <2>3. \A m \in Allocated' : symbol'[m].fun = 1 => Inside(m)' = m + 1 .. m + Entered(m)'
    BY <1>2, <2>1, <2>2, ParametersInside
  <2> QED
    BY <1>1, <2>3 DEF ParametersComeFirst, Inside, Entered
<1>3. CASE AddEntry(n, t, 0)
  <2> DEFINE new == size + 1
             sym == [name |-> n, std_type |-> t, fun |-> 0, count |-> 0, param |-> 0]
  <2>1. Place \in {"below", "after", "nowhere"} /\ sym_eye # NULL /\ NewEntry(sym, Place)
    BY <1>3 DEF AddEntry, Place
  <2>2. sym.param = 0 /\ sym.count = 0
    OBVIOUS
  <2>3. size \in Nat /\ new = size + 1 /\ new \in Nat
    BY DEF TableInvariant, TypeOK
  <2> HIDE DEF new, sym
  <2>4. /\ size' = new /\ new \notin Allocated /\ Allocated' = Allocated \cup {new}
        /\ \A e \in Allocated : symbol'[e] = symbol[e] /\ parent'[e] = parent[e]
        /\ symbol'[new] = sym
    BY <2>1, <2>3, Added
  <2>5. ParametersComeFirst'
    BY <2>2, <2>3, <2>4, NotAParameter
  <2> QED
    BY <1>1, <2>5
<1> QED
  BY <1>2, <1>3 DEF check_add_var

LEMMA ExitKeepsHeads ==
  ASSUME ParametersComeFirst, ~HeadIsEntered, ~HeadIsEntered', check_exit_method
  PROVE  HeadIsLatest' /\ ParametersComeFirst'
<1>1. HeadIsLatest'
  BY DEF HeadIsLatest
<1>2. UNCHANGED <<symbol, parent, size>>
  BY DEF check_exit_method, links
<1>3. Allocated' = Allocated
  BY <1>2 DEF Allocated
<1>4. \A m : Inside(m)' = Inside(m) /\ Entered(m)' = Entered(m)
  BY <1>2, <1>3 DEF Inside, Entered
<1>5. \A m \in Allocated' : symbol'[m].fun = 1 => Inside(m)' = m + 1 .. m + Entered(m)'
  BY <1>2, <1>3, <1>4, ParametersInside
<1> QED
  BY <1>1, <1>5 DEF ParametersComeFirst, Inside, Entered

LEMMA ParamKeepsHeads ==
  ASSUME TableInvariant, TableInvariant', CountFollowsEntries, HeadIsLatest, ParametersComeFirst,
         HeadIsEntered, HeadIsEntered',
         NEW n, NEW t, check_add_fun_param(n, t), c' = c + 1, NEW m0, m0 = size - c
  PROVE  HeadIsLatest' /\ ParametersComeFirst'
<1> DEFINE new == size + 1
           sym == [name |-> n, std_type |-> t, fun |-> 0, count |-> 0, param |-> 1]
<1>1. /\ Place \in {"below", "after", "nowhere"} /\ sym_eye # NULL /\ NewEntry(sym, Place)
      /\ sym_turn' = 0
  BY DEF check_add_fun_param, AddEntry, Place
<1>2. sym.param = 1 /\ sym.fun = 0
  OBVIOUS
<1>3. new = size + 1 /\ m0 = size - c
  OBVIOUS
<1> HIDE DEF new, sym
<1>4. HeadFacts(m0)
  BY HeadMethod
<1>5. /\ size' = new /\ sym_eye' = new
      /\ new \notin Allocated /\ Allocated' = Allocated \cup {new}
      /\ \A e \in Allocated : symbol'[e] = symbol[e] /\ parent'[e] = parent[e]
      /\ symbol'[new] = sym
      /\ parent'[new] = CASE Place = "below" -> sym_eye
                          [] Place = "after" -> parent[sym_eye]
                          [] Place = "nowhere" -> NULL
  BY <1>1, <1>3, Added
<1>6. /\ size \in Nat /\ c \in Nat /\ m0 \in Nat /\ m0 \in Allocated
      /\ new = m0 + c + 1 /\ new # m0 /\ size' - c' = m0 /\ c' < size' /\ c' # 0
  BY <1>3, <1>4, <1>5 DEF HeadFacts, Allocated
<1>7. parent'[new] = m0
  <2>1. CASE c = 0
    <3>1. Place = "below" /\ sym_eye = m0
      BY <1>3, <1>4, <2>1 DEF HeadFacts, Place
    <3> QED
      BY <1>5, <3>1
  <2>2. CASE c # 0
    <3>1. Place = "after" /\ sym_eye = size /\ size \in m0 + 1 .. size
      BY <1>4, <2>2 DEF HeadFacts, Place
    <3>2. parent[sym_eye] = m0
      BY <1>4, <3>1 DEF HeadFacts
    <3> QED
      BY <1>5, <3>1, <3>2
  <2> QED
    BY <2>1, <2>2
<1>8. HeadIsLatest'
  <2>1. \A e \in m0 + 1 .. new : e = new \/ e \in m0 + 1 .. size
    BY <1>3, <1>6
  <2>2. \A e \in m0 + 1 .. size : parent'[e] = m0 /\ symbol'[e].param = 1 /\ symbol'[e].fun = 0
    BY <1>4, <1>5 DEF HeadFacts
  <2>3. \A e \in m0 + 1 .. new : parent'[e] = m0 /\ symbol'[e].param = 1 /\ symbol'[e].fun = 0
    BY <1>2, <1>5, <1>7, <2>1, <2>2
  <2>4. symbol'[m0].fun = 0 => parent'[m0] = NULL /\ symbol'[m0].std_type = "PGNAME"
    BY <1>4, <1>5, <1>6 DEF HeadFacts
  <2> QED
    BY <1>1, <1>5, <1>6, <2>3, <2>4 DEF HeadIsLatest
<1>9. ASSUME NEW m \in Allocated, m # m0 PROVE Inside(m)' = Inside(m) /\ Entered(m)' = Entered(m)
  <2>1. Inside(m)' = Inside(m)
    BY <1>5, <1>7, <1>9 DEF Inside
  <2>2. Entered(m) = symbol[m].count
    BY <1>3, <1>9 DEF Entered
  <2>3. Entered(m)' = symbol'[m].count
    BY <1>6, <1>9 DEF Entered
  <2> QED
    BY <1>5, <2>1, <2>2, <2>3
<1>10. Inside(m0)' = m0 + 1 .. m0 + Entered(m0)'
  <2>1. Inside(m0)' = Inside(m0) \cup {new}
    BY <1>2, <1>5, <1>7 DEF Inside
  <2>2. Inside(m0) = m0 + 1 .. m0 + c
    BY <1>4, InsideHead
  <2>3. Entered(m0)' = c + 1
    BY <1>6 DEF Entered
  <2>4. m0 + 1 .. m0 + (c + 1) = (m0 + 1 .. m0 + c) \cup {m0 + c + 1}
    BY <1>6
  <2> QED
    BY <1>6, <2>1, <2>2, <2>3, <2>4
<1>11. \A m \in Allocated' : symbol'[m].fun = 1 => Inside(m)' = m + 1 .. m + Entered(m)'
  <2> TAKE m \in Allocated'
  <2>1. CASE m = new
    BY <1>2, <1>5, <2>1
  <2>2. CASE m = m0
    BY <1>10, <2>2
  <2>3. CASE m \in Allocated /\ m # m0
    BY <1>5, <1>9, <2>3, ParametersInside
  <2> QED
    BY <1>5, <2>1, <2>2, <2>3
<1> QED
  BY <1>8, <1>11 DEF ParametersComeFirst, Inside, Entered

\* What a signature is written to, and what it leaves alone.
LEMMA Updated ==
  ASSUME TableInvariant, NEW m, HeadFacts(m), NEW sym, UpdateMethod(sym), c' = c,
         MethodInView = m => sym.param = symbol[m].param
  PROVE  /\ Allocated' = Allocated /\ UNCHANGED <<size, sym_eye, sym_turn, parent>>
         /\ \A e \in Allocated : e # m => symbol'[e] = symbol[e]
         /\ symbol'[m] = IF MethodInView = m THEN sym ELSE symbol[m]
         /\ MethodInView # m => c = 0 /\ symbol[m].fun = 0
         /\ Inside(m)' = Inside(m)
         /\ \A e \in Allocated : Inside(e)' = Inside(e)
<1>1. UNCHANGED <<size, sym_eye, sym_turn, parent>>
  BY DEF UpdateMethod, links
<1>2. Allocated' = Allocated
  BY <1>1 DEF Allocated
<1>3. symbol \in [Allocated -> Symbol] /\ m \in Allocated /\ m # NULL
  BY DEF TableInvariant, TypeOK, HeadFacts, Allocated, NULL
<1>4. /\ \A e \in Allocated : e # m => symbol'[e] = symbol[e]
      /\ symbol'[m] = IF MethodInView = m THEN sym ELSE symbol[m]
      /\ MethodInView # m => c = 0 /\ symbol[m].fun = 0
  <2>1. CASE MethodInView = m
    <3>1. symbol' = [symbol EXCEPT ![m] = sym]
      BY <1>3, <2>1 DEF UpdateMethod
    <3> QED
      BY <1>3, <2>1, <3>1
  <2>2. CASE MethodInView # m
    <3>1. MethodInView = NULL /\ c = 0 /\ symbol[m].fun = 0
      BY <2>2, ViewInHead
    <3>2. symbol' = symbol
      BY <3>1 DEF UpdateMethod
    <3> QED
      BY <2>2, <3>1, <3>2
  <2> QED
    BY <2>1, <2>2
<1>5. \A e \in Allocated : symbol'[e].param = symbol[e].param
  BY <1>4
<1>6. \A e \in Allocated : Inside(e)' = Inside(e)
  BY <1>1, <1>2, <1>5 DEF Inside
<1> QED
  BY <1>1, <1>2, <1>3, <1>4, <1>6

LEMMA TypeKeepsHeads ==
  ASSUME TableInvariant, CountFollowsEntries, HeadIsLatest, ParametersComeFirst,
         HeadIsEntered, HeadIsEntered', NEW t, set_method_type(t), c' = c, NEW m0, m0 = size - c
  PROVE  HeadIsLatest' /\ ParametersComeFirst'
<1> DEFINE sym == [symbol[MethodInView] EXCEPT !.std_type = t, !.fun = 1]
<1>1. UpdateMethod(sym)
  BY DEF set_method_type
<1>2. HeadFacts(m0)
  BY HeadMethod
<1>3. m0 \in Allocated /\ symbol[m0] \in Symbol
  BY <1>2 DEF HeadFacts, TableInvariant, TypeOK
<1>4. MethodInView = m0 => /\ sym.param = symbol[m0].param /\ sym.fun = 1
                           /\ sym.count = symbol[m0].count
  BY <1>3 DEF Symbol
<1> HIDE DEF sym
<1>5. /\ Allocated' = Allocated /\ UNCHANGED <<size, sym_eye, sym_turn, parent>>
      /\ \A e \in Allocated : e # m0 => symbol'[e] = symbol[e]
      /\ symbol'[m0] = IF MethodInView = m0 THEN sym ELSE symbol[m0]
      /\ MethodInView # m0 => c = 0 /\ symbol[m0].fun = 0
      /\ Inside(m0)' = Inside(m0)
      /\ \A e \in Allocated : Inside(e)' = Inside(e)
  BY <1>1, <1>2, <1>4, Updated
<1>6. HeadIsLatest'
  <2>1. /\ c' < size' /\ sym_eye' = size' /\ (sym_turn' = 1 <=> c' = 0) /\ size' - c' = m0
    BY <1>5, HeadMethod DEF HeadIsLatest
  <2>2. \A e \in m0 + 1 .. size : parent'[e] = m0 /\ symbol'[e].param = 1 /\ symbol'[e].fun = 0
    BY <1>2, <1>5 DEF HeadFacts
  <2>3. symbol'[m0].fun = 0 => parent'[m0] = NULL /\ symbol'[m0].std_type = "PGNAME"
    BY <1>2, <1>4, <1>5 DEF HeadFacts
  <2> QED
    BY <1>5, <2>1, <2>2, <2>3 DEF HeadIsLatest
<1>7. ASSUME NEW m \in Allocated PROVE Entered(m)' = Entered(m)
  <2>1. CASE m = m0
    <3>1. m = size - c /\ m = size' - c'
      BY <1>5, <2>1
    <3> QED
      BY <3>1 DEF Entered
  <2>2. CASE m # m0
    <3>1. m # size - c /\ m # size' - c'
      BY <1>5, <2>2
    <3>2. Entered(m)' = symbol'[m].count
      BY <3>1 DEF Entered
    <3>3. Entered(m) = symbol[m].count
      BY <3>1 DEF Entered
    <3> QED
      BY <1>5, <1>7, <2>2, <3>2, <3>3
  <2> QED
    BY <2>1, <2>2
<1>8. \A m \in Allocated' : symbol'[m].fun = 1 => Inside(m)' = m + 1 .. m + Entered(m)'
  <2> TAKE m \in Allocated'
  <2>1. CASE m = m0
    <3>1. Inside(m0) = m0 + 1 .. m0 + c
      BY <1>2, InsideHead
    <3>2. Entered(m0) = c
      BY DEF Entered
    <3> QED
      BY <1>3, <1>5, <1>7, <2>1, <3>1, <3>2
  <2>2. CASE m # m0
    BY <1>5, <1>7, <2>2, ParametersInside
  <2> QED
    BY <2>1, <2>2
<1> QED
  BY <1>6, <1>8 DEF ParametersComeFirst, Inside, Entered

LEMMA CountKeepsHeads ==
  ASSUME TableInvariant, CountFollowsEntries, HeadIsLatest, ParametersComeFirst,
         HeadIsEntered, ~HeadIsEntered', set_method_param_count(c), c' = c,
         NEW m0, m0 = size - c
  PROVE  HeadIsLatest' /\ ParametersComeFirst'
<1> DEFINE sym == [symbol[MethodInView] EXCEPT !.count = c]
<1>1. UpdateMethod(sym)
  BY DEF set_method_param_count
<1>2. HeadFacts(m0)
  BY HeadMethod
<1>3. m0 \in Allocated /\ symbol[m0] \in Symbol
  BY <1>2 DEF HeadFacts, TableInvariant, TypeOK
<1>4. MethodInView = m0 => sym.param = symbol[m0].param /\ sym.count = c
  BY <1>3 DEF Symbol
<1> HIDE DEF sym
<1>5. /\ Allocated' = Allocated /\ UNCHANGED <<size, sym_eye, sym_turn, parent>>
      /\ \A e \in Allocated : e # m0 => symbol'[e] = symbol[e]
      /\ symbol'[m0] = IF MethodInView = m0 THEN sym ELSE symbol[m0]
      /\ MethodInView # m0 => c = 0 /\ symbol[m0].fun = 0
      /\ Inside(m0)' = Inside(m0)
      /\ \A e \in Allocated : Inside(e)' = Inside(e)
  BY <1>1, <1>2, <1>4, Updated
<1>6. HeadIsLatest'
  BY DEF HeadIsLatest
<1>7. \A m \in Allocated : Entered(m)' = symbol'[m].count
  BY DEF Entered
<1>8. \A m \in Allocated' : symbol'[m].fun = 1 => Inside(m)' = m + 1 .. m + Entered(m)'
  <2> TAKE m \in Allocated'
  <2>1. CASE m = m0
    <3>1. Inside(m0) = m0 + 1 .. m0 + c
      BY <1>2, InsideHead
    <3>2. CASE MethodInView = m0
      BY <1>3, <1>4, <1>5, <1>7, <2>1, <3>1, <3>2
    <3>3. CASE MethodInView # m0
      BY <1>5, <2>1, <3>3
    <3> QED
      BY <3>2, <3>3
  <2>2. CASE m # m0
    <3>1. m # size - c
      BY <2>2
    <3>2. Entered(m) = symbol[m].count
      BY <3>1 DEF Entered
    <3> QED
      BY <1>5, <1>7, <2>2, <3>2, ParametersInside
  <2> QED
    BY <2>1, <2>2
<1> QED
  BY <1>6, <1>8 DEF ParametersComeFirst, Inside, Entered

-----------------------------------------------------------------------------
(* The two together.                                                       *)

LEMMA InitFront == FrontInit => FrontInvariant
<1> SUFFICES ASSUME FrontInit PROVE FrontInvariant
  OBVIOUS
<1>1. ParserInvariant
  BY InitSound DEF FrontInit
<1>2. TableInvariant
  BY InitTable DEF FrontInit
<1>3. CountFollowsEntries
  BY DEF FrontInit, Init, CountFollowsEntries
<1>4. HeadIsLatest /\ ParametersComeFirst
  <2>1. size = 0 /\ Allocated = {}
    BY DEF FrontInit, Init, Allocated
  <2>2. ~HeadIsEntered
    <3>1. /\ ParserTypeOK /\ CallsNest /\ PlacesInBodies /\ stack # <<>>
          /\ Top.prod = "program"
      <4>1. stack = <<Frame("program", 0)>>
        BY DEF FrontInit, ParserInit
      <4>2. stack # <<>> /\ Top = Frame("program", 0)
        BY <4>1 DEF Top, Last
      <4> QED
        BY <1>1, <4>2 DEF ParserInvariant, StackInvariant, Frame
    <3>2. "program" \notin InHead \cup {"subprogram_head"}
      BY DEF InHead, HeadParts
    <3> QED
      BY <3>1, <3>2, NoHeadAround DEF HeadIsEntered
  <2> QED
    BY <2>1, <2>2 DEF HeadIsLatest, ParametersComeFirst
<1> QED
  BY <1>1, <1>2, <1>3, <1>4 DEF FrontInvariant

\* The parser's side of a step.
LEMMA FrontStepOfParser ==
  ASSUME FrontNext
  PROVE  [ParserNext]_parserVars
BY DEF FrontNext, ParserNext

\* The table's side: the function that a production names is called with
\* arguments that its specification knows.
LEMMA FrontStepOfTable ==
  ASSUME FrontInvariant, FrontNext
  PROVE  [Next]_vars
<1>1. c \in Count
  <2>1. size \in 0 .. MaxEntries
    BY DEF FrontInvariant, TableInvariant, TypeOK
  <2> QED
    BY <2>1, ParametersAssumption, MaxEntriesAssumption
    DEF FrontInvariant, CountFollowsEntries
<1>2. CASE UNCHANGED tableVars
  BY <1>2 DEF tableVars
<1>3. ASSUME NEW call, TableFunction(call) PROVE Next
  BY <1>1, <1>3 DEF TableFunction, Next
<1> QED
  BY <1>2, <1>3 DEF FrontNext

\* An entry more, or as many.
LEMMA TableOnlyGrows ==
  ASSUME TableInvariant, NEW call, TableFunction(call)
  PROVE  /\ size' \in {size, size + 1}
         /\ call = "check_add_fun_param" => size' = size + 1
<1>1. ASSUME NEW n, NEW t, NEW p, AddEntry(n, t, p) PROVE size' = size + 1
  BY <1>1 DEF AddEntry, NewEntry
<1>2. ASSUME NEW n, NEW t, check_add_var(n, t) PROVE size' \in {size, size + 1}
  BY <1>1, <1>2 DEF check_add_var
<1>3. ASSUME NEW n, NEW t, check_add_fun_param(n, t) PROVE size' = size + 1
  BY <1>1, <1>3 DEF check_add_fun_param
<1>4. ASSUME NEW n, check_enter_method(n) PROVE size' = size + 1
  BY <1>4 DEF check_enter_method, NewEntry
<1>5. ASSUME check_exit_method PROVE size' = size
  BY <1>5 DEF check_exit_method
<1>6. ASSUME NEW sym, UpdateMethod(sym) PROVE size' = size
  BY <1>6 DEF UpdateMethod
<1> QED
  BY <1>2, <1>3, <1>4, <1>5, <1>6
  DEF TableFunction, check_add_prog_param, set_method_type, set_method_param_count

LEMMA FrontKeepsCount ==
  ASSUME FrontInvariant, FrontNext
  PROVE  CountFollowsEntries'
<1>1. size \in Nat /\ c \in 0 .. size
  BY DEF FrontInvariant, TableInvariant, TypeOK, CountFollowsEntries
<1>2. CASE UNCHANGED tableVars
  BY <1>1, <1>2 DEF tableVars, vars, CountFollowsEntries
<1>3. ASSUME NEW call, TableFunction(call) PROVE CountFollowsEntries'
  <2>1. size' \in {size, size + 1} /\ (call = "check_add_fun_param" => size' = size + 1)
    BY <1>3, TableOnlyGrows DEF FrontInvariant
  <2>2. c' = c \/ c' = 0 \/ (call = "check_add_fun_param" /\ c' = c + 1)
    BY <1>3 DEF TableFunction
  <2> QED
    BY <1>1, <2>1, <2>2 DEF CountFollowsEntries
<1> QED
  BY <1>2, <1>3 DEF FrontNext

\* The invariants about function heads, call by call.
LEMMA FrontKeepsHeads ==
  ASSUME FrontInvariant, FrontNext, TableInvariant'
  PROVE  HeadIsLatest' /\ ParametersComeFirst'
<1>1. /\ ParserInvariant /\ TableInvariant
      /\ CountFollowsEntries /\ HeadIsLatest /\ ParametersComeFirst
  BY DEF FrontInvariant
<1>2. CASE /\ Switch \/ match \/ Call \/ Return \/ synch \/ Finish
           /\ UNCHANGED tableVars
  <2>1. "set_method_param_count" \in HeadCall
    BY DEF HeadCall
  <2>2. HeadIsEntered' <=> HeadIsEntered
    BY <1>1, <1>2, <2>1, EnteredKept DEF HeadIsEntered
  <2>3. UNCHANGED <<symbol, parent, size, sym_eye, sym_turn, c>>
    BY <1>2 DEF tableVars, vars, links
  <2>4. Allocated' = Allocated
    BY <2>3 DEF Allocated
  <2>5. HeadIsLatest'
    BY <1>1, <2>2, <2>3 DEF HeadIsLatest
  <2>6. ParametersComeFirst'
    BY <1>1, <2>2, <2>3, <2>4 DEF ParametersComeFirst
  <2> QED
    BY <2>5, <2>6
<1>3. CASE TableCall /\ TableFunction(Head(Top.todo).arg)
  <2> DEFINE arg == Head(Top.todo).arg
  <2>1. Entering \/ Typing \/ Counting \/ Parametrised \/ Outside
    BY <1>1, <1>3, TableCallsInOrder
  <2>2. CASE Entering
    <3>1. ~HeadIsEntered
      BY <2>2 DEF Entering, HeadIsEntered, HeadCall
    <3>2. c' = 0 /\ \E n \in Name : check_enter_method(n)
      BY <1>3, <2>2 DEF TableFunction, Entering
    <3> QED
      BY <1>1, <3>1, <3>2, EnterKeepsHeads
  <2>3. CASE Typing
    <3>1. HeadIsEntered /\ HeadIsEntered'
      BY <2>3 DEF Typing
    <3>2. c' = c /\ \E t \in VarType : set_method_type(t)
      BY <1>3, <2>3 DEF TableFunction, Typing
    <3> QED
      BY <1>1, <3>1, <3>2, TypeKeepsHeads
  <2>4. CASE Counting
    <3>1. HeadIsEntered /\ ~HeadIsEntered'
      BY <2>4 DEF Counting
    <3>2. c' = c /\ set_method_param_count(c)
      BY <1>3, <2>4 DEF TableFunction, Counting
    <3> QED
      BY <1>1, <3>1, <3>2, CountKeepsHeads
  <2>5. CASE Parametrised
    <3>1. HeadIsEntered /\ HeadIsEntered'
      BY <2>5 DEF Parametrised
    <3>2. c' = c + 1 /\ \E n \in Name, t \in VarType : check_add_fun_param(n, t)
      BY <1>3, <2>5 DEF TableFunction, Parametrised
    <3> QED
      BY <1>1, <3>1, <3>2, ParamKeepsHeads
  <2>6. CASE Outside
    <3>1. ~HeadIsEntered /\ ~HeadIsEntered'
      BY <2>6 DEF Outside
    <3>2. /\ c' = c
          /\ check_exit_method \/ \E n, t : check_add_var(n, t)
      BY <1>3, <2>6 DEF TableFunction, Outside, check_add_prog_param
    <3> QED
      BY <1>1, <3>1, <3>2, AddKeepsHeads, ExitKeepsHeads
  <2> QED
    BY <2>1, <2>2, <2>3, <2>4, <2>5, <2>6
<1> QED
  BY <1>2, <1>3 DEF FrontNext

LEMMA FrontKeeps == FrontInvariant /\ [FrontNext]_allVars => FrontInvariant'
<1> SUFFICES ASSUME FrontInvariant, [FrontNext]_allVars PROVE FrontInvariant'
  OBVIOUS
<1>1. CASE FrontNext
  <2>1. ParserInvariant'
    BY <1>1, FrontStepOfParser, NextSound DEF FrontInvariant
  <2>2. TableInvariant'
    BY <1>1, FrontStepOfTable, NextKeepsTable DEF FrontInvariant
  <2>3. HeadIsLatest' /\ ParametersComeFirst'
    BY <1>1, <2>2, FrontKeepsHeads
  <2> QED
    BY <1>1, <2>1, <2>2, <2>3, FrontKeepsCount DEF FrontInvariant
<1>2. CASE UNCHANGED allVars
  <2>1. ParserInvariant'
    BY <1>2, NextSound DEF FrontInvariant, allVars
  <2>2. TableInvariant'
    BY <1>2, NextKeepsTable DEF FrontInvariant, allVars, tableVars
  <2>3. CountFollowsEntries'
    BY <1>2 DEF FrontInvariant, CountFollowsEntries, allVars, tableVars, vars
  <2>4. UNCHANGED <<stack, symbol, parent, size, sym_eye, sym_turn, c>>
    BY <1>2 DEF allVars, parserVars, tableVars, vars, links
  <2>5. HeadIsEntered' <=> HeadIsEntered
    BY <2>4 DEF HeadIsEntered, EnteredWith
  <2>6. Allocated' = Allocated
    BY <2>4 DEF Allocated
  <2>7. HeadIsLatest' /\ ParametersComeFirst'
    BY <2>4, <2>5, <2>6 DEF FrontInvariant, HeadIsLatest, ParametersComeFirst
  <2> QED
    BY <2>1, <2>2, <2>3, <2>7 DEF FrontInvariant
<1> QED
  BY <1>1, <1>2

LEMMA FrontIsSound == FrontSpec => []FrontInvariant
BY InitFront, FrontKeeps, PTL DEF FrontSpec

-----------------------------------------------------------------------------
(* The theorems.                                                           *)

\* The parser is a caller as SymbolTable.tla assumes it: all that is checked
\* and proved there holds of the front-end, on every source.
THEOREM FrontendImplementsTable == FrontSpec => Spec
<1>1. FrontInit => Init
  BY DEF FrontInit
<1>2. FrontInvariant /\ [FrontNext]_allVars => [Next]_vars
  BY FrontStepOfTable DEF allVars, tableVars
<1> QED
  BY <1>1, <1>2, FrontIsSound, PTL DEF FrontSpec, Spec

\* Whatever the source, errors and recovery included, the links of the table
\* form one consistent tree.
THEOREM FrontendKeepsTable == FrontSpec => []TableInvariant
BY FrontendImplementsTable, TableIsSound

\* However recovery cuts productions short, no declaration unhooks another.
THEOREM FrontendLosesNoEntry == FrontSpec => LinksAreWrittenOnce
BY FrontendImplementsTable, LinksAreNeverOverwritten

\* The calls into the table do not disturb the parser: its recursion is
\* bounded by the source in the front-end too.
THEOREM FrontendRecursionIsBounded == FrontSpec => []RecursionConsumes
<1>1. ParserInvariant => RecursionConsumes
  BY ConsumedBetween DEF ParserInvariant
<1>2. FrontInvariant => ParserInvariant
  BY DEF FrontInvariant
<1> QED
  BY <1>1, <1>2, FrontIsSound, PTL

\* While a function head is parsed, its method and parameters are the latest
\* entries, and the eye is on the last of them.
THEOREM HeadsAreLatest == FrontSpec => []HeadIsLatest
<1>1. FrontInvariant => HeadIsLatest
  BY DEF FrontInvariant
<1> QED
  BY <1>1, FrontIsSound, PTL

\* set_method_type, set_method_param_count and check_add_fun_param never
\* dereference a NULL eye, whatever recovery did before.
THEOREM EyeIsNeverNullWhenUsed == FrontSpec => []EyeIsSetWhenUsed
<1>1. FrontInvariant => EyeIsSetWhenUsed
  <2> SUFFICES ASSUME FrontInvariant,
                      Calling({"set_method_type", "set_method_param_count", "check_add_fun_param"})
               PROVE  sym_eye # NULL
    BY DEF EyeIsSetWhenUsed
  <2>1. HeadIsEntered
    BY CalledInHead DEF Calling, FrontInvariant
  <2> DEFINE m == size - c
  <2>2. HeadFacts(m)
    BY <2>1, HeadMethod DEF FrontInvariant
  <2> QED
    BY <2>2 DEF HeadFacts, Allocated, NULL
<1> QED
  BY <1>1, FrontIsSound, PTL

\* The type and the count of a function head are written to the method that
\* this head entered, or, if it was entered as a program name, nowhere.
THEOREM SignaturesAreOwn == FrontSpec => []SignatureGoesToOwnMethod
<1>1. FrontInvariant => SignatureGoesToOwnMethod
  <2> SUFFICES ASSUME FrontInvariant, Calling({"set_method_type", "set_method_param_count"})
               PROVE  \/ MethodInView = size - c
                      \/ MethodInView = NULL /\ c = 0 /\ symbol[size].std_type = "PGNAME"
    BY DEF SignatureGoesToOwnMethod
  <2>1. HeadIsEntered
    BY CalledInHead DEF Calling, FrontInvariant
  <2> DEFINE m == size - c
  <2>2. HeadFacts(m)
    BY <2>1, HeadMethod DEF FrontInvariant
  <2> HIDE DEF m
  <2>3. \/ MethodInView = m
        \/ MethodInView = NULL /\ c = 0 /\ symbol[size].std_type = "PGNAME"
    BY <2>2, ViewInHead DEF FrontInvariant
  <2> QED
    BY <2>3 DEF m
<1> QED
  BY <1>1, FrontIsSound, PTL

\* get_param_type may count entries from a method on: they are its parameters,
\* in every state and after any recovery.
THEOREM ParametersAlwaysComeFirst == FrontSpec => []ParametersComeFirst
<1>1. FrontInvariant => ParametersComeFirst
  BY DEF FrontInvariant
<1> QED
  BY <1>1, FrontIsSound, PTL


-----------------------------------------------------------------------------
(* What is ahead of a call.                                                *)

LEMMA InRest ==
  ASSUME NEW S, NEW b \in Seq(S), NEW k \in 0 .. Len(b), NEW s
  PROVE  s \in ToSet(SubSeq(b, k + 1, Len(b))) <=> \E j \in 1 .. Len(b) : k < j /\ b[j] = s
<1> DEFINE r == SubSeq(b, k + 1, Len(b))
           n == Len(b)
<1>1. r \in Seq(S) /\ Len(r) = n - k /\ \A i \in 1 .. n - k : r[i] = b[k + i]
  BY Rest
<1>2. DOMAIN r = 1 .. n - k
  BY <1>1, LenProperties
<1>3. n \in Nat /\ k \in 0 .. n
  BY LenProperties
<1> HIDE DEF r, n
<1>4. s \in ToSet(r) <=> \E i \in 1 .. n - k : b[k + i] = s
  BY <1>1, <1>2 DEF ToSet
<1>5. ASSUME NEW i \in 1 .. n - k, b[k + i] = s PROVE \E j \in 1 .. n : k < j /\ b[j] = s
  <2>1. k + i \in 1 .. n /\ k < k + i
    BY <1>3
  <2> QED
    BY <1>5, <2>1
<1>6. ASSUME NEW j \in 1 .. n, k < j, b[j] = s PROVE \E i \in 1 .. n - k : b[k + i] = s
  <2>1. j - k \in 1 .. n - k /\ k + (j - k) = j
    BY <1>3, <1>6
  <2> QED
    BY <1>6, <2>1
<1> QED
  BY <1>4, <1>5, <1>6 DEF r, n

\* A step leaves the others ahead.
LEMMA OthersStayAhead ==
  ASSUME ParserTypeOK, NEW op, NextIs(op), NEW s
  PROVE  /\ s # Head(Top.todo) => (s \in ToSet(Advanced.todo) <=> s \in ToSet(Top.todo))
         /\ s \in ToSet(Advanced.todo) => s \in ToSet(Top.todo)
         /\ Head(Top.todo) \in ToSet(Top.todo)
<1> DEFINE t == Top.todo
           S == Step
<1>1. Top \in FrameType /\ t \in Seq(Step) /\ t # <<>>
  BY HeadIsStep, TopIsFrame DEF FrameType
<1>2. Advanced.todo = Tail(t)
  BY <1>1 DEF Advanced, FrameType
<1> HIDE DEF t, S
<1>3. t \in Seq(S) /\ t # <<>>
  BY <1>1 DEF S
<1>4. Len(t) \in Nat /\ Len(t) > 0 /\ DOMAIN t = 1 .. Len(t)
  BY <1>3, LenProperties, EmptySeq
<1>5. /\ Head(t) = t[1] /\ Tail(t) \in Seq(S) /\ Len(Tail(t)) = Len(t) - 1
      /\ \A i \in 1 .. Len(Tail(t)) : Tail(t)[i] = t[i + 1]
  BY <1>3, HeadTailProperties
<1>6. DOMAIN Tail(t) = 1 .. Len(t) - 1
  BY <1>5, LenProperties
<1>7. s \in ToSet(t) <=> \E i \in 1 .. Len(t) : t[i] = s
  BY <1>4 DEF ToSet
<1>8. s \in ToSet(Tail(t)) <=> \E i \in 1 .. Len(t) - 1 : t[i + 1] = s
  BY <1>5, <1>6 DEF ToSet
<1>9. \A i \in 1 .. Len(t) - 1 : i + 1 \in 1 .. Len(t)
  BY <1>4
<1>10. \A i \in 1 .. Len(t) : i = 1 \/ (i - 1 \in 1 .. Len(t) - 1 /\ i - 1 + 1 = i)
  BY <1>4
<1>11. 1 \in 1 .. Len(t)
  BY <1>4
<1>12. Head(t) \in ToSet(t)
  BY <1>4, <1>5, <1>11 DEF ToSet
<1> QED
  BY <1>2, <1>5, <1>7, <1>8, <1>9, <1>10, <1>12 DEF t

\* The steps of a declaration that is a scope, by their places.
LEMMA ProgramSteps ==
  /\ Len(ProgramBody) = 9
  /\ \A j \in 1 .. 9 : /\ ProgramBody[j] = Sym("check_enter_method") <=> j = 3
                       /\ ProgramBody[j] = Sub("id_list") <=> j = 5
                       /\ ProgramBody[j] = Sub("program_") <=> j = 8
                       /\ ProgramBody[j] = Sym("check_exit_method") <=> j = 9
                       /\ ProgramBody[j].op = "table" => j \in {3, 9}
                       /\ ProgramBody[j].op = "parse" => j \in {5, 8}
<1>1. /\ ProgramBody[1] = Tok("PROGRAM") /\ ProgramBody[2] = Tok("ID")
      /\ ProgramBody[3] = Sym("check_enter_method") /\ ProgramBody[4] = Tok("LPAREN")
      /\ ProgramBody[5] = Sub("id_list") /\ ProgramBody[6] = Tok("RPAREN")
      /\ ProgramBody[7] = Tok("SEMICOLON") /\ ProgramBody[8] = Sub("program_")
      /\ ProgramBody[9] = Sym("check_exit_method") /\ Len(ProgramBody) = 9
  BY DEF ProgramBody
<1>2. ASSUME NEW j \in 1 .. 9
      PROVE  /\ ProgramBody[j] = Sym("check_enter_method") <=> j = 3
             /\ ProgramBody[j] = Sub("id_list") <=> j = 5
             /\ ProgramBody[j] = Sub("program_") <=> j = 8
             /\ ProgramBody[j] = Sym("check_exit_method") <=> j = 9
             /\ ProgramBody[j].op = "table" => j \in {3, 9}
             /\ ProgramBody[j].op = "parse" => j \in {5, 8}
  <2>1. j = 1 \/ j = 2 \/ j = 3 \/ j = 4 \/ j = 5 \/ j = 6 \/ j = 7 \/ j = 8 \/ j = 9
    OBVIOUS
  <2> QED
    BY <1>1, <2>1 DEF Tok, Sub, Sym
<1> QED
  BY <1>1, <1>2

LEMMA SubprogramSteps ==
  /\ Len(SubprogramBody) = 3
  /\ \A j \in 1 .. 3 : /\ SubprogramBody[j] = Sub("subprogram_head") <=> j = 1
                       /\ SubprogramBody[j] = Sub("subprogram_declaration_") <=> j = 2
                       /\ SubprogramBody[j] = Sym("check_exit_method") <=> j = 3
                       /\ SubprogramBody[j].op = "table" => j = 3
                       /\ SubprogramBody[j].op = "parse" => j \in {1, 2}
<1>1. /\ SubprogramBody[1] = Sub("subprogram_head")
      /\ SubprogramBody[2] = Sub("subprogram_declaration_")
      /\ SubprogramBody[3] = Sym("check_exit_method") /\ Len(SubprogramBody) = 3
  BY DEF SubprogramBody
<1>2. \A j \in 1 .. 3 : j = 1 \/ j = 2 \/ j = 3
  OBVIOUS
<1> QED
  BY <1>1, <1>2 DEF Sub, Sym

\* What is ahead in the rest of each after k steps.
ProgramAt(todo, k) ==
  /\ Sym("check_enter_method") \in ToSet(todo) <=> k < 3
  /\ Sub("id_list") \in ToSet(todo) <=> k < 5
  /\ Sub("program_") \in ToSet(todo) <=> k < 8
  /\ Sym("check_exit_method") \in ToSet(todo) <=> k < 9

SubprogramAt(todo, k) ==
  /\ Sub("subprogram_head") \in ToSet(todo) <=> k < 1
  /\ Sub("subprogram_declaration_") \in ToSet(todo) <=> k < 2
  /\ Sym("check_exit_method") \in ToSet(todo) <=> k < 3

LEMMA ProgramRest ==
  ASSUME NEW k \in 0 .. 9, NEW b \in Seq(Step), b = ProgramBody
  PROVE  ProgramAt(SubSeq(b, k + 1, Len(b)), k)
<1>1. Len(b) = 9 /\ 3 \in 1 .. 9 /\ 5 \in 1 .. 9 /\ 8 \in 1 .. 9 /\ 9 \in 1 .. 9
  BY ProgramSteps
<1>2. \A s : s \in ToSet(SubSeq(b, k + 1, Len(b))) <=> \E j \in 1 .. Len(b) : k < j /\ b[j] = s
  <2>1. k \in 0 .. Len(b)
    BY <1>1
  <2> QED
    BY <2>1, InRest
<1>3. \A j \in 1 .. 9 : /\ b[j] = Sym("check_enter_method") <=> j = 3
                        /\ b[j] = Sub("id_list") <=> j = 5
                        /\ b[j] = Sub("program_") <=> j = 8
                        /\ b[j] = Sym("check_exit_method") <=> j = 9
  BY ProgramSteps
<1> DEFINE t == SubSeq(b, k + 1, Len(b))
<1> HIDE DEF t
<1>4. \A s : s \in ToSet(t) <=> \E j \in 1 .. 9 : k < j /\ b[j] = s
  BY <1>1, <1>2 DEF t
<1>5. ASSUME NEW s, NEW p \in 1 .. 9, \A j \in 1 .. 9 : b[j] = s <=> j = p
      PROVE  s \in ToSet(t) <=> k < p
  BY <1>4, <1>5
<1>6. /\ Sym("check_enter_method") \in ToSet(t) <=> k < 3
      /\ Sub("id_list") \in ToSet(t) <=> k < 5
      /\ Sub("program_") \in ToSet(t) <=> k < 8
      /\ Sym("check_exit_method") \in ToSet(t) <=> k < 9
  BY <1>1, <1>3, <1>5
<1> QED
  BY <1>6 DEF ProgramAt, t

LEMMA SubprogramRest ==
  ASSUME NEW k \in 0 .. 3, NEW b \in Seq(Step), b = SubprogramBody
  PROVE  SubprogramAt(SubSeq(b, k + 1, Len(b)), k)
<1>1. Len(b) = 3 /\ 1 \in 1 .. 3 /\ 2 \in 1 .. 3 /\ 3 \in 1 .. 3
  BY SubprogramSteps
<1>2. \A s : s \in ToSet(SubSeq(b, k + 1, Len(b))) <=> \E j \in 1 .. Len(b) : k < j /\ b[j] = s
  <2>1. k \in 0 .. Len(b)
    BY <1>1
  <2> QED
    BY <2>1, InRest
<1>3. \A j \in 1 .. 3 : /\ b[j] = Sub("subprogram_head") <=> j = 1
                        /\ b[j] = Sub("subprogram_declaration_") <=> j = 2
                        /\ b[j] = Sym("check_exit_method") <=> j = 3
  BY SubprogramSteps
<1> DEFINE t == SubSeq(b, k + 1, Len(b))
<1> HIDE DEF t
<1>4. \A s : s \in ToSet(t) <=> \E j \in 1 .. 3 : k < j /\ b[j] = s
  BY <1>1, <1>2 DEF t
<1>5. ASSUME NEW s, NEW p \in 1 .. 3, \A j \in 1 .. 3 : b[j] = s <=> j = p
      PROVE  s \in ToSet(t) <=> k < p
  BY <1>4, <1>5
<1>6. /\ Sub("subprogram_head") \in ToSet(t) <=> k < 1
      /\ Sub("subprogram_declaration_") \in ToSet(t) <=> k < 2
      /\ Sym("check_exit_method") \in ToSet(t) <=> k < 3
  BY <1>1, <1>3, <1>5
<1> QED
  BY <1>6 DEF SubprogramAt, t

\* A call that waits has what is behind its callee ahead.
LEMMA ProgramWaits ==
  ASSUME ParserInvariant, NEW i \in DOMAIN stack, i < Len(stack), stack[i].prod = "program"
  PROVE  /\ ~Ahead(i, Sym("check_enter_method")) /\ Ahead(i, Sym("check_exit_method"))
         /\ ~Ahead(i, Sub("id_list"))
         /\ \/ stack[i + 1].prod = "id_list" /\ Ahead(i, Sub("program_"))
            \/ stack[i + 1].prod = "program_" /\ ~Ahead(i, Sub("program_"))
<1>1. ParserTypeOK /\ CallsNest /\ PlacesInBodies
  BY DEF ParserInvariant, StackInvariant
<1>2. PICK a \in Rules["program"] : \E k \in DOMAIN a.body :
        a.body[k] = Sub(stack[i + 1].prod) /\ stack[i].todo = SubSeq(a.body, k + 1, Len(a.body))
  BY <1>1, CallIsInBody
<1> DEFINE b == a.body
<1>3. "program" \in Production /\ b \in Seq(Step) /\ b = ProgramBody
  BY RulesAssumption, BodyIsSteps, ScopeAssumption
<1> HIDE DEF b
<1>4. PICK k \in 1 .. 9 :
        b[k] = Sub(stack[i + 1].prod) /\ stack[i].todo = SubSeq(b, k + 1, Len(b))
  <2>1. DOMAIN b = 1 .. 9
    BY <1>3, ProgramSteps, LenProperties
  <2> QED
    BY <1>2, <2>1 DEF b
<1>5. ProgramAt(stack[i].todo, k)
  BY <1>3, <1>4, ProgramRest
<1>6. k \in {5, 8}
  <2>1. b[k].op = "parse"
    BY <1>4 DEF Sub
  <2> QED
    BY <1>3, <2>1, ProgramSteps
<1>7. stack[i].at = "body"
  BY <1>1, CallIsInBody
<1>8. (k = 5 => b[k] = Sub("id_list")) /\ (k = 8 => b[k] = Sub("program_"))
  BY <1>3, ProgramSteps
<1>9. (k = 5 => stack[i + 1].prod = "id_list") /\ (k = 8 => stack[i + 1].prod = "program_")
  BY <1>4, <1>8 DEF Sub
<1> QED
  BY <1>5, <1>6, <1>7, <1>9 DEF ProgramAt, Ahead

LEMMA SubprogramWaits ==
  ASSUME ParserInvariant, NEW i \in DOMAIN stack, i < Len(stack),
         stack[i].prod = "subprogram_declaration"
  PROVE  /\ Ahead(i, Sym("check_exit_method")) /\ ~Ahead(i, Sub("subprogram_head"))
         /\ \/ stack[i + 1].prod = "subprogram_head"
            \/ /\ stack[i + 1].prod = "subprogram_declaration_"
               /\ ~Ahead(i, Sub("subprogram_declaration_"))
<1>1. ParserTypeOK /\ CallsNest /\ PlacesInBodies
  BY DEF ParserInvariant, StackInvariant
<1>2. PICK a \in Rules["subprogram_declaration"] : \E k \in DOMAIN a.body :
        a.body[k] = Sub(stack[i + 1].prod) /\ stack[i].todo = SubSeq(a.body, k + 1, Len(a.body))
  BY <1>1, CallIsInBody
<1> DEFINE b == a.body
<1>3. b \in Seq(Step) /\ b = SubprogramBody
  <2>1. "subprogram_declaration" \in Production
    BY <1>1, CallIsInBody
  <2> QED
    BY <2>1, BodyIsSteps, ScopeAssumption
<1> HIDE DEF b
<1>4. PICK k \in 1 .. 3 :
        b[k] = Sub(stack[i + 1].prod) /\ stack[i].todo = SubSeq(b, k + 1, Len(b))
  <2>1. DOMAIN b = 1 .. 3
    BY <1>3, SubprogramSteps, LenProperties
  <2> QED
    BY <1>2, <2>1 DEF b
<1>5. SubprogramAt(stack[i].todo, k)
  BY <1>3, <1>4, SubprogramRest
<1>6. k \in {1, 2}
  <2>1. b[k].op = "parse"
    BY <1>4 DEF Sub
  <2> QED
    BY <1>3, <2>1, SubprogramSteps
<1>7. stack[i].at = "body"
  BY <1>1, CallIsInBody
<1>8. (k = 1 => b[k] = Sub("subprogram_head")) /\ (k = 2 => b[k] = Sub("subprogram_declaration_"))
  BY <1>3, SubprogramSteps
<1>9. /\ k = 1 => stack[i + 1].prod = "subprogram_head"
      /\ k = 2 => stack[i + 1].prod = "subprogram_declaration_"
  BY <1>4, <1>8 DEF Sub
<1> QED
  BY <1>5, <1>6, <1>7, <1>9 DEF SubprogramAt, Ahead

\* The declarations of a scope are its first part.
LEMMA DeclaredFirst ==
  ASSUME ParserInvariant, NEW i \in DOMAIN stack, i < Len(stack),
         stack[i].prod \in {"program_", "subprogram_declaration_"}
  PROVE  ~Ahead(i, Sub("declarations"))
<1>1. ParserTypeOK /\ CallsNest /\ PlacesInBodies
  BY DEF ParserInvariant, StackInvariant
<1>2. stack[i].prod \in Production /\ stack[i].at = "body"
  BY <1>1, CallIsInBody
<1>3. PICK a \in Rules[stack[i].prod] : \E k \in DOMAIN a.body :
        stack[i].todo = SubSeq(a.body, k + 1, Len(a.body))
  BY <1>1, CallIsInBody
<1>4. PICK k \in DOMAIN a.body : stack[i].todo = SubSeq(a.body, k + 1, Len(a.body))
  BY <1>3
<1> DEFINE b == a.body
<1>5. b \in Seq(Step) /\ Len(b) \in Nat /\ k \in 1 .. Len(b)
  BY <1>2, BodyIsSteps, LenProperties
<1>6. \A j \in 1 .. Len(b) : b[j] = Sub("declarations") => j = 1
  <2>1. DOMAIN b = 1 .. Len(b)
    BY <1>5, LenProperties
  <2> QED
    BY <2>1, ScopeAssumption
<1> HIDE DEF b
<1>7. k \in 0 .. Len(b) /\ \A j \in 1 .. Len(b) : k < j => j # 1
  BY <1>5
<1>8. Sub("declarations") \notin ToSet(SubSeq(b, k + 1, Len(b)))
  BY <1>5, <1>6, <1>7, InRest
<1> QED
  BY <1>2, <1>4, <1>8 DEF Ahead, b

\* The running call at a step of such a declaration.
LEMMA ProgramStep ==
  ASSUME ParserInvariant, NEW op, NextIs(op), Top.prod = "program"
  PROVE  \E k \in 0 .. 8 :
           /\ ProgramAt(Top.todo, k) /\ ProgramAt(Advanced.todo, k + 1)
           /\ Head(Top.todo) = ProgramBody[k + 1]
           /\ op = "table" => k \in {2, 8}
           /\ op = "parse" => k \in {4, 7}
<1>1. ParserTypeOK /\ PlacesInBodies /\ stack # <<>> /\ Top.at = "body"
  BY HeadIsStep DEF ParserInvariant, StackInvariant
<1>2. PICK a \in Rules["program"] : \E k \in 0 .. Len(a.body) :
        Top.todo = SubSeq(a.body, k + 1, Len(a.body))
  BY <1>1, TopHasPlace
<1> DEFINE b == a.body
<1>3. "program" \in Production /\ b \in Seq(Step) /\ b = ProgramBody /\ Len(b) = 9
  BY RulesAssumption, BodyIsSteps, ScopeAssumption, ProgramSteps
<1> HIDE DEF b
<1>4. PICK k \in 0 .. 9 : Top.todo = SubSeq(b, k + 1, Len(b))
  BY <1>2, <1>3 DEF b
<1>5. Top.todo # <<>> /\ Head(Top.todo).op = op /\ Top \in FrameType
  BY <1>1, HeadIsStep, TopIsFrame
<1>6. /\ k + 1 \in 1 .. 9 /\ Head(Top.todo) = b[k + 1]
      /\ Tail(Top.todo) = SubSeq(b, k + 1 + 1, Len(b))
  <2>1. k \in 0 .. Len(b) /\ SubSeq(b, k + 1, Len(b)) # <<>>
    BY <1>3, <1>4, <1>5
  <2>2. /\ k + 1 \in 1 .. Len(b) /\ Head(SubSeq(b, k + 1, Len(b))) = b[k + 1]
        /\ Tail(SubSeq(b, k + 1, Len(b))) = SubSeq(b, k + 1 + 1, Len(b))
    BY <1>3, <2>1, RestGoesOn
  <2> QED
    BY <1>3, <1>4, <2>2
<1>7. Advanced.todo = Tail(Top.todo)
  BY <1>5 DEF Advanced, FrameType
<1>8. ProgramAt(Top.todo, k)
  BY <1>3, <1>4, ProgramRest
<1> DEFINE m == k + 1
<1>9. m \in 1 .. 9 /\ m \in 0 .. 9 /\ Advanced.todo = SubSeq(b, m + 1, Len(b))
  BY <1>6, <1>7
<1> HIDE DEF m
<1>10. ProgramAt(Advanced.todo, m)
  BY <1>3, <1>9, ProgramRest
<1>11. /\ op = "table" => m \in {3, 9}
       /\ op = "parse" => m \in {5, 8}
  <2>1. b[m].op = op
    BY <1>5, <1>6 DEF m
  <2> QED
    BY <1>3, <1>9, <2>1, ProgramSteps
<1>12. k \in 0 .. 8 /\ (m \in {3, 9} => k \in {2, 8}) /\ (m \in {5, 8} => k \in {4, 7})
  BY <1>6 DEF m
<1> QED
  BY <1>3, <1>6, <1>8, <1>10, <1>11, <1>12 DEF m

LEMMA SubprogramStep ==
  ASSUME ParserInvariant, NEW op, NextIs(op), Top.prod = "subprogram_declaration"
  PROVE  \E k \in 0 .. 2 :
           /\ SubprogramAt(Top.todo, k) /\ SubprogramAt(Advanced.todo, k + 1)
           /\ Head(Top.todo) = SubprogramBody[k + 1]
           /\ op = "table" => k = 2
           /\ op = "parse" => k \in {0, 1}
           /\ op # "match"
<1>1. ParserTypeOK /\ PlacesInBodies /\ stack # <<>> /\ Top.at = "body"
  BY HeadIsStep DEF ParserInvariant, StackInvariant
<1>2. PICK a \in Rules["subprogram_declaration"] : \E k \in 0 .. Len(a.body) :
        Top.todo = SubSeq(a.body, k + 1, Len(a.body))
  BY <1>1, TopHasPlace
<1>5. Top.todo # <<>> /\ Head(Top.todo).op = op /\ Top \in FrameType
  BY <1>1, HeadIsStep, TopIsFrame
<1> DEFINE b == a.body
<1>3. b \in Seq(Step) /\ b = SubprogramBody /\ Len(b) = 3
  <2>1. "subprogram_declaration" \in Production
    BY <1>5 DEF FrameType
  <2> QED
    BY <2>1, BodyIsSteps, ScopeAssumption, SubprogramSteps
<1> HIDE DEF b
<1>4. PICK k \in 0 .. 3 : Top.todo = SubSeq(b, k + 1, Len(b))
  BY <1>2, <1>3 DEF b
<1>6. /\ k + 1 \in 1 .. 3 /\ Head(Top.todo) = b[k + 1]
      /\ Tail(Top.todo) = SubSeq(b, k + 1 + 1, Len(b))
  <2>1. k \in 0 .. Len(b) /\ SubSeq(b, k + 1, Len(b)) # <<>>
    BY <1>3, <1>4, <1>5
  <2>2. /\ k + 1 \in 1 .. Len(b) /\ Head(SubSeq(b, k + 1, Len(b))) = b[k + 1]
        /\ Tail(SubSeq(b, k + 1, Len(b))) = SubSeq(b, k + 1 + 1, Len(b))
    BY <1>3, <2>1, RestGoesOn
  <2> QED
    BY <1>3, <1>4, <2>2
<1>7. Advanced.todo = Tail(Top.todo)
  BY <1>5 DEF Advanced, FrameType
<1>8. SubprogramAt(Top.todo, k)
  BY <1>3, <1>4, SubprogramRest
<1> DEFINE m == k + 1
<1>9. m \in 1 .. 3 /\ m \in 0 .. 3 /\ Advanced.todo = SubSeq(b, m + 1, Len(b))
  BY <1>6, <1>7
<1> HIDE DEF m
<1>10. SubprogramAt(Advanced.todo, m)
  BY <1>3, <1>9, SubprogramRest
<1>11. /\ op = "table" => m = 3
       /\ op = "parse" => m \in {1, 2}
       /\ op # "match"
  <2>1. b[m].op = op
    BY <1>5, <1>6 DEF m
  <2>2. m = 1 \/ m = 2 \/ m = 3
    BY <1>9
  <2>3. b[1].op = "parse" /\ b[2].op = "parse" /\ b[3].op = "table"
    BY <1>3 DEF SubprogramBody, Sub, Sym
  <2> QED
    BY <2>1, <2>2, <2>3
<1>12. k \in 0 .. 2 /\ (m = 3 => k = 2) /\ (m \in {1, 2} => k \in {0, 1})
  BY <1>6 DEF m
<1> QED
  BY <1>3, <1>6, <1>8, <1>10, <1>11, <1>12 DEF m

-----------------------------------------------------------------------------
(* Where the calls are.                                                    *)

LEMMA CallersOfScopes ==
  /\ Callers("program") = {}
  /\ Callers("program_") = {"program"} /\ Callers("id_list") = {"program"}
  /\ Callers("id_list_") = {"id_list", "id_list_"}
  /\ Callers("declarations") = {"program_", "subprogram_declaration_"}
  /\ Callers("declarations_") = {"declarations", "declarations_"}
  /\ Callers("subprogram_head") = {"subprogram_declaration"}
  /\ Callers("subprogram_declaration_") = {"subprogram_declaration"}
<1>1. Callers("program") = {}
  BY DEF Callers
<1>2. Callers("program_") = {"program"} /\ Callers("id_list") = {"program"}
  BY DEF Callers
<1>3. Callers("id_list_") = {"id_list", "id_list_"}
  BY DEF Callers
<1>4. Callers("declarations") = {"program_", "subprogram_declaration_"}
  BY DEF Callers
<1>5. Callers("declarations_") = {"declarations", "declarations_"}
  BY DEF Callers
<1>6. /\ Callers("subprogram_head") = {"subprogram_declaration"}
      /\ Callers("subprogram_declaration_") = {"subprogram_declaration"}
  BY DEF Callers
<1> QED
  BY <1>1, <1>2, <1>3, <1>4, <1>5, <1>6

\* A call is made by one of its callers.
LEMMA CalledByCaller ==
  ASSUME ParserInvariant, NEW i \in DOMAIN stack, i < Len(stack)
  PROVE  /\ i + 1 \in DOMAIN stack
         /\ stack[i].prod \in Callers(stack[i + 1].prod)
         /\ stack[i].prod \in Functionless => stack[i + 1].prod \in Functionless
         /\ stack[i].prod \in {"id_list", "id_list_"} => stack[i + 1].prod = "id_list_"
<1>1. ParserTypeOK /\ CallsNest /\ PlacesInBodies
  BY DEF ParserInvariant, StackInvariant
<1>2. stack[i].prod \in Production /\ i + 1 \in DOMAIN stack
  BY <1>1, CallIsInBody
<1>3. PICK a \in Rules[stack[i].prod] : \E k \in DOMAIN a.body : a.body[k] = Sub(stack[i + 1].prod)
  BY <1>1, CallIsInBody
<1>4. PICK k \in DOMAIN a.body : a.body[k] = Sub(stack[i + 1].prod)
  BY <1>3
<1>5. a.body[k].op = "parse" /\ a.body[k].arg = stack[i + 1].prod
  BY <1>4 DEF Sub
<1> QED
  BY <1>2, <1>5, ScopeAssumption

\* And the running call is one of those that may take the step.
LEMMA StepOfProduction ==
  ASSUME ParserInvariant, NEW op, NextIs(op)
  PROVE  /\ op = "table" => /\ Top.prod \in TableCallers(Head(Top.todo).arg)
                            /\ Head(Top.todo) = Sym(Head(Top.todo).arg)
         /\ op = "parse" => /\ Top.prod \in Callers(Head(Top.todo).arg)
                            /\ Head(Top.todo) = Sub(Head(Top.todo).arg)
<1>1. ParserTypeOK /\ PlacesInBodies /\ stack # <<>> /\ Head(Top.todo) \in Step /\ Head(Top.todo).op = op
  BY HeadIsStep DEF ParserInvariant, StackInvariant
<1>2. PICK a \in Rules[Top.prod] : \E k \in 0 .. Len(a.body) :
        k + 1 \in 1 .. Len(a.body) /\ a.body[k + 1] = Head(Top.todo)
  BY <1>1, PlaceOfStep
<1>3. PICK k \in 0 .. Len(a.body) : k + 1 \in 1 .. Len(a.body) /\ a.body[k + 1] = Head(Top.todo)
  BY <1>2
<1>4. Top.prod \in Production
  BY <1>1, TopIsFrame DEF FrameType
<1> DEFINE m == k + 1
<1>5. m \in DOMAIN a.body /\ a.body[m] = Head(Top.todo)
  <2>1. a.body \in Seq(Step)
    BY <1>4, BodyIsSteps
  <2> QED
    BY <1>3, <2>1, LenProperties
<1> HIDE DEF m
<1>6. /\ op = "table" => Top.prod \in TableCallers(Head(Top.todo).arg)
      /\ op = "parse" => Top.prod \in Callers(Head(Top.todo).arg)
  BY <1>1, <1>4, <1>5, ScopeAssumption
<1>7. op = "table" => Head(Top.todo) = Sym(Head(Top.todo).arg)
  BY <1>1 DEF Step, Sym
<1>8. op = "parse" => Head(Top.todo) = Sub(Head(Top.todo).arg)
  BY <1>1, CallIsSub
<1> QED
  BY <1>6, <1>7, <1>8

\* What is closed under calls holds of all that is above.
LEMMA StaysInside ==
  ASSUME ParserInvariant, NEW S,
         \A i \in DOMAIN stack : i < Len(stack) /\ stack[i].prod \in S => stack[i + 1].prod \in S,
         NEW i \in DOMAIN stack, stack[i].prod \in S, NEW j \in DOMAIN stack, i < j
  PROVE  stack[j].prod \in S
<1> DEFINE Out == {x \in DOMAIN stack : i < x /\ stack[x].prod \notin S}
<1>1. SUFFICES ASSUME Out # {} PROVE FALSE
  OBVIOUS
<1>2. DOMAIN stack = 1 .. Len(stack) /\ Len(stack) \in Nat
  BY TopIsFrame, EmptySeq DEF ParserInvariant, StackInvariant
<1>3. PICK x \in Out : \A y \in Out : x <= y
  <2>1. Out \in SUBSET Nat
    BY <1>2
  <2> HIDE DEF Out
  <2> QED
    BY <1>1, <2>1, LeastExists
<1> DEFINE z == x - 1
<1>4. x \in DOMAIN stack /\ i < x /\ stack[x].prod \notin S
  OBVIOUS
<1>5. z \in DOMAIN stack /\ z < Len(stack) /\ z + 1 = x /\ ~(x <= z) /\ (i < z \/ i = z)
  BY <1>2, <1>4
<1>6. z \notin Out
  BY <1>3, <1>5
<1> HIDE DEF z
<1>7. stack[z].prod \in S
  BY <1>5, <1>6
<1> QED
  BY <1>4, <1>5, <1>7

\* The program is not called, and its parameters only by it.
LEMMA ProgramIsFirst ==
  ASSUME ParserInvariant, NEW i \in DOMAIN stack, stack[i].prod = "program"
  PROVE  i = 1
<1>1. DOMAIN stack = 1 .. Len(stack) /\ Len(stack) \in Nat
  BY TopIsFrame, EmptySeq DEF ParserInvariant, StackInvariant
<1> SUFFICES ASSUME i # 1 PROVE FALSE
  OBVIOUS
<1> DEFINE z == i - 1
<1>2. z \in DOMAIN stack /\ z < Len(stack) /\ z + 1 = i
  BY <1>1
<1> HIDE DEF z
<1> QED
  BY <1>2, CalledByCaller, CallersOfScopes

LEMMA IdListIsSecond ==
  ASSUME ParserInvariant, NEW i \in DOMAIN stack, stack[i].prod = "id_list"
  PROVE  i = 2
<1>1. DOMAIN stack = 1 .. Len(stack) /\ Len(stack) \in Nat /\ stack # <<>>
  BY TopIsFrame, EmptySeq DEF ParserInvariant, StackInvariant
<1>2. i # 1
  BY <1>1 DEF ParserInvariant, ProgramIsOutermost
<1> DEFINE z == i - 1
<1>3. z \in DOMAIN stack /\ z < Len(stack) /\ z + 1 = i
  BY <1>1, <1>2
<1> HIDE DEF z
<1>4. stack[z].prod = "program"
  BY <1>3, CalledByCaller, CallersOfScopes
<1>5. z = 1
  BY <1>3, <1>4, ProgramIsFirst
<1> QED
  BY <1>3, <1>5

\* While they are read, nothing else is.
LEMMA OnlyIdsInside ==
  ASSUME ParserInvariant, NEW i \in DOMAIN stack, stack[i].prod = "id_list"
  PROVE  Top.prod \in {"id_list", "id_list_"}
<1>1. /\ DOMAIN stack = 1 .. Len(stack) /\ Len(stack) \in Nat /\ stack # <<>>
      /\ Len(stack) \in DOMAIN stack /\ Top = stack[Len(stack)]
  BY TopIsFrame, EmptySeq DEF ParserInvariant, StackInvariant
<1>2. CASE i = Len(stack)
  BY <1>1, <1>2
<1>3. CASE i # Len(stack)
  <2> DEFINE S == {"id_list", "id_list_"}
  <2>1. i < Len(stack) /\ stack[i].prod \in S
    BY <1>1, <1>3
  <2>2. \A j \in DOMAIN stack : j < Len(stack) /\ stack[j].prod \in S => stack[j + 1].prod \in S
    BY CalledByCaller
  <2> HIDE DEF S
  <2>3. stack[Len(stack)].prod \in S
    BY <1>1, <2>1, <2>2, StaysInside
  <2> QED
    BY <1>1, <2>3 DEF S
<1> QED
  BY <1>2, <1>3

LEMMA IdsAreBelow ==
  ASSUME ParserInvariant, NEW i \in DOMAIN stack, stack[i].prod \in {"id_list", "id_list_"}
  PROVE  2 \in DOMAIN stack /\ stack[2].prod = "id_list"
<1> DEFINE Ids == {x \in DOMAIN stack : stack[x].prod \in {"id_list", "id_list_"}}
<1>1. DOMAIN stack = 1 .. Len(stack) /\ Len(stack) \in Nat /\ stack # <<>>
  BY TopIsFrame, EmptySeq DEF ParserInvariant, StackInvariant
<1>2. PICK x \in Ids : \A y \in Ids : x <= y
  <2>1. Ids \in SUBSET Nat /\ Ids # {}
    BY <1>1
  <2> HIDE DEF Ids
  <2> QED
    BY <2>1, LeastExists
<1>3. x \in DOMAIN stack /\ stack[x].prod \in {"id_list", "id_list_"}
  OBVIOUS
<1>4. x # 1
  BY <1>1, <1>3 DEF ParserInvariant, ProgramIsOutermost
<1> DEFINE z == x - 1
<1>5. z \in DOMAIN stack /\ z < Len(stack) /\ z + 1 = x /\ ~(x <= z)
  BY <1>1, <1>3, <1>4
<1>6. stack[z].prod \notin {"id_list", "id_list_"}
  BY <1>2, <1>5
<1> HIDE DEF z, Ids
<1>7. stack[x].prod = "id_list"
  BY <1>3, <1>5, <1>6, CalledByCaller, CallersOfScopes
<1>8. x = 2
  BY <1>3, <1>7, IdListIsSecond
<1> QED
  BY <1>3, <1>7, <1>8

\* Inside a function head, a list of names or declarations there is no function.
LEMMA NoFunctionInside ==
  ASSUME ParserInvariant, NEW i \in DOMAIN stack, stack[i].prod \in Functionless,
         NEW j \in DOMAIN stack, i < j
  PROVE  stack[j].prod # "subprogram_declaration"
<1>1. \A k \in DOMAIN stack : k < Len(stack) /\ stack[k].prod \in Functionless =>
        stack[k + 1].prod \in Functionless
  BY CalledByCaller
<1>2. stack[j].prod \in Functionless
  BY <1>1, StaysInside
<1>3. "subprogram_declaration" \notin Functionless
  BY DEF Functionless, InHead, HeadParts
<1> QED
  BY <1>2, <1>3

\* When a function is left, no variables can come in the scopes around it.
LEMMA LeavingDeclaresNothing ==
  ASSUME ParserInvariant, NextIs("table"), Top.prod \in {"program", "subprogram_declaration"},
         Head(Top.todo).arg = "check_exit_method"
  PROVE  \A i \in DOMAIN stack : ~MayDeclare(i)
<1>1. /\ DOMAIN stack = 1 .. Len(stack) /\ Len(stack) \in Nat /\ stack # <<>>
      /\ Len(stack) \in DOMAIN stack /\ Top = stack[Len(stack)] /\ Top.at = "body"
  BY TopIsFrame, HeadIsStep DEF ParserInvariant, StackInvariant
<1>2. Head(Top.todo) = Sym("check_exit_method")
  BY StepOfProduction
<1>3. ~MayDeclare(Len(stack))
  <2>1. CASE Top.prod = "program"
    <3>1. PICK k \in 0 .. 8 : /\ ProgramAt(Top.todo, k) /\ k \in {2, 8}
                              /\ Head(Top.todo) = ProgramBody[k + 1]
      BY <2>1, ProgramStep
    <3>2. k = 8
      <4>1. ProgramBody[3] # Sym("check_exit_method")
        BY ProgramSteps
      <4> QED
        BY <1>2, <3>1, <4>1
    <3>3. Sub("program_") \notin ToSet(Top.todo)
      BY <3>1, <3>2 DEF ProgramAt
    <3> QED
      BY <1>1, <2>1, <3>3 DEF MayDeclare, Ahead
  <2>2. CASE Top.prod = "subprogram_declaration"
    <3>1. PICK k \in 0 .. 2 : SubprogramAt(Top.todo, k) /\ k = 2
      BY <2>2, SubprogramStep
    <3>2. Sub("subprogram_declaration_") \notin ToSet(Top.todo)
      BY <3>1 DEF SubprogramAt
    <3> QED
      BY <1>1, <2>2, <3>2 DEF MayDeclare, Ahead
  <2> QED
    BY <2>1, <2>2
<1>4. ASSUME NEW i \in DOMAIN stack, i < Len(stack) PROVE ~MayDeclare(i)
  <2>1. stack[i].prod \notin Functionless /\ (Top.prod = "subprogram_declaration")
    <3>1. Top.prod = "subprogram_declaration"
      <4>1. Top.prod = "program" => Len(stack) = 1
        BY <1>1, ProgramIsFirst
      <4>2. 1 <= i
        BY <1>1
      <4> QED
        BY <1>1, <1>4, <4>1, <4>2
    <3> QED
      BY <1>1, <1>4, <3>1, NoFunctionInside
  <2>2. stack[i].prod \notin {"declarations", "declarations_"}
    BY <2>1 DEF Functionless
  <2>3. CASE stack[i].prod \in {"program_", "subprogram_declaration_"}
    BY <1>4, <2>3, DeclaredFirst DEF MayDeclare
  <2>4. stack[i + 1].prod \notin Functionless
    <3>1. i + 1 \in DOMAIN stack /\ (i + 1 = Len(stack) \/ i + 1 < Len(stack))
      BY <1>1, <1>4
    <3>2. "subprogram_declaration" \notin Functionless
      BY DEF Functionless, InHead, HeadParts
    <3> QED
      BY <1>1, <2>1, <3>1, <3>2, NoFunctionInside
  <2>5. "id_list" \in Functionless /\ "subprogram_head" \in Functionless
    BY DEF Functionless
  <2>6. CASE stack[i].prod = "program"
    BY <1>4, <2>4, <2>5, <2>6, ProgramWaits DEF MayDeclare
  <2>7. CASE stack[i].prod = "subprogram_declaration"
    BY <1>4, <2>4, <2>5, <2>7, SubprogramWaits DEF MayDeclare
  <2> QED
    BY <2>2, <2>3, <2>6, <2>7 DEF MayDeclare
<1>5. \A i \in DOMAIN stack : i = Len(stack) \/ i < Len(stack)
  BY <1>1
<1> QED
  BY <1>3, <1>4, <1>5

-----------------------------------------------------------------------------
(* Steps of the running call that make no scope.                           *)

\* A call, wherever it is, has the step still to do.
AheadIn(f, step) == f.at = "switch" \/ step \in ToSet(f.todo)

\* What is ahead of a declaration, for Owing and NamesFirst.
Watched(prod) ==
  CASE prod = "program" -> {Sym("check_enter_method"), Sym("check_exit_method"), Sub("id_list")}
    [] prod = "subprogram_declaration" -> {Sub("subprogram_head"), Sym("check_exit_method")}
    [] prod = "subprogram_head" -> {Sym("check_enter_method")}
    [] prod = "id_list" -> {Sym("check_add_prog_param")}
    [] OTHER -> {}

LEMMA WatchedSteps ==
  /\ Watched("program") = {Sym("check_enter_method"), Sym("check_exit_method"), Sub("id_list")}
  /\ Watched("subprogram_declaration") = {Sub("subprogram_head"), Sym("check_exit_method")}
  /\ Watched("subprogram_head") = {Sym("check_enter_method")}
  /\ Watched("id_list") = {Sym("check_add_prog_param")}
  /\ \A prod : prod \notin {"program", "subprogram_declaration", "subprogram_head", "id_list"} =>
       Watched(prod) = {}
<1>1. Watched("program") = {Sym("check_enter_method"), Sym("check_exit_method"), Sub("id_list")}
  BY DEF Watched
<1>2. Watched("subprogram_declaration") = {Sub("subprogram_head"), Sym("check_exit_method")}
  BY DEF Watched
<1>3. Watched("subprogram_head") = {Sym("check_enter_method")}
  BY DEF Watched
<1>4. Watched("id_list") = {Sym("check_add_prog_param")}
  BY DEF Watched
<1>5. ASSUME NEW prod,
             prod \notin {"program", "subprogram_declaration", "subprogram_head", "id_list"}
      PROVE  Watched(prod) = {}
  BY <1>5 DEF Watched
<1> QED
  BY <1>1, <1>2, <1>3, <1>4, <1>5

\* A call that becomes this has lost nothing that is watched.
Alike(f, g) ==
  /\ \A s : AheadIn(f, s) => AheadIn(g, s)
  /\ \A s \in Watched(g.prod) : AheadIn(g, s) => AheadIn(f, s)

\* Parameters of the program are still to come in its list.
IdIsAhead ==
  \E i \in DOMAIN stack : stack[i].prod = "id_list" /\ Ahead(i, Sym("check_add_prog_param"))
ListIsAhead == stack # <<>> /\ Ahead(1, Sub("id_list"))

ScopesKept ==
  /\ Owing' = Owing
  /\ (\E i \in DOMAIN stack : MayDeclare(i))' => \E i \in DOMAIN stack : MayDeclare(i)

BeginningKept ==
  stack' # <<>> =>
    /\ stack # <<>>
    /\ Ahead(1, Sym("check_enter_method"))' => Ahead(1, Sym("check_enter_method"))
    /\ Ahead(1, Sub("program_"))' => Ahead(1, Sub("program_"))

NamesKept ==
  /\ BeginningKept
  /\ ListIsAhead => ListIsAhead' \/ IdIsAhead'
  /\ IdIsAhead => IdIsAhead'

\* All calls of one stack are like those of another.
LEMMA AlikeKeeps ==
  ASSUME DOMAIN stack' = DOMAIN stack, Len(stack') = Len(stack),
         stack # <<>>, stack' # <<>>, 1 \in DOMAIN stack, stack[1].prod = "program",
         \A i \in DOMAIN stack : stack'[i].prod = stack[i].prod /\ Alike(stack'[i], stack[i]),
         \A i \in DOMAIN stack : i < Len(stack) => i + 1 \in DOMAIN stack
  PROVE  ScopesKept /\ NamesKept
<1>1. /\ \A i, s : Ahead(i, s) <=> AheadIn(stack[i], s)
      /\ \A i, s : Ahead(i, s)' <=> AheadIn(stack'[i], s)
  BY DEF Ahead, AheadIn
<1>2. \A i \in DOMAIN stack : \A s : Ahead(i, s)' => Ahead(i, s)
  BY <1>1 DEF Alike
<1>3. \A i \in DOMAIN stack : \A s \in Watched(stack[i].prod) : Ahead(i, s)' <=> Ahead(i, s)
  BY <1>1 DEF Alike
<1>4. \A i \in DOMAIN stack : Owes(i)' <=> Owes(i)
  <2> TAKE i \in DOMAIN stack
  <2>1. stack'[i].prod = stack[i].prod
    OBVIOUS
  <2>2. CASE stack[i].prod = "program"
    <3>1. /\ Ahead(i, Sym("check_enter_method"))' <=> Ahead(i, Sym("check_enter_method"))
          /\ Ahead(i, Sym("check_exit_method"))' <=> Ahead(i, Sym("check_exit_method"))
      BY <1>3, <2>2, WatchedSteps
    <3> QED
      BY <2>1, <2>2, <3>1 DEF Owes
  <2>3. CASE stack[i].prod = "subprogram_declaration"
    <3>1. /\ Ahead(i, Sub("subprogram_head"))' <=> Ahead(i, Sub("subprogram_head"))
          /\ Ahead(i, Sym("check_exit_method"))' <=> Ahead(i, Sym("check_exit_method"))
      BY <1>3, <2>3, WatchedSteps
    <3>2. CASE i < Len(stack) /\ stack[i + 1].prod = "subprogram_head"
      <4>1. i + 1 \in DOMAIN stack /\ stack'[i + 1].prod = "subprogram_head"
        BY <3>2
      <4>2. Ahead(i + 1, Sym("check_enter_method"))' <=> Ahead(i + 1, Sym("check_enter_method"))
        BY <1>3, <3>2, <4>1, WatchedSteps
      <4> QED
        BY <2>1, <2>3, <3>1, <3>2, <4>1, <4>2 DEF Owes
    <3>3. CASE ~(i < Len(stack) /\ stack[i + 1].prod = "subprogram_head")
      <4>1. ~(i < Len(stack') /\ stack'[i + 1].prod = "subprogram_head")
        BY <3>3
      <4> QED
        BY <2>1, <2>3, <3>1, <3>3, <4>1 DEF Owes
    <3> QED
      BY <3>2, <3>3
  <2>4. CASE stack[i].prod \notin {"program", "subprogram_declaration"}
    BY <2>1, <2>4 DEF Owes
  <2> QED
    BY <2>2, <2>3, <2>4
<1>5. Owing' = Owing
  BY <1>4 DEF Owing
<1>6. \A i \in DOMAIN stack : MayDeclare(i)' => MayDeclare(i)
  BY <1>2, <1>4 DEF MayDeclare
<1>7. ScopesKept
  BY <1>5, <1>6 DEF ScopesKept
<1>8. BeginningKept
  BY <1>2 DEF BeginningKept
<1>9. ListIsAhead => ListIsAhead'
  BY <1>3, WatchedSteps DEF ListIsAhead
<1>10. IdIsAhead => IdIsAhead'
  BY <1>3, WatchedSteps DEF IdIsAhead
<1> QED
  BY <1>7, <1>8, <1>9, <1>10 DEF NamesKept

LEMMA TopAlike ==
  ASSUME ParserInvariant, stack # <<>>, NEW f \in FrameType, Become(f),
         f.prod = Top.prod, Alike(f, Top)
  PROVE  ScopesKept /\ NamesKept
<1>1. /\ ParserTypeOK /\ stack \in Seq(FrameType) /\ stack[1].prod = "program"
      /\ DOMAIN stack = 1 .. Len(stack) /\ Len(stack) \in Nat \ {0} /\ Top = stack[Len(stack)]
  BY TopIsFrame DEF ParserInvariant, StackInvariant, ParserTypeOK, ProgramIsOutermost
<1>2. /\ stack' \in Seq(FrameType) /\ Len(stack') = Len(stack) /\ stack'[Len(stack)] = f
      /\ \A i \in 1 .. Len(stack) - 1 : stack'[i] = stack[i]
  <2>1. stack \in Seq(FrameType)
    BY <1>1
  <2> QED
    BY <2>1, Replaced DEF Become
<1>3. DOMAIN stack' = DOMAIN stack /\ stack' # <<>>
  BY <1>1, <1>2, LenProperties, EmptySeq
<1>4. ASSUME NEW i \in DOMAIN stack PROVE stack'[i].prod = stack[i].prod /\ Alike(stack'[i], stack[i])
  <2>1. CASE i = Len(stack)
    BY <1>1, <1>2, <2>1
  <2>2. CASE i # Len(stack)
    <3>1. stack'[i] = stack[i]
      BY <1>1, <1>2, <2>2
    <3> QED
      BY <3>1 DEF Alike
  <2> QED
    BY <2>1, <2>2
<1>5. 1 \in DOMAIN stack /\ \A i \in DOMAIN stack : i < Len(stack) => i + 1 \in DOMAIN stack
  BY <1>1
<1> QED
  BY <1>1, <1>2, <1>3, <1>4, <1>5, AlikeKeeps

\* A step that is not watched.
LEMMA AdvancedAlike ==
  ASSUME ParserInvariant, NEW op, NextIs(op), Head(Top.todo) \notin Watched(Top.prod)
  PROVE  Alike(Advanced, Top)
<1>1. ParserTypeOK /\ Top.at = "body" /\ Advanced.at = "body"
  BY HeadIsStep DEF ParserInvariant, StackInvariant
<1>2. \A s : s \in ToSet(Advanced.todo) => s \in ToSet(Top.todo)
  BY <1>1, OthersStayAhead
<1>3. \A s : s # Head(Top.todo) => (s \in ToSet(Advanced.todo) <=> s \in ToSet(Top.todo))
  BY <1>1, OthersStayAhead
<1> QED
  BY <1>1, <1>2, <1>3 DEF Alike, AheadIn

LEMMA MatchIsUnwatched == \A prod, t : Tok(t) \notin Watched(prod)
<1> SUFFICES ASSUME NEW prod, NEW t PROVE Tok(t) \notin Watched(prod)
  OBVIOUS
<1>1. \A x : Tok(t) # Sym(x) /\ Tok(t) # Sub(x)
  BY DEF Tok, Sym, Sub
<1> QED
  BY <1>1, WatchedSteps

\* The case groups of the watched productions have all of it.
LEMMA BodyAlike ==
  ASSUME ParserInvariant, stack # <<>>, Top.at = "switch", NEW a \in Rules[Top.prod],
         NEW f, f = [Top EXCEPT !.at = "body", !.todo = a.body]
  PROVE  f \in FrameType /\ f.prod = Top.prod /\ Alike(f, Top)
<1>1. Top \in FrameType /\ Top.prod \in Production
  BY TopIsFrame DEF FrameType, ParserInvariant, StackInvariant
<1> DEFINE b == a.body
<1>2. b \in Seq(Step)
  BY <1>1, BodyIsSteps
<1>3. f \in FrameType /\ f.prod = Top.prod /\ f.todo = b
  BY <1>1, <1>2 DEF FrameType
<1>4. 0 \in 0 .. Len(b) /\ SubSeq(b, 0 + 1, Len(b)) = b
  <2>1. 0 \in 0 .. Len(b)
    BY <1>2, LenProperties
  <2> QED
    BY <1>2, <2>1, RestGoesOn
<1>10. (\A s \in Watched(Top.prod) : s \in ToSet(b)) => Alike(f, Top)
  BY <1>3 DEF Alike, AheadIn
<1> HIDE DEF b
<1>5. CASE Top.prod = "program"
  <2>1. b = ProgramBody
    BY <1>5, ScopeAssumption DEF b
  <2>2. ProgramAt(b, 0)
    <3>1. PICK k \in 0 .. 9 : k = 0
      OBVIOUS
    <3>2. ProgramAt(SubSeq(b, k + 1, Len(b)), k)
      BY <1>2, <2>1, ProgramRest
    <3> QED
      BY <1>4, <3>1, <3>2
  <2> QED
    BY <1>3, <1>5, <1>10, <2>2, WatchedSteps DEF ProgramAt
<1>6. CASE Top.prod = "subprogram_declaration"
  <2>1. b = SubprogramBody
    BY <1>6, ScopeAssumption DEF b
  <2>2. SubprogramAt(b, 0)
    <3>1. PICK k \in 0 .. 3 : k = 0
      OBVIOUS
    <3>2. SubprogramAt(SubSeq(b, k + 1, Len(b)), k)
      BY <1>2, <2>1, SubprogramRest
    <3> QED
      BY <1>4, <3>1, <3>2
  <2> QED
    BY <1>3, <1>6, <1>10, <2>2, WatchedSteps DEF SubprogramAt
<1>7. CASE Top.prod = "subprogram_head"
  <2>1. b = HeadBody
    BY <1>7, HeadAssumption DEF b
  <2>2. Sym("check_enter_method") \in ToSet(b)
    <3>1. 3 \in 1 .. 6 /\ 0 \in 0 .. 6 /\ 0 < 3 /\ Len(HeadBody) = 6
      BY HeadCalls
    <3>2. Sym("check_enter_method") \in ToSet(SubSeq(HeadBody, 0 + 1, 6))
      BY <3>1, HeadCalls, RestOfHead
    <3> QED
      BY <1>4, <2>1, <3>1, <3>2
  <2> QED
    BY <1>3, <1>7, <1>10, <2>2, WatchedSteps
<1>8. CASE Top.prod = "id_list"
  <2>1. Sym("check_add_prog_param") \in ToSet(b)
    BY <1>8, ScopeAssumption DEF b, ToSet
  <2> QED
    BY <1>3, <1>8, <1>10, <2>1, WatchedSteps
<1>9. CASE Top.prod \notin {"program", "subprogram_declaration", "subprogram_head", "id_list"}
  BY <1>3, <1>9, <1>10, WatchedSteps
<1> QED
  BY <1>3, <1>5, <1>6, <1>7, <1>8, <1>9

\* The steps that leave the scopes as they are; without a syntax error there
\* is no recovery.
LEMMA SwitchKeepsScopes ==
  ASSUME ParserInvariant, Switch, ~syntax'
  PROVE  ScopesKept /\ NamesKept
<1>1. stack # <<>> /\ Top.at = "switch"
  BY DEF Switch, Running
<1>2. PICK a \in Rules[Top.prod] : Become([Top EXCEPT !.at = "body", !.todo = a.body])
  BY DEF Switch, synerr
<1>3. PICK f : f = [Top EXCEPT !.at = "body", !.todo = a.body]
  OBVIOUS
<1>4. Become(f)
  BY <1>2, <1>3
<1> QED
  BY <1>1, <1>3, <1>4, BodyAlike, TopAlike

LEMMA MatchKeepsScopes ==
  ASSUME ParserInvariant, match, ~syntax'
  PROVE  ScopesKept /\ NamesKept
<1>1. NextIs("match") /\ Become(Advanced)
  BY DEF match, synerr
<1>2. /\ stack # <<>> /\ Advanced \in FrameType /\ Advanced.prod = Top.prod
      /\ Head(Top.todo) \in Step /\ Head(Top.todo).op = "match"
  BY <1>1, HeadIsStep DEF ParserInvariant, StackInvariant
<1>3. Head(Top.todo) = Tok(Head(Top.todo).arg)
  BY <1>2 DEF Step, Tok
<1>4. Head(Top.todo) \notin Watched(Top.prod)
  BY <1>3, MatchIsUnwatched
<1> QED
  BY <1>1, <1>2, <1>4, AdvancedAlike, TopAlike

\* So do most calls of symbol_table.c.
LEMMA TableCallKeepsScopes ==
  ASSUME ParserInvariant, TableCall,
         Sym(Head(Top.todo).arg) \notin Watched(Top.prod)
  PROVE  ScopesKept /\ NamesKept
<1>1. NextIs("table") /\ Become(Advanced)
  BY DEF TableCall
<1>2. /\ stack # <<>> /\ Advanced \in FrameType /\ Advanced.prod = Top.prod
  BY <1>1, HeadIsStep DEF ParserInvariant, StackInvariant
<1>3. Head(Top.todo) \notin Watched(Top.prod)
  BY <1>1, StepOfProduction
<1> QED
  BY <1>1, <1>2, <1>3, AdvancedAlike, TopAlike

LEMMA SubIsItself == \A p, q : (Sub(p) = Sub(q) <=> p = q) /\ Sub(p) # Sym(q)
BY DEF Sub, Sym

\* A new call is not entered yet, and comes from one that had it ahead.
LEMMA CallKeepsScopes ==
  ASSUME ParserInvariant, Call
  PROVE  ScopesKept /\ NamesKept
<1>0. PICK n, q : n = Len(stack) /\ q = Head(Top.todo).arg
  OBVIOUS
<1>1. /\ ParserTypeOK /\ NextIs("parse") /\ stack # <<>> /\ Top.at = "body"
      /\ Advanced.prod = Top.prod /\ Advanced.at = "body"
  BY HeadIsStep DEF Call, ParserInvariant, StackInvariant
<1>2. /\ Top.prod \in Callers(q) /\ Head(Top.todo) = Sub(q)
  BY <1>0, <1>1, StepOfProduction
<1>3. /\ n \in Nat \ {0} /\ DOMAIN stack = 1 .. n /\ Top = stack[n] /\ n \in 1 .. n /\ 1 \in 1 .. n
  BY <1>0, <1>1, TopIsFrame
<1>4. /\ stack' \in Seq(FrameType) /\ Len(stack') = n + 1
      /\ \A i \in 1 .. n - 1 : stack'[i] = stack[i]
      /\ stack'[n] = Advanced /\ stack'[n + 1] = Frame(q, read)
  BY <1>0, <1>1, Called
<1>5. DOMAIN stack' = 1 .. n + 1 /\ stack' # <<>>
  BY <1>3, <1>4, LenProperties, EmptySeq
<1>6. stack'[n + 1].prod = q /\ stack'[n + 1].at = "switch"
  BY <1>4 DEF Frame
<1>7. /\ \A s : s # Sub(q) => (AheadIn(Advanced, s) <=> AheadIn(Top, s))
      /\ \A s : AheadIn(Advanced, s) => AheadIn(Top, s)
      /\ AheadIn(Top, Sub(q))
  <2>1. /\ \A s : s # Sub(q) => (s \in ToSet(Advanced.todo) <=> s \in ToSet(Top.todo))
        /\ \A s : s \in ToSet(Advanced.todo) => s \in ToSet(Top.todo)
        /\ Sub(q) \in ToSet(Top.todo)
    BY <1>1, <1>2, OthersStayAhead
  <2> QED
    BY <1>1, <2>1 DEF AheadIn
<1>8. ASSUME NEW i \in 1 .. n
      PROVE  /\ stack'[i].prod = stack[i].prod
             /\ \A s : s # Sub(q) => (Ahead(i, s)' <=> Ahead(i, s))
             /\ \A s : Ahead(i, s)' => Ahead(i, s)
  <2>1. /\ \A s : Ahead(i, s) <=> AheadIn(stack[i], s)
        /\ \A s : Ahead(i, s)' <=> AheadIn(stack'[i], s)
    BY DEF Ahead, AheadIn
  <2>2. CASE i = n
    BY <1>1, <1>3, <1>4, <1>7, <2>1, <2>2
  <2>3. CASE i # n
    <3>1. i \in 1 .. n - 1
      BY <1>3, <2>3
    <3> QED
      BY <1>4, <2>1, <3>1
  <2> QED
    BY <2>2, <2>3
<1>9. \A s : Ahead(n + 1, s)'
  BY <1>6 DEF Ahead
<1>10. Ahead(n, Sub(q))
  BY <1>3, <1>7 DEF Ahead, AheadIn
<1>11. q # "program"
  BY <1>2, CallersOfScopes
<1>12. ~Owes(n + 1)'
  BY <1>6, <1>9, <1>11 DEF Owes
<1>13. ASSUME NEW i \in 1 .. n PROVE Owes(i)' <=> Owes(i)
  <2>1. /\ stack'[i].prod = stack[i].prod
        /\ Ahead(i, Sym("check_enter_method"))' <=> Ahead(i, Sym("check_enter_method"))
        /\ Ahead(i, Sym("check_exit_method"))' <=> Ahead(i, Sym("check_exit_method"))
    BY <1>8, SubIsItself
  <2>2. CASE stack[i].prod = "program"
    BY <2>1, <2>2 DEF Owes
  <2>3. CASE stack[i].prod = "subprogram_declaration" /\ i = n
    <3>1. CASE q = "subprogram_head"
      <4>1. ~Owes(i)
        BY <1>10, <2>3, <3>1 DEF Owes
      <4>2. i < Len(stack') /\ stack'[i + 1].prod = "subprogram_head"
            /\ Ahead(i + 1, Sym("check_enter_method"))'
        BY <1>3, <1>4, <1>6, <1>9, <2>3, <3>1
      <4>3. ~Owes(i)'
        BY <2>1, <2>3, <4>2 DEF Owes
      <4> QED
        BY <4>1, <4>3
    <3>2. CASE q # "subprogram_head"
      <4>1. Ahead(i, Sub("subprogram_head"))' <=> Ahead(i, Sub("subprogram_head"))
        BY <1>8, <3>2, SubIsItself
      <4>2. ~(i < Len(stack)) /\ stack'[i + 1].prod # "subprogram_head"
        BY <1>0, <1>3, <1>6, <2>3, <3>2
      <4> QED
        BY <2>1, <2>3, <4>1, <4>2 DEF Owes
    <3> QED
      BY <3>1, <3>2
  <2>4. CASE stack[i].prod = "subprogram_declaration" /\ i # n
    <3>1. i \in 1 .. n - 1 /\ i + 1 \in 1 .. n /\ i < Len(stack) /\ i < Len(stack')
      BY <1>0, <1>3, <1>4, <2>4
    <3>2. stack'[i] = stack[i]
      BY <1>4, <3>1
    <3>3. Ahead(i, Sub("subprogram_head"))' <=> Ahead(i, Sub("subprogram_head"))
      BY <3>2 DEF Ahead
    <3> DEFINE m == i + 1
    <3>4. m \in 1 .. n /\ m = i + 1
      BY <3>1
    <3> HIDE DEF m
    <3>5. stack'[m].prod = stack[m].prod
          /\ (Ahead(m, Sym("check_enter_method"))' <=> Ahead(m, Sym("check_enter_method")))
      BY <1>8, <3>4, SubIsItself
    <3>6. stack'[i + 1].prod = stack[i + 1].prod
          /\ (Ahead(i + 1, Sym("check_enter_method"))' <=> Ahead(i + 1, Sym("check_enter_method")))
      BY <3>4, <3>5
    <3> QED
      BY <2>1, <2>4, <3>1, <3>3, <3>6 DEF Owes
  <2>5. CASE stack[i].prod \notin {"program", "subprogram_declaration"}
    BY <2>1, <2>5 DEF Owes
  <2> QED
    BY <2>2, <2>3, <2>4, <2>5
<1>14. Owing' = Owing
  <2>1. \A i \in 1 .. n + 1 : i = n + 1 \/ i \in 1 .. n
    BY <1>3
  <2>2. \A i \in 1 .. n : i \in 1 .. n + 1
    BY <1>3
  <2> QED
    BY <1>3, <1>5, <1>12, <1>13, <2>1, <2>2 DEF Owing
<1>15. ASSUME NEW i \in 1 .. n, MayDeclare(i)' PROVE MayDeclare(i)
  BY <1>8, <1>13, <1>15 DEF MayDeclare
<1>16. MayDeclare(n + 1)' => MayDeclare(n)
  <2> SUFFICES ASSUME MayDeclare(n + 1)' PROVE MayDeclare(n)
    OBVIOUS
  <2>1. q \in {"declarations", "declarations_", "program_", "subprogram_declaration_"}
    BY <1>6, <1>11, <1>12 DEF MayDeclare
  <2>2. CASE q = "declarations"
    BY <1>2, <1>3, <1>10, <2>2, CallersOfScopes DEF MayDeclare
  <2>3. CASE q = "declarations_"
    BY <1>2, <1>3, <2>3, CallersOfScopes DEF MayDeclare
  <2>4. CASE q = "program_"
    BY <1>2, <1>3, <1>10, <2>4, CallersOfScopes DEF MayDeclare
  <2>5. CASE q = "subprogram_declaration_"
    <3>1. Top.prod = "subprogram_declaration"
      BY <1>2, <2>5, CallersOfScopes
    <3>2. PICK k \in 0 .. 2 : SubprogramAt(Top.todo, k) /\ k \in {0, 1}
                              /\ Head(Top.todo) = SubprogramBody[k + 1]
      BY <1>1, <3>1, SubprogramStep
    <3>3. k = 1
      <4>1. SubprogramBody[1] = Sub("subprogram_head")
        BY SubprogramSteps
      <4>2. k = 0 => Sub(q) = Sub("subprogram_head")
        BY <1>2, <3>2, <4>1
      <4> QED
        BY <2>5, <3>2, <4>2, SubIsItself
    <3>4. Ahead(n, Sym("check_exit_method")) /\ ~Ahead(n, Sub("subprogram_head"))
      BY <1>1, <1>3, <3>2, <3>3 DEF SubprogramAt, Ahead
    <3>5. ~(n < Len(stack))
      BY <1>0, <1>3
    <3>6. Owes(n)
      BY <1>3, <3>1, <3>4, <3>5 DEF Owes
    <3> QED
      BY <1>3, <1>10, <2>5, <3>1, <3>6 DEF MayDeclare
  <2> QED
    BY <2>1, <2>2, <2>3, <2>4, <2>5
<1>17. ScopesKept
  <2>1. \A i \in DOMAIN stack' : i = n + 1 \/ i \in 1 .. n
    BY <1>3, <1>5
  <2>2. (\E i \in DOMAIN stack : MayDeclare(i))' => \E i \in DOMAIN stack : MayDeclare(i)
    <3> SUFFICES ASSUME NEW i \in DOMAIN stack', MayDeclare(i)'
                 PROVE  \E j \in DOMAIN stack : MayDeclare(j)
      OBVIOUS
    <3>1. CASE i = n + 1
      BY <1>3, <1>16, <3>1
    <3>2. CASE i \in 1 .. n
      BY <1>3, <1>15, <3>2
    <3> QED
      BY <2>1, <3>1, <3>2
  <2> QED
    BY <1>14, <2>2 DEF ScopesKept
<1>18. BeginningKept
  BY <1>1, <1>3, <1>8 DEF BeginningKept
<1>19. ListIsAhead => ListIsAhead' \/ IdIsAhead'
  <2>1. CASE q = "id_list"
    <3>1. n + 1 \in DOMAIN stack'
      BY <1>3, <1>5
    <3> QED
      BY <1>6, <1>9, <2>1, <3>1 DEF IdIsAhead
  <2>2. CASE q # "id_list"
    BY <1>3, <1>5, <1>8, <2>2, SubIsItself DEF ListIsAhead
  <2> QED
    BY <2>1, <2>2
<1>20. IdIsAhead => IdIsAhead'
  <2> SUFFICES ASSUME NEW i \in DOMAIN stack, stack[i].prod = "id_list",
                      Ahead(i, Sym("check_add_prog_param"))
               PROVE  IdIsAhead'
    BY DEF IdIsAhead
  <2>1. i \in 1 .. n /\ i \in DOMAIN stack'
    BY <1>3, <1>5
  <2> QED
    BY <1>8, <2>1, SubIsItself DEF IdIsAhead
<1> QED
  BY <1>17, <1>18, <1>19, <1>20 DEF NamesKept

\* A call that returns has nothing ahead any more.
LEMMA ReturnKeepsScopes ==
  ASSUME ParserInvariant, Return
  PROVE  ScopesKept /\ NamesKept
<1>0. PICK n : n = Len(stack)
  OBVIOUS
<1>1. /\ ParserTypeOK /\ StackInvariant /\ stack # <<>> /\ Top.at = "body" /\ Top.todo = <<>>
      /\ stack' = Front(stack) /\ read' = read
  BY DEF Return, InBody, Running, sourceVars, ParserInvariant, StackInvariant
<1>2. /\ n \in Nat \ {0} /\ DOMAIN stack = 1 .. n /\ Top = stack[n]
  BY <1>0, <1>1, TopIsFrame
<1>3. /\ stack' \in Seq(FrameType) /\ DOMAIN stack' = 1 .. n - 1
      /\ \A i \in 1 .. n - 1 : stack'[i] = stack[i]
  BY <1>0, <1>1, ReturnKeepsNesting
<1>4. Len(stack') = n - 1
  BY <1>2, <1>3, LenProperties
<1>5. \A s : ~Ahead(n, s)
  BY <1>1, <1>2, EmptySeq DEF Ahead, ToSet
<1>6. ASSUME NEW i \in 1 .. n - 1
      PROVE  i \in DOMAIN stack /\ stack'[i] = stack[i] /\ \A s : Ahead(i, s)' <=> Ahead(i, s)
  <2>1. i \in DOMAIN stack /\ stack'[i] = stack[i]
    BY <1>2, <1>3
  <2> QED
    BY <2>1 DEF Ahead
<1>7. ~Owes(n)
  BY <1>5 DEF Owes
<1>8. ASSUME NEW i \in 1 .. n - 1 PROVE Owes(i)' <=> Owes(i)
  <2>1. stack'[i] = stack[i] /\ \A s : Ahead(i, s)' <=> Ahead(i, s)
    BY <1>6
  <2>2. CASE i = n - 1
    <3>1. ~(i < Len(stack')) /\ i + 1 = n
      BY <1>2, <1>4, <2>2
    <3>2. ~Ahead(i + 1, Sym("check_enter_method"))
      BY <1>5, <3>1
    <3> QED
      BY <2>1, <3>1, <3>2 DEF Owes
  <2>3. CASE i # n - 1
    <3> DEFINE m == i + 1
    <3>1. m \in 1 .. n - 1 /\ i < Len(stack) /\ i < Len(stack') /\ m = i + 1
      BY <1>0, <1>2, <1>4, <2>3
    <3> HIDE DEF m
    <3>2. stack'[m] = stack[m]
          /\ (Ahead(m, Sym("check_enter_method"))' <=> Ahead(m, Sym("check_enter_method")))
      BY <1>6, <3>1
    <3>3. stack'[i + 1] = stack[i + 1]
          /\ (Ahead(i + 1, Sym("check_enter_method"))' <=> Ahead(i + 1, Sym("check_enter_method")))
      BY <3>1, <3>2
    <3> QED
      BY <2>1, <3>1, <3>3 DEF Owes
  <2> QED
    BY <2>2, <2>3
<1>9. Owing' = Owing
  <2>1. \A i \in 1 .. n : i = n \/ i \in 1 .. n - 1
    BY <1>2
  <2>2. \A i \in 1 .. n - 1 : i \in 1 .. n
    BY <1>2
  <2> QED
    BY <1>2, <1>3, <1>7, <1>8, <2>1, <2>2 DEF Owing
<1>10. \A i \in 1 .. n - 1 : MayDeclare(i)' => MayDeclare(i)
  BY <1>6, <1>8 DEF MayDeclare
<1>11. ScopesKept
  BY <1>3, <1>6, <1>9, <1>10 DEF ScopesKept
<1>12. stack' # <<>> => 1 \in 1 .. n - 1
  BY <1>2, <1>3, <1>4, EmptySeq
<1>13. BeginningKept
  BY <1>1, <1>6, <1>12 DEF BeginningKept
<1>14. ListIsAhead => ListIsAhead'
  <2>1. CASE n = 1
    BY <1>5, <2>1 DEF ListIsAhead
  <2>2. CASE n # 1
    <3>1. 1 \in 1 .. n - 1
      BY <1>2, <2>2
    <3>2. stack' # <<>>
      BY <1>2, <1>4, <2>2, EmptySeq
    <3> QED
      BY <1>6, <3>1, <3>2 DEF ListIsAhead
  <2> QED
    BY <2>1, <2>2
<1>15. IdIsAhead => IdIsAhead'
  <2> SUFFICES ASSUME NEW i \in DOMAIN stack, stack[i].prod = "id_list",
                      Ahead(i, Sym("check_add_prog_param"))
               PROVE  IdIsAhead'
    BY DEF IdIsAhead
  <2>1. i # n
    BY <1>5
  <2>2. i \in 1 .. n - 1
    BY <1>2, <2>1
  <2> QED
    BY <1>3, <1>6, <2>2 DEF IdIsAhead
<1> QED
  BY <1>11, <1>13, <1>14, <1>15 DEF NamesKept

\* Without a syntax error every step but a call of symbol_table.c does.
LEMMA ParserKeepsScopes ==
  ASSUME ParserInvariant, Switch \/ match \/ Call \/ Return \/ synch \/ Finish, ~syntax'
  PROVE  ScopesKept /\ NamesKept
<1>1. CASE synch
  <2>1. stack # <<>> /\ Top.at = "synch" /\ ~syntax
    BY <1>1 DEF synch, InSynch, Running
  <2>2. Len(stack) \in DOMAIN stack /\ Top = stack[Len(stack)]
    BY <2>1, TopIsFrame DEF ParserInvariant, StackInvariant
  <2> QED
    BY <2>1, <2>2 DEF ParserInvariant, StackInvariant, RecoveryIsReported
<1>2. CASE Finish
  <2>1. stack' = stack
    BY <1>2 DEF Finish
  <2> QED
    BY <2>1 DEF ScopesKept, NamesKept, BeginningKept, ListIsAhead, IdIsAhead,
                Owing, Owes, MayDeclare, Ahead
<1> QED
  BY <1>1, <1>2, SwitchKeepsScopes, MatchKeepsScopes, CallKeepsScopes, ReturnKeepsScopes

-----------------------------------------------------------------------------
(* The scopes around an entry.                                             *)

DepthRule ==
  /\ DepthOf(NULL) = 0
  /\ \A m \in Entry : DepthOf(m) = 1 + DepthOf(parent[m])
  /\ \A m \in Link : DepthOf(m) \in Nat

\* The count of them, unfolded: it follows parent, which shrinks.
LEMMA DepthHolds == TableInvariant => DepthRule
<1> SUFFICES ASSUME TableInvariant PROVE DepthRule
  OBVIOUS
<1>0. TypeOK /\ Ordered
  BY DEF TableInvariant
<1> DEFINE mu == [m \in Link |-> m]
           B  == {NULL}
           b  == [m \in Link |-> 0]
           h  == [p \in Link \X Nat |-> 1 + p[2]]
           Eq(f) == f = [e \in Link |-> IF e = NULL THEN 0 ELSE 1 + f[parent[e]]]
<1>1. mu \in [Link -> Nat]
  BY DEF Link, Entry, NULL
<1>2. ASSUME NEW m \in Link \ B PROVE parent[m] \in Link /\ mu[parent[m]] < mu[m]
  <2>1. m \in Entry
    BY DEF Link
  <2> QED
    BY <1>0, <2>1 DEF TypeOK, Ordered
<1>3. \A m \in Link, r \in Nat : h[<<m, r>>] = 1 + r /\ 1 + r \in Nat
  OBVIOUS
<1>4. /\ \A m \in Link : m \in B <=> m = NULL
      /\ \A m \in Link : b[m] = 0
  OBVIOUS
<1> HIDE DEF mu, B, b, h
<1>5. PICK f : Recursion(f, Link, B, b, parent, h)
  BY <1>1, <1>2, RecursionExists
<1>6. f \in [Link -> Nat]
  <2>0. PICK R : R = Nat
    OBVIOUS
  <2>1. \A m \in Link \cap B : b[m] \in R
    BY <1>4, <2>0
  <2>2. \A m \in Link \ B : \A r \in R : h[<<m, r>>] \in R
    BY <1>3, <2>0
  <2>3. f \in [Link -> R]
    BY <1>1, <1>2, <2>1, <2>2, <1>5, RecursionType
  <2> QED
    BY <2>0, <2>3
<1>7. Eq(f)
  <2>1. f = [m \in Link |-> IF m \in B THEN b[m] ELSE h[<<m, f[parent[m]]>>]]
    BY <1>5 DEF Recursion
  <2>2. ASSUME NEW m \in Link
        PROVE  f[m] = IF m = NULL THEN 0 ELSE 1 + f[parent[m]]
    <3>1. f[m] = IF m \in B THEN b[m] ELSE h[<<m, f[parent[m]]>>]
      BY <2>1
    <3>2. CASE m \in B
      BY <3>1, <3>2, <1>4
    <3>3. CASE m \notin B
      <4>1. f[parent[m]] \in Nat
        BY <3>3, <1>2, <1>6
      <4> QED
        BY <3>1, <3>3, <4>1, <1>3, <1>4
    <3> QED
      BY <3>2, <3>3
  <2> QED
    BY <2>1, <2>2
<1> DEFINE up == CHOOSE f1 : Eq(f1)
<1>8. Eq(up)
  <2> HIDE DEF Eq
  <2> QED
    BY <1>7
<1>9. \A m : DepthOf(m) = up[m]
  BY DEF DepthOf
<1>10. \A m \in Link : up[m] = IF m = NULL THEN 0 ELSE 1 + up[parent[m]]
  <2> HIDE DEF up
  <2> QED
    BY <1>8
<1> HIDE DEF up
<1>11. \A m \in Link : DepthOf(m) = IF m = NULL THEN 0 ELSE 1 + DepthOf(parent[m])
  BY <1>9, <1>10
<1>12. NULL \in Link /\ \A m \in Entry : m \in Link /\ m # NULL
  BY DEF Link, Entry, NULL
<1>13. \A m \in Link : DepthOf(m) \in Nat
  <2> DEFINE Odd == {m \in Link : DepthOf(m) \notin Nat}
             id  == [m \in Link |-> m]
  <2>1. id \in [Link -> Nat] /\ Odd \in SUBSET Link
    BY DEF Link, Entry, NULL
  <2> SUFFICES ASSUME Odd # {} PROVE FALSE
    OBVIOUS
  <2>2. PICK m \in Odd : \A k \in Link : id[k] < id[m] => k \notin Odd
    <3> HIDE DEF id, Odd
    <3> QED
      BY <2>1, LeastMeasure
  <2>3. m \in Link /\ DepthOf(m) \notin Nat
    OBVIOUS
  <2>4. m # NULL /\ m \in Entry
    BY <1>11, <2>3 DEF Link
  <2>5. parent[m] \in Link /\ parent[m] < m
    BY <1>0, <2>4 DEF TypeOK, Ordered
  <2>6. DepthOf(parent[m]) \in Nat
    BY <2>2, <2>3, <2>5
  <2> QED
    BY <1>11, <2>3, <2>4, <2>6
<1> QED
  BY <1>11, <1>12, <1>13 DEF DepthRule

LEMMA DepthHoldsNext == TableInvariant' => DepthRule'
<1>1. TableInvariant => DepthRule
  BY DepthHolds
<1> QED
  BY <1>1, PTL

\* What is allocated and where it hangs.
LEMMA AllocatedHangs ==
  ASSUME TableInvariant
  PROVE  /\ Allocated \subseteq Entry /\ Allocated \subseteq Nat /\ NULL \notin Allocated
         /\ \A e \in Allocated : parent[e] \in Allocated \cup {NULL} /\ parent[e] < e
         /\ sym_eye \in Allocated \cup {NULL} /\ Owner \in Allocated \cup {NULL}
<1>1. TypeOK /\ Ordered
  BY DEF TableInvariant
<1>2. /\ Allocated \subseteq Entry /\ Allocated \subseteq Nat /\ NULL \notin Allocated
      /\ size \in Nat
  <2>1. size \in 0 .. MaxEntries
    BY <1>1 DEF TypeOK
  <2> QED
    BY <2>1, MaxEntriesAssumption DEF Allocated, Entry, NULL
<1>3. \A e \in Allocated : parent[e] \in Allocated \cup {NULL} /\ parent[e] < e
  BY <1>1, <1>2 DEF TypeOK, Ordered, Link, Allocated, Entry
<1>4. sym_eye \in Allocated \cup {NULL}
  BY <1>1 DEF TypeOK
<1> QED
  BY <1>2, <1>3, <1>4 DEF Owner

\* It never changes.
LEMMA DepthKept ==
  ASSUME TableInvariant, TableInvariant', \A e \in Allocated : parent'[e] = parent[e]
  PROVE  \A m \in Allocated \cup {NULL} : DepthOf(m)' = DepthOf(m)
<1> DEFINE D   == Allocated \cup {NULL}
           mu  == [m \in D |-> m]
           Odd == {m \in D : DepthOf(m)' # DepthOf(m)}
<1>0. /\ Allocated \subseteq Entry /\ \A m \in D : m \in Nat
      /\ \A e \in Allocated : parent[e] \in D /\ parent[e] < e
  BY AllocatedHangs DEF NULL
<1>1. mu \in [D -> Nat] /\ Odd \in SUBSET D
  BY <1>0
<1> SUFFICES ASSUME Odd # {} PROVE FALSE
  OBVIOUS
<1>2. PICK m \in Odd : \A k \in D : mu[k] < mu[m] => k \notin Odd
  <2> HIDE DEF mu, Odd, D
  <2> QED
    BY <1>1, LeastMeasure
<1>3. m \in D /\ DepthOf(m)' # DepthOf(m)
  OBVIOUS
<1>4. DepthOf(NULL)' = DepthOf(NULL)
  BY DepthHolds, DepthHoldsNext DEF DepthRule
<1>5. m \in Allocated /\ m \in Entry
  BY <1>0, <1>3, <1>4
<1>6. PICK p : p = parent[m] /\ p = parent'[m] /\ p \in D /\ p < m
  BY <1>0, <1>5
<1>7. DepthOf(p)' = DepthOf(p)
  BY <1>2, <1>3, <1>6
<1>8. DepthOf(m)' = 1 + DepthOf(p)' /\ DepthOf(m) = 1 + DepthOf(p)
  BY <1>5, <1>6, DepthHolds, DepthHoldsNext DEF DepthRule
<1> QED
  BY <1>3, <1>7, <1>8

-----------------------------------------------------------------------------
(* Where the calls of symbol_table.c lead.                                 *)

\* A new entry, and the one it is inside.
Grows(new) ==
  /\ size' = new /\ new \notin Allocated /\ Allocated' = Allocated \cup {new}
  /\ \A e \in Allocated : symbol'[e] = symbol[e] /\ parent'[e] = parent[e]
  /\ parent'[new] = Owner /\ sym_eye' = new /\ symbol_table' # NULL

LEMMA EnterMoves ==
  ASSUME TableInvariant, OneProgram, LeftOnce, size = 0 \/ Owner # NULL,
         NEW name, check_enter_method(name), NEW new, new = size + 1
  PROVE  /\ Grows(new) /\ symbol'[new] = MethodSymbol(name) /\ Owner' = new
         /\ OneProgram' /\ LeftOnce'
<1> DEFINE where == IF symbol_table # NULL /\ sym_eye # NULL THEN Place ELSE "nowhere"
           sym   == MethodSymbol(name)
<1>1. /\ TypeOK /\ Ordered /\ WellLinked /\ TempIsParent /\ size \in Nat
  BY DEF TableInvariant, TypeOK
<1>2. /\ where \in {"below", "after", "nowhere"}
      /\ where # "nowhere" => sym_eye # NULL
      /\ sym_eye = NULL <=> size = 0
      /\ symbol_table = NULL <=> size = 0
  BY <1>1 DEF Place, OneProgram
<1>3. NewEntry(sym, where) /\ sym_turn' = 1
      /\ symbol_table' = IF symbol_table = NULL THEN size + 1 ELSE symbol_table
  BY DEF check_enter_method
<1> HIDE DEF sym
<1>4. /\ new \in Entry /\ size' = new /\ sym_eye' = new
      /\ new \notin Allocated /\ Allocated' = Allocated \cup {new}
      /\ \A e \in Allocated : symbol'[e] = symbol[e] /\ parent'[e] = parent[e]
      /\ symbol'[new] = sym
      /\ parent'[new] = CASE where = "below" -> sym_eye
                          [] where = "after" -> parent[sym_eye]
                          [] where = "nowhere" -> NULL
  <2> HIDE DEF where
  <2> QED
    BY <1>2, <1>3, Added
<1>5. parent'[new] = Owner
  <2>1. CASE sym_eye = NULL
    BY <1>2, <1>4, <2>1 DEF Owner
  <2>2. CASE sym_eye # NULL /\ sym_turn = 1
    BY <1>2, <1>4, <2>2 DEF Owner, Place
  <2>3. CASE sym_eye # NULL /\ sym_turn # 1
    BY <1>2, <1>4, <2>3 DEF Owner, Place
  <2> QED
    BY <2>1, <2>2, <2>3
<1>6. new # NULL /\ new \in Nat /\ (size = 0 <=> new = 1) /\ (size > 0 => 1 \in Allocated)
  BY <1>1, <1>4 DEF NULL, Allocated
<1>7. symbol_table' # NULL
  BY <1>1, <1>3, <1>6 DEF NULL
<1>8. Owner' = new
  BY <1>3, <1>4, <1>6 DEF Owner
<1>9. temp'[new] = NULL
  <2>1. size < MaxEntries /\ temp' = temp
    BY <1>3 DEF NewEntry
  <2>2. temp[size + 1] = NULL
    BY <1>1, <2>1, FreshEntry
  <2> QED
    BY <2>1, <2>2
<1>10. sym.fun = IF size = 0 THEN 0 ELSE 1
  BY <1>2 DEF sym, MethodSymbol
<1>11. OneProgram'
  <2>1. symbol'[1].fun = 0
    BY <1>1, <1>4, <1>6, <1>10 DEF OneProgram
  <2>2. \A e \in Allocated' : parent'[e] = NULL <=> e = 1
    <3>1. parent'[new] = NULL <=> new = 1
      <4>1. size = 0 => Owner = NULL
        BY <1>2 DEF Owner
      <4> QED
        BY <1>5, <1>6, <4>1
    <3>2. \A e \in Allocated : parent'[e] = NULL <=> e = 1
      BY <1>4 DEF OneProgram
    <3> QED
      BY <1>4, <3>1, <3>2
  <2> QED
    BY <1>1, <1>4, <1>6, <1>7, <2>1, <2>2 DEF OneProgram
<1>12. LeftOnce'
  <2>1. symbol'[new].fun = 1 \/ size' = 1
    BY <1>1, <1>4, <1>6, <1>10
  <2> QED
    BY <1>3, <1>4, <1>9, <2>1 DEF LeftOnce
<1> QED
  BY <1>4, <1>5, <1>7, <1>8, <1>11, <1>12 DEF Grows, sym

LEMMA AddMoves ==
  ASSUME TableInvariant, OneProgram, LeftOnce, Owner # NULL,
         NEW name, NEW type, NEW param, AddEntry(name, type, param), NEW new, new = size + 1
  PROVE  /\ Grows(new) /\ symbol'[new].fun = 0 /\ symbol'[new].std_type = type /\ Owner' = Owner
         /\ OneProgram' /\ LeftOnce'
<1> DEFINE sym == [name |-> name, std_type |-> type, fun |-> 0, count |-> 0, param |-> param]
<1>1. /\ TypeOK /\ size \in Nat
  BY DEF TableInvariant, TypeOK
<1>2. Place \in {"below", "after"} /\ sym_eye # NULL
  BY DEF Place, AddEntry
<1>3. NewEntry(sym, Place) /\ sym_turn' = 0 /\ symbol_table' = symbol_table
  BY DEF AddEntry
<1>0. sym.fun = 0 /\ sym.std_type = type
  OBVIOUS
<1> HIDE DEF sym
<1>4. /\ new \in Entry /\ size' = new /\ sym_eye' = new
      /\ new \notin Allocated /\ Allocated' = Allocated \cup {new}
      /\ \A e \in Allocated : symbol'[e] = symbol[e] /\ parent'[e] = parent[e]
      /\ symbol'[new] = sym
      /\ parent'[new] = CASE Place = "below" -> sym_eye
                          [] Place = "after" -> parent[sym_eye]
                          [] Place = "nowhere" -> NULL
  BY <1>2, <1>3, Added
<1>5. parent'[new] = Owner
  <2>2. CASE sym_turn = 1
    BY <1>2, <1>4, <2>2 DEF Owner, Place
  <2>3. CASE sym_turn # 1
    BY <1>2, <1>4, <2>3 DEF Owner, Place
  <2> QED
    BY <2>2, <2>3
<1>6. size > 0
  BY <1>1, <1>2 DEF OneProgram
<1>7. new # NULL /\ new \in Nat /\ new > 1 /\ 1 \in Allocated
  BY <1>1, <1>4, <1>6 DEF NULL, Allocated
<1>8. Owner' = Owner
  <2>0. sym_turn' # 1
    BY <1>3
  <2>1. sym_eye' # NULL /\ sym_turn' # 1 /\ parent'[sym_eye'] = Owner
    BY <1>4, <1>5, <1>7, <2>0
  <2>2. Owner' = parent'[sym_eye']
    BY <2>1 DEF Owner
  <2> QED
    BY <2>1, <2>2
<1>11. OneProgram'
  <2>1. symbol'[1].fun = 0 /\ symbol_table # NULL
    BY <1>4, <1>6, <1>7 DEF OneProgram
  <2>2. \A e \in Allocated' : parent'[e] = NULL <=> e = 1
    BY <1>4, <1>5, <1>7 DEF OneProgram
  <2> QED
    BY <1>3, <1>4, <1>7, <2>1, <2>2 DEF OneProgram
<1>12. LeftOnce'
  BY <1>0, <1>3, <1>4 DEF LeftOnce, ChildlessMethod
<1>13. symbol_table' # NULL
  BY <1>3, <1>6 DEF OneProgram
<1> QED
  BY <1>0, <1>4, <1>5, <1>8, <1>11, <1>12, <1>13 DEF Grows

\* An exit moves to the scope around, and the eye stays in the program.
LEMMA ExitMoves ==
  ASSUME TableInvariant, OneProgram, LeftOnce, Owner # NULL, size > 1, check_exit_method
  PROVE  /\ UNCHANGED <<symbol, parent, size, symbol_table>>
         /\ Owner' = parent[Owner] /\ sym_eye' # NULL
         /\ OneProgram' /\ LeftOnce'
<1>1. /\ TypeOK /\ TempIsParent /\ ScopesAreChains /\ TurnIsFresh /\ size \in Nat /\ size # 1
  BY DEF TableInvariant, TypeOK
<1>2. sym_eye # NULL /\ sym_eye \in Allocated /\ sym_eye \in Entry
  BY AllocatedHangs DEF Owner
<1>3. /\ UNCHANGED <<symbol, next, prev, parent, child, size, symbol_table>>
      /\ Climb /\ sym_turn' = 0
  BY <1>2 DEF check_exit_method
<1>4. temp \in [Entry -> Link] /\ temp[sym_eye] \in {NULL, parent[sym_eye]}
  BY <1>1, <1>2 DEF TypeOK, TempIsParent
<1>5. /\ Owner' = parent[Owner] /\ sym_eye' # NULL /\ LeftOnce'
  <2>1. CASE sym_turn = 1
    <3>1. Owner = sym_eye /\ symbol[sym_eye].fun = 1 /\ temp[sym_eye] = NULL /\ child[sym_eye] = NULL
      BY <1>1, <1>2, <2>1 DEF Owner, LeftOnce, TurnIsFresh
    <3>2. sym_eye' = sym_eye /\ temp' = [temp EXCEPT ![sym_eye] = parent[sym_eye]]
      BY <1>3, <3>1 DEF Climb, ChildlessMethod
    <3>3. temp'[sym_eye] = parent[sym_eye]
      BY <1>2, <1>4, <3>2
    <3>4. parent[sym_eye] # NULL
      BY <1>1, <1>2, <3>1 DEF OneProgram
    <3> QED
      BY <1>2, <1>3, <3>1, <3>2, <3>3, <3>4 DEF Owner, LeftOnce
  <2>2. CASE sym_turn # 1
    <3>1. Owner = parent[sym_eye]
      BY <1>2, <2>2 DEF Owner
    <3>2. sym_eye' = parent[sym_eye]
      <4>1. sym_turn = 0
        BY <1>1, <2>2 DEF TypeOK
      <4>2. ChildlessMethod(sym_eye) => temp[sym_eye] = parent[sym_eye]
        BY <1>2, <1>4, <4>1 DEF LeftOnce
      <4> QED
        BY <1>2, <1>3, <1>4, <3>1, <4>1, <4>2 DEF Climb, LeftOnce
    <3>3. child[parent[sym_eye]] # NULL
      BY <1>1, <1>2, <3>1 DEF ScopesAreChains, NULL
    <3>4. Owner' = parent[Owner]
      BY <1>3, <3>1, <3>2 DEF Owner
    <3> QED
      BY <1>3, <3>1, <3>2, <3>3, <3>4 DEF LeftOnce, ChildlessMethod
  <2> QED
    BY <2>1, <2>2
<1>6. OneProgram'
  BY <1>1, <1>3, <1>5 DEF OneProgram, Allocated
<1> QED
  BY <1>3, <1>5, <1>6

\* A signature moves nothing.
LEMMA UpdateMoves ==
  ASSUME TableInvariant, OneProgram, LeftOnce, NEW m, HeadFacts(m), symbol[m].fun = 1,
         NEW sym, UpdateMethod(sym), c' = c,
         MethodInView = m => sym.param = symbol[m].param /\ sym.fun = 1
  PROVE  /\ UNCHANGED <<parent, size, symbol_table, sym_eye>> /\ Allocated' = Allocated
         /\ MethodInView = m /\ m \in Allocated /\ symbol'[m] = sym
         /\ \A e \in Allocated : symbol'[e].fun = symbol[e].fun
         /\ \A e \in Allocated : e # m => symbol'[e] = symbol[e]
         /\ Owner' = Owner /\ OneProgram' /\ LeftOnce'
<1>1. /\ Allocated' = Allocated /\ UNCHANGED <<size, sym_eye, sym_turn, parent>>
      /\ \A e \in Allocated : e # m => symbol'[e] = symbol[e]
      /\ symbol'[m] = IF MethodInView = m THEN sym ELSE symbol[m]
      /\ MethodInView # m => c = 0 /\ symbol[m].fun = 0
  BY Updated
<1>2. MethodInView = m /\ m \in Allocated /\ symbol'[m] = sym /\ sym.fun = 1
  BY <1>1 DEF HeadFacts
<1>3. \A e \in Allocated : symbol'[e].fun = symbol[e].fun
  BY <1>1, <1>2
<1>4. UNCHANGED <<symbol_table, child, temp>>
  BY DEF UpdateMethod, links
<1>5. Owner' = Owner
  BY <1>1 DEF Owner
<1>6. /\ size \in Nat /\ sym_eye \in Allocated
      /\ size > 0 => 1 \in Allocated
  BY DEF HeadFacts, Allocated
<1>7. OneProgram'
  BY <1>1, <1>3, <1>4, <1>6 DEF OneProgram
<1>8. LeftOnce'
  BY <1>1, <1>3, <1>4, <1>6 DEF LeftOnce, ChildlessMethod
<1> QED
  BY <1>1, <1>2, <1>3, <1>4, <1>5, <1>7, <1>8

-----------------------------------------------------------------------------
(* What the calls of symbol_table.c leave on the stack.                    *)

\* The running call takes a step, and the others wait.
LEMMA TopChanged ==
  ASSUME ParserInvariant, NEW op, NextIs(op), Become(Advanced), NEW n, n = Len(stack)
  PROVE  /\ n \in Nat \ {0} /\ DOMAIN stack = 1 .. n /\ n \in DOMAIN stack /\ 1 \in DOMAIN stack
         /\ DOMAIN stack' = DOMAIN stack /\ Len(stack') = n /\ stack # <<>> /\ stack' # <<>>
         /\ Top = stack[n] /\ stack'[n] = Advanced /\ stack[1].prod = "program"
         /\ Top.at = "body" /\ Advanced.at = "body" /\ Advanced.prod = Top.prod
         /\ \A i \in DOMAIN stack : stack'[i].prod = stack[i].prod
         /\ \A i \in DOMAIN stack : i < n =>
              stack'[i] = stack[i] /\ i + 1 \in DOMAIN stack /\ \A s : Ahead(i, s)' <=> Ahead(i, s)
         /\ \A i \in DOMAIN stack : \A s : Ahead(i, s)' => Ahead(i, s)
         /\ \A i \in DOMAIN stack : i < n =>
              \/ Owes(i)' <=> Owes(i)
              \/ i = n - 1 /\ Top.prod = "subprogram_head"
<1>1. /\ ParserTypeOK /\ stack \in Seq(FrameType) /\ stack # <<>> /\ stack[1].prod = "program"
      /\ DOMAIN stack = 1 .. n /\ n \in Nat \ {0} /\ Top = stack[n]
      /\ Top.at = "body" /\ Advanced \in FrameType /\ Advanced.prod = Top.prod /\ Advanced.at = "body"
  BY TopIsFrame, HeadIsStep DEF ParserInvariant, StackInvariant, ParserTypeOK, ProgramIsOutermost
<1>2. /\ stack' \in Seq(FrameType) /\ Len(stack') = n /\ stack'[n] = Advanced
      /\ \A i \in 1 .. n - 1 : stack'[i] = stack[i]
  <2>1. stack \in Seq(FrameType)
    BY <1>1
  <2> QED
    BY <1>1, <2>1, Replaced DEF Become
<1>3. DOMAIN stack' = DOMAIN stack /\ stack' # <<>> /\ n \in DOMAIN stack /\ 1 \in DOMAIN stack
  BY <1>1, <1>2, LenProperties, EmptySeq
<1>4. \A s : s \in ToSet(Advanced.todo) => s \in ToSet(Top.todo)
  BY <1>1, OthersStayAhead
<1>5. /\ \A i, s : Ahead(i, s) <=> AheadIn(stack[i], s)
      /\ \A i, s : Ahead(i, s)' <=> AheadIn(stack'[i], s)
  BY DEF Ahead, AheadIn
<1>6. ASSUME NEW i \in DOMAIN stack, i < n
      PROVE  stack'[i] = stack[i] /\ i + 1 \in DOMAIN stack /\ \A s : Ahead(i, s)' <=> Ahead(i, s)
  <2>1. stack'[i] = stack[i] /\ i + 1 \in DOMAIN stack
    BY <1>1, <1>2, <1>6
  <2> QED
    BY <1>5, <2>1
<1>7. \A i \in DOMAIN stack : i = n \/ i < n
  BY <1>1
<1>8. \A s : Ahead(n, s)' => Ahead(n, s)
  BY <1>1, <1>2, <1>4, <1>5 DEF AheadIn
<1>9. \A i \in DOMAIN stack : \A s : Ahead(i, s)' => Ahead(i, s)
  BY <1>6, <1>7, <1>8
<1>10. \A i \in DOMAIN stack : stack'[i].prod = stack[i].prod
  BY <1>1, <1>2, <1>6, <1>7
<1>11. ASSUME NEW i \in DOMAIN stack, i < n, ~(i = n - 1 /\ Top.prod = "subprogram_head")
       PROVE  Owes(i)' <=> Owes(i)
  <2>1. stack'[i] = stack[i] /\ i + 1 \in DOMAIN stack /\ \A s : Ahead(i, s)' <=> Ahead(i, s)
    BY <1>6, <1>11
  <2> PICK m : m = i + 1
    OBVIOUS
  <2>2. m \in DOMAIN stack /\ stack'[m].prod = stack[m].prod
    BY <1>10, <2>1
  <2>3. CASE m < n
    <3>1. \A s : Ahead(m, s)' <=> Ahead(m, s)
      BY <1>6, <2>2, <2>3
    <3>2. Ahead(i + 1, Sym("check_enter_method"))' <=> Ahead(i + 1, Sym("check_enter_method"))
      BY <3>1
    <3>3. stack'[i + 1].prod = stack[i + 1].prod
      BY <2>2
    <3> QED
      BY <1>2, <1>11, <2>1, <3>2, <3>3 DEF Owes
  <2>4. CASE ~(m < n)
    <3>1. m = n
      BY <1>7, <2>2, <2>4
    <3>2. stack[i + 1].prod # "subprogram_head" /\ stack'[i + 1].prod = stack[i + 1].prod
      BY <1>1, <1>11, <2>2, <3>1
    <3> QED
      BY <1>2, <1>11, <2>1, <3>2 DEF Owes
  <2> QED
    BY <2>3, <2>4
<1> QED
  BY <1>1, <1>2, <1>3, <1>6, <1>9, <1>10, <1>11

\* No call but the first is made before the program is entered.
LEMMA ProgramIsOwed ==
  ASSUME ParserInvariant, NextIs("table"),
         ~(Top.prod = "program" /\ Head(Top.todo).arg = "check_enter_method")
  PROVE  1 \in Owing
<1>1. /\ stack # <<>> /\ 1 \in DOMAIN stack /\ stack[1].prod = "program" /\ Top.at = "body"
      /\ DOMAIN stack = 1 .. Len(stack) /\ Top = stack[Len(stack)]
      /\ Len(stack) \in Nat
  BY TopIsFrame, HeadIsStep DEF ParserInvariant, StackInvariant, ProgramIsOutermost
<1>2. CASE Len(stack) = 1
  <2>1. Top.prod = "program" /\ Top = stack[1]
    BY <1>1, <1>2
  <2>2. PICK k \in 0 .. 8 : ProgramAt(Top.todo, k) /\ Head(Top.todo) = ProgramBody[k + 1] /\ k \in {2, 8}
    BY <2>1, ProgramStep
  <2>3. k = 8
    <3>1. ProgramBody[3] = Sym("check_enter_method")
      BY ProgramSteps
    <3>2. Sym("check_enter_method").arg = "check_enter_method"
      BY DEF Sym
    <3>3. k = 2 => Head(Top.todo) = Sym("check_enter_method")
      BY <2>2, <3>1
    <3> QED
      BY <2>1, <2>2, <3>2, <3>3
  <2> QED
    BY <1>1, <2>1, <2>2, <2>3 DEF Owing, Owes, Ahead, ProgramAt
<1>3. CASE Len(stack) # 1
  <2>1. 1 < Len(stack)
    BY <1>1, <1>3
  <2> QED
    BY <1>1, <2>1, ProgramWaits DEF Owing, Owes
<1> QED
  BY <1>2, <1>3

\* Behind it the program is entered, and nothing comes again.
LEMMA BeginningPassed ==
  ASSUME ParserInvariant, TableCall
  PROVE  /\ stack # <<>> /\ stack' # <<>> /\ ~Ahead(1, Sym("check_enter_method"))'
         /\ Ahead(1, Sub("program_"))' => Ahead(1, Sub("program_"))
<1>1. NextIs("table") /\ Become(Advanced)
  BY DEF TableCall
<1>2. PICK n : n = Len(stack)
  OBVIOUS
<1>3. /\ n \in Nat \ {0} /\ 1 \in DOMAIN stack /\ stack # <<>> /\ stack' # <<>>
      /\ Top = stack[n] /\ stack'[n] = Advanced /\ stack[1].prod = "program"
      /\ Advanced.at = "body"
      /\ \A i \in DOMAIN stack : i < n => \A s : Ahead(i, s)' <=> Ahead(i, s)
      /\ \A i \in DOMAIN stack : \A s : Ahead(i, s)' => Ahead(i, s)
  BY <1>1, <1>2, TopChanged
<1>4. CASE n = 1
  <2>1. Top.prod = "program" /\ stack'[1] = Advanced
    BY <1>3, <1>4
  <2>2. PICK k \in 0 .. 8 : ProgramAt(Advanced.todo, k + 1) /\ k \in {2, 8}
    BY <1>1, <2>1, ProgramStep
  <2>3. Sym("check_enter_method") \notin ToSet(Advanced.todo)
    BY <2>2 DEF ProgramAt
  <2> QED
    BY <1>3, <2>1, <2>3 DEF Ahead
<1>5. CASE n # 1
  <2>1. 1 < n
    BY <1>3, <1>5
  <2> QED
    BY <1>2, <1>3, <2>1, ProgramWaits
<1> QED
  BY <1>4, <1>5

\* Entering the program makes the first scope.
LEMMA EnterProgramOwes ==
  ASSUME ParserInvariant, TableCall, Head(Top.todo).arg = "check_enter_method", Top.prod = "program"
  PROVE  /\ Ahead(1, Sym("check_enter_method")) /\ ListIsAhead'
         /\ Owing = {} /\ Owing' = {1} /\ stack'[1].prod = "program"
<1>1. NextIs("table") /\ Become(Advanced)
  BY DEF TableCall
<1>2. PICK n : n = Len(stack)
  OBVIOUS
<1>3. /\ n \in DOMAIN stack /\ DOMAIN stack = 1 .. n /\ DOMAIN stack' = DOMAIN stack
      /\ stack' # <<>> /\ Top = stack[n] /\ stack'[n] = Advanced /\ stack[1].prod = "program"
      /\ Advanced.at = "body" /\ Advanced.prod = Top.prod
  BY <1>1, <1>2, TopChanged
<1>4. n = 1
  BY <1>3, ProgramIsFirst
<1>5. PICK k \in 0 .. 8 : /\ ProgramAt(Top.todo, k) /\ ProgramAt(Advanced.todo, k + 1)
                          /\ Head(Top.todo) = ProgramBody[k + 1] /\ k \in {2, 8}
  BY <1>1, ProgramStep
<1>6. k = 2
  <2>1. ProgramBody[9] = Sym("check_exit_method")
    BY ProgramSteps
  <2>2. Sym("check_exit_method").arg # "check_enter_method"
    BY DEF Sym
  <2>3. k = 8 => Head(Top.todo) = Sym("check_exit_method")
    BY <1>5, <2>1
  <2> QED
    BY <1>5, <2>2, <2>3
<1>7. Ahead(1, Sym("check_enter_method"))
  BY <1>3, <1>4, <1>5, <1>6 DEF Ahead, ProgramAt
<1>8. /\ ~Ahead(1, Sym("check_enter_method"))' /\ Ahead(1, Sym("check_exit_method"))'
      /\ Ahead(1, Sub("id_list"))'
  <2>1. PICK x : x = k + 1 /\ x = 3
    BY <1>6
  <2>2. ProgramAt(Advanced.todo, x)
    BY <1>5, <2>1
  <2> QED
    BY <1>3, <1>4, <2>1, <2>2 DEF Ahead, ProgramAt
<1>9. ~Owes(1) /\ Owes(1)'
  BY <1>3, <1>4, <1>7, <1>8 DEF Owes
<1>10. DOMAIN stack = {1} /\ DOMAIN stack' = {1}
  BY <1>3, <1>4
<1> QED
  BY <1>3, <1>4, <1>7, <1>8, <1>9, <1>10 DEF Owing, ListIsAhead

\* Entering a function adds one to the scopes, that of the declaration around.
LEMMA EnterFunctionOwes ==
  ASSUME ParserInvariant, TableCall, Head(Top.todo).arg = "check_enter_method", Top.prod # "program"
  PROVE  \E d \in DOMAIN stack : /\ d \notin Owing /\ Owing' = Owing \cup {d}
                                 /\ stack[d].prod = "subprogram_declaration"
<1>1. NextIs("table") /\ Become(Advanced)
  BY DEF TableCall
<1>2. PICK n : n = Len(stack)
  OBVIOUS
<1>3. /\ n \in Nat \ {0} /\ n \in DOMAIN stack /\ DOMAIN stack = 1 .. n /\ DOMAIN stack' = DOMAIN stack
      /\ Len(stack') = n
      /\ Top = stack[n] /\ stack'[n] = Advanced /\ stack[1].prod = "program"
      /\ Advanced.at = "body" /\ Advanced.prod = Top.prod
      /\ \A i \in DOMAIN stack : stack'[i].prod = stack[i].prod
      /\ \A i \in DOMAIN stack : i < n => \A s : Ahead(i, s)' <=> Ahead(i, s)
      /\ \A i \in DOMAIN stack : i < n =>
              \/ Owes(i)' <=> Owes(i)
              \/ i = n - 1 /\ Top.prod = "subprogram_head"
  BY <1>1, <1>2, TopChanged
<1>4. Top.prod = "subprogram_head" /\ Head(Top.todo) = Sym("check_enter_method")
  <2>1. Top.prod \in TableCallers("check_enter_method")
        /\ Head(Top.todo) = Sym("check_enter_method")
    BY <1>1, StepOfProduction
  <2>2. TableCallers("check_enter_method") = {"program", "subprogram_head"}
    BY DEF TableCallers
  <2> QED
    BY <2>1, <2>2
<1>5. PICK d : d = n - 1
  OBVIOUS
<1>6. n # 1
  BY <1>3, <1>4
<1>7. d \in DOMAIN stack /\ d < n /\ d + 1 = n /\ d < Len(stack)
  BY <1>2, <1>3, <1>5, <1>6
<1>8. stack[d].prod = "subprogram_declaration"
  BY <1>3, <1>4, <1>7, CalledByCaller, CallersOfScopes
<1>9. ParserTypeOK /\ CallsNest /\ PlacesInBodies
  BY DEF ParserInvariant, StackInvariant
<1>10. Ahead(n, Sym("check_enter_method")) /\ ~Ahead(n, Sym("check_enter_method"))'
  <2>1. Sym("check_enter_method") \in ToSet(Top.todo)
    BY <1>1, <1>4, <1>9, OthersStayAhead
  <2>2. /\ Len(Top.todo) \in 1 .. 6 /\ Len(Advanced.todo) = Len(Top.todo) - 1
        /\ Head(Top.todo) = HeadBody[7 - Len(Top.todo)]
    BY <1>1, <1>4, <1>9, HeadStep
  <2>3. Len(Top.todo) = 4
    <3>1. PICK l \in 1 .. 6 : l = Len(Top.todo)
      BY <2>2
    <3>2. PICK i \in 1 .. 6 : i = 7 - l
      OBVIOUS
    <3>3. HeadBody[i] = Sym("check_enter_method")
      BY <1>4, <2>2, <3>1, <3>2
    <3>4. i = 3
      BY <3>3, HeadCalls
    <3>5. l = 4
      BY <3>2, <3>4
    <3> QED
      BY <3>1, <3>5
  <2>4. ParserTypeOK' /\ CallsNest' /\ PlacesInBodies'
    <3>1. ParserNext
      BY DEF ParserNext
    <3> QED
      BY <3>1, NextSound DEF ParserInvariant, StackInvariant
  <2>5. HeadsAreCounted'
    <3>1. ParserTypeOK /\ CallsNest /\ PlacesInBodies => HeadsAreCounted
      BY HeadTodo
    <3>2. ParserTypeOK' /\ CallsNest' /\ PlacesInBodies' => HeadsAreCounted'
      BY <3>1, HeadTodo, PTL
    <3> QED
      BY <2>4, <3>2
  <2>6. Sym("check_enter_method") \in ToSet(stack'[n].todo) <=> Len(stack'[n].todo) >= 4
    <3>1. n \in DOMAIN stack' /\ stack'[n].prod = "subprogram_head"
      BY <1>3, <1>4
    <3> QED
      BY <2>5, <3>1 DEF HeadsAreCounted
  <2>7. Sym("check_enter_method") \notin ToSet(Advanced.todo)
    BY <1>3, <2>2, <2>3, <2>6
  <2>8. Top.at = "body"
    BY <1>1, <1>9, HeadIsStep
  <2> QED
    BY <1>3, <2>1, <2>7, <2>8 DEF Ahead
<1>11. ~Owes(d)
  <2>1. stack[d + 1].prod = "subprogram_head" /\ Ahead(d + 1, Sym("check_enter_method"))
    BY <1>3, <1>4, <1>7, <1>10
  <2> QED
    BY <1>7, <1>8, <2>1 DEF Owes
<1>12. Owes(d)'
  <2>1. ~Ahead(d + 1, Sym("check_enter_method"))'
    BY <1>7, <1>10
  <2>2. Ahead(d, Sym("check_exit_method")) /\ ~Ahead(d, Sub("subprogram_head"))
    BY <1>7, <1>8, SubprogramWaits
  <2>3. Ahead(d, Sym("check_exit_method"))' /\ ~Ahead(d, Sub("subprogram_head"))'
    BY <1>3, <1>7, <2>2
  <2>4. stack'[d].prod = "subprogram_declaration"
    BY <1>3, <1>7, <1>8
  <2> QED
    BY <2>1, <2>3, <2>4 DEF Owes
<1>13. ~Owes(n) /\ ~Owes(n)'
  BY <1>3, <1>4 DEF Owes
<1>14. \A i \in DOMAIN stack : i = n \/ i = d \/ (i < n /\ i # n - 1)
  BY <1>3, <1>5
<1>15. \A i \in DOMAIN stack : i # d => (Owes(i)' <=> Owes(i))
  BY <1>3, <1>13, <1>14
<1>16. d \notin Owing /\ Owing' = Owing \cup {d}
  BY <1>3, <1>7, <1>11, <1>12, <1>15 DEF Owing
<1> QED
  BY <1>7, <1>8, <1>16

\* An exit takes the innermost scope away, and no variables come after it.
LEMMA ExitOwes ==
  ASSUME ParserInvariant, TableCall, Head(Top.todo).arg = "check_exit_method"
  PROVE  /\ \E d \in Owing : Owing' = Owing \ {d}
         /\ \A i \in DOMAIN stack' : ~MayDeclare(i)'
         /\ \A i \in Owing' : stack'[i].prod = stack[i].prod
         /\ Top.prod \in {"program", "subprogram_declaration"}
         /\ Top.prod = "program" => Owing = {1}
         /\ Top.prod = "subprogram_declaration" =>
              \E d \in Owing : stack[d].prod = "subprogram_declaration"
<1>1. NextIs("table") /\ Become(Advanced)
  BY DEF TableCall
<1>2. PICK n : n = Len(stack)
  OBVIOUS
<1>3. /\ n \in Nat \ {0} /\ n \in DOMAIN stack /\ DOMAIN stack = 1 .. n /\ DOMAIN stack' = DOMAIN stack
      /\ Top = stack[n] /\ stack'[n] = Advanced /\ Top.at = "body"
      /\ Advanced.at = "body" /\ Advanced.prod = Top.prod
      /\ \A i \in DOMAIN stack : stack'[i].prod = stack[i].prod
      /\ \A i \in DOMAIN stack : \A s : Ahead(i, s)' => Ahead(i, s)
      /\ \A i \in DOMAIN stack : i < n =>
              \/ Owes(i)' <=> Owes(i)
              \/ i = n - 1 /\ Top.prod = "subprogram_head"
  BY <1>1, <1>2, TopChanged
<1>4. /\ Top.prod \in {"program", "subprogram_declaration"}
      /\ Head(Top.todo) = Sym("check_exit_method")
  <2>1. TableCallers("check_exit_method") = {"program", "subprogram_declaration"}
    BY DEF TableCallers
  <2> QED
    BY <1>1, <2>1, StepOfProduction
<1>5. Owes(n) /\ ~Owes(n)'
  <2>0. ~(n < Len(stack))
    BY <1>2, <1>3
  <2>1. CASE Top.prod = "program"
    <3>1. PICK k \in 0 .. 8 : /\ ProgramAt(Top.todo, k) /\ ProgramAt(Advanced.todo, k + 1)
                              /\ Head(Top.todo) = ProgramBody[k + 1] /\ k \in {2, 8}
      BY <1>1, <2>1, ProgramStep
    <3>2. k = 8
      <4>1. ProgramBody[3] # Sym("check_exit_method")
        BY ProgramSteps
      <4>2. k = 2 => Head(Top.todo) = ProgramBody[3]
        BY <3>1
      <4> QED
        BY <1>4, <3>1, <4>1, <4>2
    <3>3. PICK x : x = k + 1 /\ x = 9
      BY <3>2
    <3>4. ProgramAt(Advanced.todo, x)
      BY <3>1, <3>3
    <3>5. /\ Sym("check_enter_method") \notin ToSet(Top.todo)
          /\ Sym("check_exit_method") \in ToSet(Top.todo)
          /\ Sym("check_exit_method") \notin ToSet(Advanced.todo)
      BY <3>1, <3>2, <3>3, <3>4 DEF ProgramAt
    <3>6. ~Ahead(n, Sym("check_exit_method"))'
      BY <1>3, <3>5 DEF Ahead
    <3> QED
      BY <1>3, <2>1, <3>5, <3>6 DEF Owes, Ahead
  <2>2. CASE Top.prod = "subprogram_declaration"
    <3>1. PICK k \in 0 .. 2 : /\ SubprogramAt(Top.todo, k) /\ SubprogramAt(Advanced.todo, k + 1)
                              /\ k = 2
      BY <1>1, <2>2, SubprogramStep
    <3>3. PICK x : x = k + 1 /\ x = 3
      BY <3>1
    <3>4. SubprogramAt(Advanced.todo, x)
      BY <3>1, <3>3
    <3>5. /\ Sub("subprogram_head") \notin ToSet(Top.todo)
          /\ Sym("check_exit_method") \in ToSet(Top.todo)
          /\ Sym("check_exit_method") \notin ToSet(Advanced.todo)
      BY <3>1, <3>3, <3>4 DEF SubprogramAt
    <3>6. ~Ahead(n, Sym("check_exit_method"))'
      BY <1>3, <3>5 DEF Ahead
    <3>7. Ahead(n, Sym("check_exit_method")) /\ ~Ahead(n, Sub("subprogram_head"))
      BY <1>3, <3>5 DEF Ahead
    <3>8. Owes(n)
      BY <1>3, <2>0, <2>2, <3>7 DEF Owes
    <3>9. ~Owes(n)'
      BY <3>6 DEF Owes
    <3> QED
      BY <3>8, <3>9
  <2> QED
    BY <1>4, <2>1, <2>2
<1>6. \A i \in DOMAIN stack : i = n \/ i < n
  BY <1>3
<1>7. \A i \in DOMAIN stack : i # n => (Owes(i)' <=> Owes(i))
  BY <1>3, <1>4, <1>6
<1>8. n \in Owing /\ Owing' = Owing \ {n}
  BY <1>3, <1>5, <1>7 DEF Owing
<1>9. \A i \in DOMAIN stack : MayDeclare(i)' => MayDeclare(i)
  BY <1>3, <1>5, <1>7 DEF MayDeclare
<1>10. \A i \in DOMAIN stack : ~MayDeclare(i)
  BY <1>1, <1>4, LeavingDeclaresNothing
<1>11. Top.prod = "program" => Owing = {1}
  <2> SUFFICES ASSUME Top.prod = "program" PROVE Owing = {1}
    OBVIOUS
  <2>1. n = 1
    BY <1>3, ProgramIsFirst
  <2>2. DOMAIN stack = {1}
    BY <1>3, <2>1
  <2> QED
    BY <1>8, <2>1, <2>2 DEF Owing
<1>12. \A i \in DOMAIN stack' : ~MayDeclare(i)'
  BY <1>3, <1>9, <1>10
<1>13. \A i \in Owing' : stack'[i].prod = stack[i].prod
  BY <1>3, <1>8 DEF Owing
<1> QED
  BY <1>3, <1>4, <1>8, <1>11, <1>12, <1>13

\* The other calls leave the scopes as they are.
LEMMA OtherOwes ==
  ASSUME ParserInvariant, TableCall,
         Head(Top.todo).arg \notin {"check_enter_method", "check_exit_method"}
  PROVE  /\ ScopesKept /\ DOMAIN stack' = DOMAIN stack
         /\ \A i \in DOMAIN stack : stack'[i].prod = stack[i].prod
<1>1. NextIs("table") /\ Become(Advanced)
  BY DEF TableCall
<1>2. PICK n : n = Len(stack)
  OBVIOUS
<1>3. /\ n \in Nat \ {0} /\ n \in DOMAIN stack /\ DOMAIN stack = 1 .. n /\ DOMAIN stack' = DOMAIN stack
      /\ Top = stack[n] /\ stack'[n] = Advanced /\ Advanced.prod = Top.prod
      /\ \A i \in DOMAIN stack : stack'[i].prod = stack[i].prod
      /\ \A i \in DOMAIN stack : \A s : Ahead(i, s)' => Ahead(i, s)
      /\ \A i \in DOMAIN stack : i < n =>
              \/ Owes(i)' <=> Owes(i)
              \/ i = n - 1 /\ Top.prod = "subprogram_head"
  BY <1>1, <1>2, TopChanged
<1>4. ScopesKept
  <2>1. CASE Sym(Head(Top.todo).arg) \notin Watched(Top.prod)
    BY <2>1, TableCallKeepsScopes
  <2>2. CASE Sym(Head(Top.todo).arg) \in Watched(Top.prod)
    <3>1. \A x : /\ x \notin {"check_enter_method", "check_exit_method"} =>
                      Sym(x) \notin {Sym("check_enter_method"), Sym("check_exit_method")}
                 /\ \A p : Sym(x) # Sub(p)
      BY DEF Sym, Sub
    <3>2. Top.prod \notin {"program", "subprogram_declaration", "subprogram_head"}
      BY <2>2, <3>1, WatchedSteps
    <3>3. ~Owes(n) /\ ~Owes(n)'
      BY <1>3, <3>2 DEF Owes
    <3>4. \A i \in DOMAIN stack : i = n \/ i < n
      BY <1>3
    <3>5. \A i \in DOMAIN stack : Owes(i)' <=> Owes(i)
      BY <1>3, <3>2, <3>3, <3>4
    <3>6. \A i \in DOMAIN stack : MayDeclare(i)' => MayDeclare(i)
      BY <1>3, <3>5 DEF MayDeclare
    <3> QED
      BY <1>3, <3>5, <3>6 DEF ScopesKept, Owing
  <2> QED
    BY <2>1, <2>2
<1> QED
  BY <1>3, <1>4

\* The program's parameters are added in the list of them, before its body.
LEMMA IdsInOrder ==
  ASSUME ParserInvariant, NextIs("table"),
         \/ Top.prod \in {"id_list", "id_list_"}
         \/ Head(Top.todo).arg = "check_add_prog_param"
  PROVE  /\ Top.prod \in {"id_list", "id_list_"} /\ Head(Top.todo).arg = "check_add_prog_param"
         /\ stack # <<>> /\ Ahead(1, Sub("program_"))
<1>1. /\ stack # <<>> /\ Top = stack[Len(stack)] /\ Len(stack) \in DOMAIN stack
      /\ DOMAIN stack = 1 .. Len(stack) /\ Len(stack) \in Nat
      /\ stack[1].prod = "program"
  BY TopIsFrame, HeadIsStep DEF ParserInvariant, StackInvariant, ProgramIsOutermost
<1>2. Top.prod \in TableCallers(Head(Top.todo).arg)
  BY StepOfProduction
<1>3. Head(Top.todo).arg \in TableCalls(Top.prod)
  BY CallOfProduction DEF ParserInvariant, StackInvariant
<1>4. Top.prod \in {"id_list", "id_list_"}
  <2>1. TableCallers("check_add_prog_param") = {"id_list", "id_list_"}
    BY DEF TableCallers
  <2> QED
    BY <1>2, <2>1
<1>5. Head(Top.todo).arg = "check_add_prog_param"
  <2>1. Head(Top.todo).arg \in {"check_add_prog_param", "check_add_var", "check_exit_method"}
    <3>1. Top.prod \notin InHead \cup {"program", "subprogram_head"}
      BY <1>4 DEF InHead, HeadParts
    <3> QED
      BY <1>3, <3>1, CallsByProduction
  <2>2. TableCallers("check_add_var") = {"declarations", "declarations_"}
    BY DEF TableCallers
  <2>3. TableCallers("check_exit_method") = {"program", "subprogram_declaration"}
    BY DEF TableCallers
  <2> QED
    BY <1>2, <1>4, <2>1, <2>2, <2>3
<1>6. 2 \in DOMAIN stack /\ stack[2].prod = "id_list"
  BY <1>1, <1>4, IdsAreBelow
<1>7. PICK i : i = 1
  OBVIOUS
<1>8. i \in DOMAIN stack /\ i < Len(stack) /\ stack[i].prod = "program" /\ stack[i + 1].prod = "id_list"
  BY <1>1, <1>6, <1>7
<1>9. Ahead(i, Sub("program_"))
  BY <1>8, ProgramWaits
<1> QED
  BY <1>1, <1>4, <1>5, <1>7, <1>9

\* While its body is still to come, only its name and parameters are entered.
LEMMA OnlyIdsBeforeBody ==
  ASSUME ParserInvariant, TableCall, Ahead(1, Sub("program_"))'
  PROVE  \/ Top.prod \in {"id_list", "id_list_"}
         \/ Top.prod = "program" /\ Head(Top.todo).arg = "check_enter_method"
<1>1. NextIs("table") /\ Become(Advanced)
  BY DEF TableCall
<1>2. PICK n : n = Len(stack)
  OBVIOUS
<1>3. /\ n \in Nat \ {0} /\ 1 \in DOMAIN stack /\ DOMAIN stack = 1 .. n
      /\ Top = stack[n] /\ stack'[n] = Advanced /\ stack[1].prod = "program"
      /\ Advanced.at = "body"
      /\ \A i \in DOMAIN stack : \A s : Ahead(i, s)' => Ahead(i, s)
  BY <1>1, <1>2, TopChanged
<1>4. CASE n = 1
  <2>1. Top.prod = "program" /\ stack'[1] = Advanced
    BY <1>3, <1>4
  <2>2. PICK k \in 0 .. 8 : /\ ProgramAt(Advanced.todo, k + 1) /\ k \in {2, 8}
                            /\ Head(Top.todo) = ProgramBody[k + 1]
    BY <1>1, <2>1, ProgramStep
  <2>3. Sub("program_") \in ToSet(Advanced.todo)
    BY <1>3, <2>1 DEF Ahead
  <2>4. k + 1 < 8
    BY <2>2, <2>3 DEF ProgramAt
  <2>5. k = 2 /\ k + 1 = 3
    BY <2>2, <2>4
  <2>6. Head(Top.todo) = Sym("check_enter_method")
    BY <2>2, <2>5, ProgramSteps
  <2>7. Sym("check_enter_method").arg = "check_enter_method"
    BY DEF Sym
  <2> QED
    BY <2>1, <2>6, <2>7
<1>5. CASE n # 1
  <2>1. 1 < Len(stack) /\ Ahead(1, Sub("program_"))
    BY <1>2, <1>3, <1>5
  <2>2. PICK j : j = 1 + 1 /\ j \in DOMAIN stack
    BY <1>3, <1>5
  <2>3. stack[j].prod = "id_list"
    BY <1>3, <2>1, <2>2, ProgramWaits
  <2> QED
    BY <2>2, <2>3, OnlyIdsInside
<1> QED
  BY <1>4, <1>5

\* Any other call comes behind a parameter of the program.
LEMMA NamesAreRead ==
  ASSUME ParserInvariant, NamesFirst, NextIs("table"), Top.prod \notin {"id_list", "id_list_"},
         ~(Top.prod = "program" /\ Head(Top.todo).arg = "check_enter_method")
  PROVE  size > 1
<1>1. /\ stack # <<>> /\ Top = stack[Len(stack)] /\ Len(stack) \in DOMAIN stack
      /\ DOMAIN stack = 1 .. Len(stack) /\ Len(stack) \in Nat /\ Top.at = "body"
      /\ stack[1].prod = "program" /\ 1 \in DOMAIN stack
  BY TopIsFrame, HeadIsStep DEF ParserInvariant, StackInvariant, ProgramIsOutermost
<1>2. ~\E i \in DOMAIN stack : stack[i].prod = "id_list" /\ Ahead(i, Sym("check_add_prog_param"))
  BY OnlyIdsInside
<1>3. ~Ahead(1, Sub("id_list"))
  <2>1. CASE Len(stack) = 1
    <3>1. Top.prod = "program" /\ Top = stack[1]
      BY <1>1, <2>1
    <3>2. PICK k \in 0 .. 8 : /\ ProgramAt(Top.todo, k) /\ k \in {2, 8}
                              /\ Head(Top.todo) = ProgramBody[k + 1]
      BY <3>1, ProgramStep
    <3>3. k = 8
      <4>1. ProgramBody[3] = Sym("check_enter_method")
        BY ProgramSteps
      <4>2. Sym("check_enter_method").arg = "check_enter_method"
        BY DEF Sym
      <4>3. k = 2 => Head(Top.todo) = Sym("check_enter_method")
        BY <3>2, <4>1
      <4> QED
        BY <3>1, <3>2, <4>2, <4>3
    <3> QED
      BY <1>1, <3>1, <3>2, <3>3 DEF Ahead, ProgramAt
  <2>2. CASE Len(stack) # 1
    <3>1. 1 < Len(stack)
      BY <1>1, <2>2
    <3> QED
      BY <1>1, <3>1, ProgramWaits
  <2> QED
    BY <2>1, <2>2
<1> QED
  BY <1>1, <1>2, <1>3 DEF NamesFirst

-----------------------------------------------------------------------------
(* How deep the calls of symbol_table.c go.                                *)

LEMMA DepthAt == ASSUME NEW m, m = Owner' PROVE Depth' = DepthOf(m)'
BY DEF Depth, DepthOf

LEMMA DepthEnters ==
  ASSUME TableInvariant, TableInvariant', NEW new, Grows(new), Owner' = new
  PROVE  Depth' = Depth + 1 /\ Depth \in Nat
<1>1. PICK o : o = Owner /\ o = parent'[new] /\ o \in Allocated \cup {NULL}
  BY AllocatedHangs DEF Grows
<1>2. new \in Entry
  <2>1. size' \in 0 .. MaxEntries
    BY DEF TableInvariant, TypeOK
  <2>2. new \in 1 .. size'
    BY DEF Grows, Allocated
  <2> QED
    BY <2>1, <2>2, MaxEntriesAssumption DEF Entry
<1>3. Depth' = DepthOf(new)'
  BY DepthAt
<1>4. DepthOf(new)' = 1 + DepthOf(o)'
  BY <1>1, <1>2, DepthHoldsNext DEF DepthRule
<1>5. DepthOf(o)' = DepthOf(o)
  BY <1>1, DepthKept DEF Grows
<1>6. Depth = DepthOf(o) /\ o \in Link
  BY <1>1, AllocatedHangs DEF Depth, Link
<1>7. DepthOf(o) \in Nat
  BY <1>6, DepthHolds DEF DepthRule
<1> QED
  BY <1>3, <1>4, <1>5, <1>6, <1>7

LEMMA DepthStays ==
  ASSUME TableInvariant, TableInvariant', \A e \in Allocated : parent'[e] = parent[e], Owner' = Owner
  PROVE  Depth' = Depth
<1>1. PICK o : o = Owner /\ o = Owner' /\ o \in Allocated \cup {NULL}
  BY AllocatedHangs
<1>2. Depth' = DepthOf(o)'
  BY <1>1, DepthAt
<1>3. DepthOf(o)' = DepthOf(o)
  BY <1>1, DepthKept
<1> QED
  BY <1>1, <1>2, <1>3 DEF Depth

LEMMA DepthLeaves ==
  ASSUME TableInvariant, TableInvariant', UNCHANGED parent, Owner # NULL, Owner' = parent[Owner]
  PROVE  Depth = Depth' + 1 /\ Depth' \in Nat
<1>1. PICK o : o = Owner /\ o \in Allocated /\ o \in Entry
  BY AllocatedHangs
<1>2. PICK p : p = parent[o] /\ p = Owner' /\ p \in Allocated \cup {NULL} /\ p \in Link
  BY <1>1, AllocatedHangs DEF Link
<1>3. Depth' = DepthOf(p)'
  BY <1>2, DepthAt
<1>4. DepthOf(p)' = DepthOf(p)
  BY <1>2, DepthKept
<1>5. DepthOf(o) = 1 + DepthOf(p) /\ DepthOf(p) \in Nat
  BY <1>1, <1>2, DepthHolds DEF DepthRule
<1> QED
  BY <1>1, <1>3, <1>4, <1>5 DEF Depth

\* Outside of the program there is no scope, and only there.
LEMMA NoDepth ==
  ASSUME TableInvariant
  PROVE  Depth \in Nat /\ (Depth = 0 <=> Owner = NULL)
<1>1. Owner \in Allocated \cup {NULL} /\ Allocated \subseteq Entry
  BY AllocatedHangs
<1>2. CASE Owner = NULL
  <2>1. PICK o : o = Owner /\ o = NULL
    BY <1>2
  <2> QED
    BY <2>1, DepthHolds DEF DepthRule, Depth
<1>3. CASE Owner # NULL
  <2>1. PICK o : o = Owner /\ o \in Entry
    BY <1>1, <1>3
  <2>2. PICK p : p = parent[o] /\ p \in Link
    BY <1>1, <1>3, <2>1, AllocatedHangs DEF Link
  <2>3. DepthOf(o) = 1 + DepthOf(p) /\ DepthOf(p) \in Nat
    BY <2>1, <2>2, DepthHolds DEF DepthRule
  <2> QED
    BY <1>3, <2>1, <2>3 DEF Depth
<1> QED
  BY <1>2, <1>3

LEMMA OwingIsFinite == ParserInvariant => IsFiniteSet(Owing)
<1> SUFFICES ASSUME ParserInvariant PROVE IsFiniteSet(Owing)
  OBVIOUS
<1>1. stack \in Seq(FrameType)
  BY DEF ParserInvariant, StackInvariant, ParserTypeOK
<1>2. DOMAIN stack = 1 .. Len(stack) /\ Len(stack) \in Nat
  BY <1>1, LenProperties
<1>3. IsFiniteSet(1 .. Len(stack))
  BY <1>2, FS_Interval
<1>4. Owing \subseteq 1 .. Len(stack)
  BY <1>2 DEF Owing
<1> QED
  BY <1>3, <1>4, FS_Subset

-----------------------------------------------------------------------------
(* The order of the calls.                                                 *)

InOrder == /\ NamesFirst /\ DepthFollows /\ VariablesFirst
           /\ FunctionsStay /\ OneProgram /\ LeftOnce

\* Behind the first call the eye is inside the program.
LEMMA InsideProgram ==
  ASSUME FrontInvariant, InOrder, NextIs("table"),
         ~(Top.prod = "program" /\ Head(Top.todo).arg = "check_enter_method")
  PROVE  Owner # NULL /\ sym_eye # NULL /\ size > 0 /\ size \in Nat /\ symbol_table # NULL /\ 1 \in Owing
<1>1. ParserInvariant /\ TableInvariant /\ size \in Nat
  BY DEF FrontInvariant, TableInvariant, TypeOK
<1>2. 1 \in Owing /\ IsFiniteSet(Owing)
  BY <1>1, ProgramIsOwed, OwingIsFinite
<1>3. Cardinality(Owing) # 0
  BY <1>2, FS_EmptySet
<1>4. Owner # NULL
  BY <1>1, <1>3, NoDepth DEF InOrder, DepthFollows
<1>5. sym_eye # NULL
  BY <1>4 DEF Owner
<1>6. size > 0 /\ symbol_table # NULL
  BY <1>1, <1>5 DEF InOrder, OneProgram
<1> QED
  BY <1>1, <1>2, <1>4, <1>5, <1>6

LEMMA NamesGoOn ==
  ASSUME ParserInvariant, TableCall, size' > 1 \/ ListIsAhead',
         Ahead(1, Sub("program_"))' => \A e \in Allocated' : symbol'[e].std_type \in ProgramType
  PROVE  NamesFirst'
<1>1. stack' # <<>> /\ ~Ahead(1, Sym("check_enter_method"))'
  BY BeginningPassed
<1> QED
  BY <1>1 DEF NamesFirst, ListIsAhead

LEMMA EnterProgramInOrder ==
  ASSUME FrontInvariant, FrontInvariant', InOrder, TableCall,
         Head(Top.todo).arg = "check_enter_method", Top.prod = "program",
         NEW name, check_enter_method(name)
  PROVE  InOrder' /\ size = 0 /\ c = 0 /\ Owner' # NULL /\ symbol_table' # NULL
         /\ \A e \in Allocated' : symbol'[e].std_type \in ProgramType
<1>1. ParserInvariant /\ TableInvariant /\ TableInvariant' /\ size \in Nat
  BY DEF FrontInvariant, TableInvariant, TypeOK
<1>2. /\ Ahead(1, Sym("check_enter_method")) /\ ListIsAhead'
      /\ Owing = {} /\ Owing' = {1} /\ stack'[1].prod = "program"
  BY <1>1, EnterProgramOwes
<1>3. size = 0 /\ c = 0 /\ sym_eye = NULL
  <2>1. stack # <<>>
    BY <1>1, BeginningPassed
  <2> QED
    BY <1>2, <2>1 DEF InOrder, NamesFirst, OneProgram
<1>4. PICK new : new = size + 1 /\ new = 1
  BY <1>3
<1>5. /\ Grows(new) /\ symbol'[new] = MethodSymbol(name) /\ Owner' = new
      /\ OneProgram' /\ LeftOnce'
  BY <1>1, <1>3, <1>4, EnterMoves DEF InOrder
<1>6. Allocated' = {new}
  BY <1>3, <1>5 DEF Grows, Allocated
<1>7. symbol'[new].std_type = "PGNAME" /\ symbol'[new].fun = 0
  BY <1>3, <1>5 DEF MethodSymbol
<1>8. \A e \in Allocated' : symbol'[e].std_type \in ProgramType /\ symbol'[e].fun = 0
  BY <1>6, <1>7 DEF ProgramType
<1>9. NamesFirst'
  BY <1>1, <1>2, <1>8, NamesGoOn
<1>10. DepthFollows'
  <2>1. Depth' = Depth + 1 /\ Depth \in Nat
    BY <1>1, <1>5, DepthEnters
  <2>2. Depth = 0
    BY <1>2, FS_EmptySet DEF InOrder, DepthFollows
  <2>3. Cardinality(Owing)' = 1
    BY <1>2, FS_Singleton
  <2> QED
    BY <2>1, <2>2, <2>3 DEF DepthFollows
<1>11. VariablesFirst'
  BY <1>8 DEF VariablesFirst
<1>12. FunctionsStay'
  BY <1>2, <1>8 DEF FunctionsStay
<1>13. Owner' # NULL /\ symbol_table' # NULL
  BY <1>4, <1>5 DEF NULL, Grows
<1> QED
  BY <1>3, <1>5, <1>8, <1>9, <1>10, <1>11, <1>12, <1>13 DEF InOrder

LEMMA EnterFunctionInOrder ==
  ASSUME FrontInvariant, FrontInvariant', InOrder, TableCall,
         Head(Top.todo).arg = "check_enter_method", Top.prod # "program",
         NEW name, check_enter_method(name)
  PROVE  InOrder' /\ symbol_table' # NULL
<1>1. ParserInvariant /\ TableInvariant /\ TableInvariant' /\ NextIs("table")
  BY DEF FrontInvariant, TableCall
<1>2. Owner # NULL /\ sym_eye # NULL /\ size > 0 /\ size \in Nat
  BY <1>1, InsideProgram
<1>3. PICK d \in DOMAIN stack : /\ d \notin Owing /\ Owing' = Owing \cup {d}
                                /\ stack[d].prod = "subprogram_declaration"
  BY <1>1, EnterFunctionOwes
<1>4. PICK new : new = size + 1
  OBVIOUS
<1>5. /\ Grows(new) /\ symbol'[new] = MethodSymbol(name) /\ Owner' = new
      /\ OneProgram' /\ LeftOnce'
  BY <1>1, <1>2, <1>4, EnterMoves DEF InOrder
<1>6. /\ symbol'[new].fun = 1 /\ symbol'[new].std_type = "NONE" /\ "NONE" \notin ProgramType
      /\ new \in Allocated'
  BY <1>2, <1>5 DEF MethodSymbol, ProgramType, Grows
<1>7. NamesFirst'
  <2>1. size' > 1
    BY <1>2, <1>4, <1>5 DEF Grows
  <2>2. Top.prod \notin {"id_list", "id_list_"}
    <3>1. Head(Top.todo).arg # "check_add_prog_param"
      OBVIOUS
    <3> QED
      BY <1>1, <3>1, IdsInOrder
  <2>3. ~Ahead(1, Sub("program_"))'
    BY <1>1, <2>2, OnlyIdsBeforeBody
  <2> QED
    BY <1>1, <2>1, <2>3, NamesGoOn
<1>8. DepthFollows'
  <2>1. Depth' = Depth + 1 /\ Depth \in Nat
    BY <1>1, <1>5, DepthEnters
  <2>2. Depth = Cardinality(Owing)
    BY DEF InOrder, DepthFollows
  <2>3. Cardinality(Owing \cup {d}) = Cardinality(Owing) + 1
    <3>1. IsFiniteSet(Owing)
      BY <1>1, OwingIsFinite
    <3> QED
      BY <1>3, <3>1, FS_AddElement
  <2>4. Cardinality(Owing)' = Cardinality(Owing \cup {d})
    BY <1>3
  <2> QED
    BY <2>1, <2>2, <2>3, <2>4 DEF DepthFollows
<1>9. VariablesFirst'
  <2>1. \A e \in Allocated' : parent'[e] # new
    <3>1. \A e \in Allocated : parent[e] # new
      <4>1. \A e \in Allocated : parent[e] < e /\ e \in Nat /\ parent[e] \in Allocated \cup {NULL}
        BY <1>1, AllocatedHangs
      <4>2. new # NULL /\ new \notin Allocated
        BY <1>2, <1>4, <1>5 DEF Grows, NULL
      <4> QED
        BY <4>1, <4>2
    <3>2. parent'[new] # new
      <4>1. Owner \in Allocated \cup {NULL}
        BY <1>1, AllocatedHangs
      <4> QED
        BY <1>2, <1>5, <4>1 DEF Grows
    <3> QED
      BY <1>5, <3>1, <3>2 DEF Grows
  <2> QED
    BY <1>5, <2>1 DEF VariablesFirst
<1>10. FunctionsStay'
  <2>1. \A e \in Allocated' : symbol'[e].fun = 1 => symbol'[e].std_type \notin ProgramType
    BY <1>5, <1>6 DEF InOrder, FunctionsStay, Grows
  <2> QED
    BY <1>6, <2>1 DEF FunctionsStay
<1> QED
  BY <1>5, <1>7, <1>8, <1>9, <1>10 DEF InOrder, Grows

\* A variable or parameter, its type being that of a name of the program only
\* among those.
LEMMA AddInOrder ==
  ASSUME FrontInvariant, FrontInvariant', InOrder, TableCall,
         Head(Top.todo).arg \notin {"check_enter_method", "check_exit_method"},
         NEW name, NEW type, NEW param, AddEntry(name, type, param),
         Top.prod \in {"id_list", "id_list_"} => type \in ProgramType
  PROVE  /\ InOrder' /\ symbol_table' # NULL /\ Owner' # NULL
         /\ (\A e \in Allocated : symbol[e].std_type \in ProgramType) /\ type \in ProgramType =>
              \A e \in Allocated' : symbol'[e].std_type \in ProgramType
         /\ \E e \in Allocated' : symbol'[e].std_type = type
<1>1. ParserInvariant /\ TableInvariant /\ TableInvariant' /\ NextIs("table")
  BY DEF FrontInvariant, TableCall
<1>2. Owner # NULL /\ sym_eye # NULL /\ size > 0 /\ size \in Nat
  BY <1>1, InsideProgram
<1>3. /\ ScopesKept /\ DOMAIN stack' = DOMAIN stack
      /\ \A i \in DOMAIN stack : stack'[i].prod = stack[i].prod
  BY <1>1, OtherOwes
<1>4. PICK new : new = size + 1
  OBVIOUS
<1>5. /\ Grows(new) /\ symbol'[new].fun = 0 /\ symbol'[new].std_type = type /\ Owner' = Owner
      /\ OneProgram' /\ LeftOnce'
  BY <1>1, <1>2, <1>4, AddMoves DEF InOrder
<1>6. (\A e \in Allocated : symbol[e].std_type \in ProgramType) /\ type \in ProgramType =>
        \A e \in Allocated' : symbol'[e].std_type \in ProgramType
  BY <1>5 DEF Grows
<1>7. NamesFirst'
  <2>1. size' > 1
    BY <1>2, <1>4, <1>5 DEF Grows
  <2>2. Ahead(1, Sub("program_"))' => \A e \in Allocated' : symbol'[e].std_type \in ProgramType
    <3> SUFFICES ASSUME Ahead(1, Sub("program_"))'
                 PROVE  \A e \in Allocated' : symbol'[e].std_type \in ProgramType
      OBVIOUS
    <3>1. Top.prod \in {"id_list", "id_list_"}
      BY <1>1, OnlyIdsBeforeBody
    <3>2. stack # <<>> /\ Ahead(1, Sub("program_"))
      BY <1>1, BeginningPassed
    <3>3. \A e \in Allocated : symbol[e].std_type \in ProgramType
      BY <3>2 DEF InOrder, NamesFirst
    <3> QED
      BY <1>6, <3>1, <3>3
  <2> QED
    BY <1>1, <2>1, <2>2, NamesGoOn
<1>8. DepthFollows'
  <2>1. Depth' = Depth
    BY <1>1, <1>5, DepthStays DEF Grows
  <2>2. Owing' = Owing
    BY <1>3 DEF ScopesKept
  <2> QED
    BY <2>1, <2>2 DEF DepthFollows, InOrder
<1>9. VariablesFirst'
  <2> SUFFICES ASSUME (\E i \in DOMAIN stack : MayDeclare(i))'
               PROVE  \A e \in Allocated' : parent'[e] = Owner' => symbol'[e].fun = 0
    BY DEF VariablesFirst
  <2>1. \E i \in DOMAIN stack : MayDeclare(i)
    BY <1>3 DEF ScopesKept
  <2>2. \A e \in Allocated : parent[e] = Owner => symbol[e].fun = 0
    BY <2>1 DEF InOrder, VariablesFirst
  <2> QED
    BY <1>5, <2>2 DEF Grows
<1>10. FunctionsStay'
  <2>1. \A e \in Allocated' : symbol'[e].fun = 1 => symbol'[e].std_type \notin ProgramType
    BY <1>5 DEF InOrder, FunctionsStay, Grows
  <2>2. (\E i \in Owing : stack[i].prod = "subprogram_declaration")' =>
          \E e \in Allocated' : symbol'[e].fun = 1
    <3> SUFFICES ASSUME NEW i \in Owing', stack'[i].prod = "subprogram_declaration"
                 PROVE  \E e \in Allocated' : symbol'[e].fun = 1
      OBVIOUS
    <3>1. i \in Owing /\ stack[i].prod = "subprogram_declaration"
      BY <1>3 DEF ScopesKept, Owing
    <3>2. PICK e \in Allocated : symbol[e].fun = 1
      BY <3>1 DEF InOrder, FunctionsStay
    <3> QED
      BY <1>5, <3>2 DEF Grows
  <2> QED
    BY <2>1, <2>2 DEF FunctionsStay
<1>11. new \in Allocated'
  BY <1>5 DEF Grows
<1> QED
  BY <1>2, <1>5, <1>6, <1>7, <1>8, <1>9, <1>10, <1>11 DEF InOrder, Grows

LEMMA ExitInOrder ==
  ASSUME FrontInvariant, FrontInvariant', InOrder, TableCall,
         Head(Top.todo).arg = "check_exit_method", check_exit_method
  PROVE  /\ InOrder' /\ symbol_table' # NULL
         /\ Owner' = NULL \/ \E e \in Allocated' : symbol'[e].std_type \notin ProgramType
<1>1. ParserInvariant /\ TableInvariant /\ TableInvariant' /\ NextIs("table")
  BY DEF FrontInvariant, TableCall
<1>2. Owner # NULL /\ sym_eye # NULL /\ size \in Nat /\ symbol_table # NULL
  BY <1>1, InsideProgram
<1>3. /\ \E d \in Owing : Owing' = Owing \ {d}
      /\ \A i \in DOMAIN stack' : ~MayDeclare(i)'
      /\ \A i \in Owing' : stack'[i].prod = stack[i].prod
      /\ Top.prod \in {"program", "subprogram_declaration"}
      /\ Top.prod = "program" => Owing = {1}
      /\ Top.prod = "subprogram_declaration" =>
           \E d \in Owing : stack[d].prod = "subprogram_declaration"
  BY <1>1, ExitOwes
<1>4. Top.prod \notin {"id_list", "id_list_"}
  BY <1>3
<1>5. size > 1
  BY <1>1, <1>4, NamesAreRead DEF InOrder
<1>6. /\ UNCHANGED <<symbol, parent, size, symbol_table>>
      /\ Owner' = parent[Owner] /\ sym_eye' # NULL
      /\ OneProgram' /\ LeftOnce'
  BY <1>1, <1>2, <1>5, ExitMoves DEF InOrder
<1>7. Allocated' = Allocated /\ symbol' = symbol
  BY <1>6 DEF Allocated
<1>8. NamesFirst'
  <2>1. size' > 1
    BY <1>5, <1>6
  <2>2. ~Ahead(1, Sub("program_"))'
    BY <1>1, <1>4, OnlyIdsBeforeBody
  <2> QED
    BY <1>1, <2>1, <2>2, NamesGoOn
<1>9. PICK inner, outer \in Nat : inner = Depth /\ outer = Depth' /\ inner = outer + 1
  <2>1. Depth = Depth' + 1 /\ Depth' \in Nat
    BY <1>1, <1>2, <1>6, DepthLeaves
  <2>2. PICK outer \in Nat : outer = Depth'
    BY <2>1
  <2>3. PICK inner : inner = Depth
    OBVIOUS
  <2>4. inner = outer + 1
    BY <2>1, <2>2, <2>3
  <2>5. inner \in Nat
    BY <2>4
  <2> QED
    BY <2>2, <2>3, <2>4, <2>5
<1>9a. inner = outer + 1 /\ outer = inner - 1 /\ inner \in Nat /\ outer \in Nat
  <2>1. inner = outer + 1
    BY <1>9
  <2>2. outer \in Nat
    OBVIOUS
  <2>3. outer = inner - 1
    BY <2>1, <2>2
  <2> QED
    BY <2>1, <2>2, <2>3
<1>10. DepthFollows'
  <2>1. PICK d \in Owing : Owing' = Owing \ {d}
    BY <1>3
  <2>2. IsFiniteSet(Owing)
    BY <1>1, OwingIsFinite
  <2>3. Cardinality(Owing \ {d}) = Cardinality(Owing) - 1
    BY <2>2, FS_RemoveElement
  <2>4. Cardinality(Owing)' = Cardinality(Owing \ {d})
    BY <2>1
  <2>5. inner = Cardinality(Owing)
    BY <1>9 DEF InOrder, DepthFollows
  <2>6. outer = Cardinality(Owing) - 1
    BY <1>9a, <2>5
  <2> QED
    BY <1>9, <2>3, <2>4, <2>6 DEF DepthFollows
<1>11. VariablesFirst'
  BY <1>3 DEF VariablesFirst
<1>12. FunctionsStay'
  <2>1. \A e \in Allocated' : symbol'[e].fun = 1 => symbol'[e].std_type \notin ProgramType
    BY <1>7 DEF InOrder, FunctionsStay
  <2>2. (\E i \in Owing : stack[i].prod = "subprogram_declaration")' =>
          \E e \in Allocated' : symbol'[e].fun = 1
    <3> SUFFICES ASSUME NEW i \in Owing', stack'[i].prod = "subprogram_declaration"
                 PROVE  \E e \in Allocated' : symbol'[e].fun = 1
      OBVIOUS
    <3>1. i \in Owing /\ stack[i].prod = "subprogram_declaration"
      BY <1>3
    <3> QED
      BY <1>7, <3>1 DEF InOrder, FunctionsStay
  <2> QED
    BY <2>1, <2>2 DEF FunctionsStay
<1>13. Owner' = NULL \/ \E e \in Allocated' : symbol'[e].std_type \notin ProgramType
  <2>1. CASE Top.prod = "program"
    <3>1. Owing = {1}
      BY <1>3, <2>1
    <3>2. Cardinality(Owing) = 1
      BY <3>1, FS_Singleton
    <3>3. Depth' = 0
      <4>1. inner = 1
        BY <1>9, <3>2 DEF InOrder, DepthFollows
      <4>2. outer = 0
        BY <1>9a, <4>1
      <4> QED
        BY <1>9, <4>2
    <3>4. Depth' = 0 <=> Owner' = NULL
      <4>1. TableInvariant => (Depth = 0 <=> Owner = NULL)
        BY NoDepth
      <4>2. TableInvariant' => (Depth = 0 <=> Owner = NULL)'
        BY <4>1, NoDepth, PTL
      <4> QED
        BY <1>1, <4>2
    <3> QED
      BY <3>3, <3>4
  <2>2. CASE Top.prod = "subprogram_declaration"
    <3>1. PICK e \in Allocated : symbol[e].fun = 1
      BY <1>3, <2>2 DEF InOrder, FunctionsStay
    <3>2. symbol[e].std_type \notin ProgramType
      BY <3>1 DEF InOrder, FunctionsStay
    <3> QED
      BY <1>7, <3>2
  <2> QED
    BY <1>3, <2>1, <2>2
<1> QED
  BY <1>2, <1>6, <1>8, <1>10, <1>11, <1>12, <1>13 DEF InOrder

\* The head that gets a signature entered a function.
LEMMA HeadIsFunction ==
  ASSUME FrontInvariant, InOrder, NextIs("table"), Head(Top.todo).arg \in HeadCall,
         NEW m, m = size - c
  PROVE  HeadFacts(m) /\ symbol[m].fun = 1
<1>1. /\ ParserInvariant /\ TableInvariant /\ CountFollowsEntries /\ HeadIsLatest
      /\ ParserTypeOK /\ CallsNest /\ PlacesInBodies
  BY DEF FrontInvariant, ParserInvariant, StackInvariant
<1>2. HeadIsEntered
  BY <1>1, CalledInHead DEF HeadCall
<1>3. HeadFacts(m)
  BY <1>1, <1>2, HeadMethod
<1>4. Top.prod = "subprogram_head" /\ Head(Top.todo) = Sym(Head(Top.todo).arg)
  <2>1. Head(Top.todo).arg \in TableCalls(Top.prod) /\ Head(Top.todo) = Sym(Head(Top.todo).arg)
    BY <1>1, CallOfProduction
  <2>2. CASE Top.prod \in HeadParts
    BY <2>1, <2>2, CallsByProduction DEF HeadCall
  <2>3. CASE Top.prod \in InHead \ HeadParts
    BY <2>1, <2>3, CallsByProduction DEF HeadCall
  <2>4. CASE Top.prod = "program"
    BY <2>1, <2>4, CallsByProduction DEF HeadCall
  <2>5. CASE Top.prod \notin InHead \cup {"program", "subprogram_head"}
    BY <2>1, <2>5, CallsByProduction DEF HeadCall
  <2> QED
    BY <2>1, <2>2, <2>3, <2>4, <2>5
<1>5. PICK n : n = Len(stack)
  OBVIOUS
<1>6. /\ n \in Nat \ {0} /\ n \in DOMAIN stack /\ DOMAIN stack = 1 .. n
      /\ Top = stack[n] /\ stack[1].prod = "program" /\ Top.at = "body"
  BY <1>1, <1>5, TopIsFrame, HeadIsStep DEF ParserInvariant, ProgramIsOutermost
<1>7. PICK d : d = n - 1
  OBVIOUS
<1>8. d \in DOMAIN stack /\ d < Len(stack) /\ d + 1 = n
  <2>1. n # 1
    BY <1>4, <1>6
  <2> QED
    BY <1>5, <1>6, <1>7, <2>1
<1>9. stack[d].prod = "subprogram_declaration"
  BY <1>1, <1>4, <1>6, <1>8, CalledByCaller, CallersOfScopes
<1>10. ~Ahead(n, Sym("check_enter_method"))
  <2>1. /\ Len(Top.todo) \in 1 .. 6
        /\ Head(Top.todo) = HeadBody[7 - Len(Top.todo)]
    BY <1>1, <1>4, HeadStep
  <2>2. PICK l \in 1 .. 6 : l = Len(Top.todo)
    BY <2>1
  <2>3. PICK i \in 1 .. 6 : i = 7 - l
    OBVIOUS
  <2>4. HeadBody[i] \in {Sym("set_method_type"), Sym("set_method_param_count")}
    BY <1>4, <2>1, <2>2, <2>3 DEF HeadCall
  <2>5. i = 5 \/ i = 6
    BY <2>4, HeadCalls
  <2>6. ~(l >= 4)
    BY <2>3, <2>5
  <2>7. HeadsAreCounted
    BY <1>1, HeadTodo
  <2>8. Sym("check_enter_method") \in ToSet(stack[n].todo) <=> Len(stack[n].todo) >= 4
    BY <1>4, <1>6, <2>7 DEF HeadsAreCounted
  <2> QED
    BY <1>6, <2>2, <2>6, <2>8 DEF Ahead
<1>11. d \in Owing
  <2>1. Ahead(d, Sym("check_exit_method")) /\ ~Ahead(d, Sub("subprogram_head"))
    BY <1>1, <1>8, <1>9, SubprogramWaits
  <2>2. ~Ahead(d + 1, Sym("check_enter_method"))
    BY <1>8, <1>10
  <2> QED
    BY <1>8, <1>9, <2>1, <2>2 DEF Owing, Owes
<1>12. PICK e \in Allocated : symbol[e].fun = 1
  BY <1>9, <1>11 DEF InOrder, FunctionsStay
<1>13. symbol[m].fun = 1
  <2> SUFFICES ASSUME symbol[m].fun # 1 PROVE FALSE
    OBVIOUS
  <2>1. m \in Allocated /\ symbol[m].fun = 0
    BY <1>1, <1>3 DEF HeadFacts, TableInvariant, TypeOK, Symbol
  <2>2. m = 1
    BY <1>3, <2>1 DEF HeadFacts, InOrder, OneProgram
  <2>3. e \in m + 1 .. size \/ e = m
    BY <1>3, <2>2 DEF HeadFacts, Allocated
  <2> QED
    BY <1>3, <1>12, <2>1, <2>3 DEF HeadFacts
<1> QED
  BY <1>3, <1>13

LEMMA UpdateInOrder ==
  ASSUME FrontInvariant, FrontInvariant', InOrder, TableCall, Head(Top.todo).arg \in HeadCall,
         NEW m, m = size - c, NEW sym, UpdateMethod(sym), c' = c,
         MethodInView = m => sym.param = symbol[m].param /\ sym.fun = 1,
         sym.std_type \in ProgramType => sym.std_type = symbol[MethodInView].std_type
  PROVE  InOrder' /\ symbol_table' # NULL
         /\ \E e \in Allocated' : symbol'[e].std_type \notin ProgramType
<1>1. ParserInvariant /\ TableInvariant /\ TableInvariant' /\ NextIs("table")
  BY DEF FrontInvariant, TableCall
<1>2. HeadFacts(m) /\ symbol[m].fun = 1
  BY <1>1, HeadIsFunction
<1>3. /\ UNCHANGED <<parent, size, symbol_table, sym_eye>> /\ Allocated' = Allocated
      /\ MethodInView = m /\ m \in Allocated /\ symbol'[m] = sym
      /\ \A e \in Allocated : symbol'[e].fun = symbol[e].fun
      /\ \A e \in Allocated : e # m => symbol'[e] = symbol[e]
      /\ Owner' = Owner /\ OneProgram' /\ LeftOnce'
  BY <1>1, <1>2, UpdateMoves DEF InOrder
<1>4. Head(Top.todo).arg \notin {"check_enter_method", "check_exit_method", "check_add_prog_param"}
  BY DEF HeadCall
<1>5. /\ ScopesKept /\ DOMAIN stack' = DOMAIN stack
      /\ \A i \in DOMAIN stack : stack'[i].prod = stack[i].prod
  BY <1>1, <1>4, OtherOwes
<1>6. symbol_table # NULL
  BY <1>1, <1>4, InsideProgram
<1>7. sym.std_type \notin ProgramType
  BY <1>2, <1>3 DEF InOrder, FunctionsStay
<1>8. NamesFirst'
  <2>1. Top.prod \notin {"id_list", "id_list_"}
    BY <1>1, <1>4, IdsInOrder
  <2>2. ~Ahead(1, Sub("program_"))'
    BY <1>1, <1>4, <2>1, OnlyIdsBeforeBody
  <2>3. size > 1
    BY <1>1, <1>4, <2>1, NamesAreRead DEF InOrder
  <2>4. size' > 1
    BY <1>3, <2>3
  <2> QED
    BY <1>1, <2>2, <2>4, NamesGoOn
<1>9. DepthFollows'
  <2>1. Depth' = Depth
    BY <1>1, <1>3, DepthStays
  <2>2. Owing' = Owing
    BY <1>5 DEF ScopesKept
  <2> QED
    BY <2>1, <2>2 DEF DepthFollows, InOrder
<1>10. VariablesFirst'
  <2> SUFFICES ASSUME (\E i \in DOMAIN stack : MayDeclare(i))'
               PROVE  \A e \in Allocated' : parent'[e] = Owner' => symbol'[e].fun = 0
    BY DEF VariablesFirst
  <2>1. \E i \in DOMAIN stack : MayDeclare(i)
    BY <1>5 DEF ScopesKept
  <2>2. \A e \in Allocated : parent[e] = Owner => symbol[e].fun = 0
    BY <2>1 DEF InOrder, VariablesFirst
  <2> QED
    BY <1>3, <2>2
<1>11. FunctionsStay'
  <2>1. \A e \in Allocated' : symbol'[e].fun = 1 => symbol'[e].std_type \notin ProgramType
    <3> SUFFICES ASSUME NEW e \in Allocated, symbol'[e].fun = 1
                 PROVE  symbol'[e].std_type \notin ProgramType
      BY <1>3
    <3>1. CASE e = m
      BY <1>3, <1>7, <3>1
    <3>2. CASE e # m
      BY <1>3, <3>2 DEF InOrder, FunctionsStay
    <3> QED
      BY <3>1, <3>2
  <2>2. \E e \in Allocated' : symbol'[e].fun = 1
    BY <1>2, <1>3
  <2> QED
    BY <2>1, <2>2 DEF FunctionsStay
<1>12. \E e \in Allocated' : symbol'[e].std_type \notin ProgramType
  BY <1>3, <1>7
<1> QED
  BY <1>3, <1>6, <1>8, <1>9, <1>10, <1>11, <1>12 DEF InOrder

\* What the signature of a head leaves of the method.
LEMMA SignatureOfMethod ==
  ASSUME FrontInvariant, InOrder, NextIs("table"), Head(Top.todo).arg \in HeadCall,
         NEW m, m = size - c
  PROVE  /\ MethodInView = m /\ symbol[m] \in Symbol /\ symbol[m].fun = 1
         /\ \A t \in VarType : LET sym == [symbol[m] EXCEPT !.std_type = t, !.fun = 1]
                               IN  /\ sym.param = symbol[m].param /\ sym.fun = 1
                                   /\ sym.std_type = t /\ t \notin ProgramType
         /\ \A n : LET sym == [symbol[m] EXCEPT !.count = n]
                   IN  /\ sym.param = symbol[m].param /\ sym.fun = 1
                       /\ sym.std_type = symbol[m].std_type
<1>1. HeadFacts(m) /\ symbol[m].fun = 1
  BY HeadIsFunction
<1>2. TableInvariant
  BY DEF FrontInvariant
<1>3. MethodInView = m
  BY <1>1, <1>2, ViewInHead
<1>4. symbol[m] \in Symbol
  BY <1>1, <1>2 DEF HeadFacts, TableInvariant, TypeOK
<1>5. PICK s \in Symbol : s = symbol[m] /\ s.fun = 1
  BY <1>1, <1>4
<1>6. ASSUME NEW t \in VarType
      PROVE  LET sym == [s EXCEPT !.std_type = t, !.fun = 1]
             IN  sym.param = s.param /\ sym.fun = 1 /\ sym.std_type = t /\ t \notin ProgramType
  BY <1>5, DeclaredTypesAssumption DEF Symbol
<1>7. ASSUME NEW n
      PROVE  LET sym == [s EXCEPT !.count = n]
             IN  sym.param = s.param /\ sym.fun = 1 /\ sym.std_type = s.std_type
  BY <1>5 DEF Symbol
<1> QED
  BY <1>3, <1>4, <1>5, <1>6, <1>7

LEMMA TableKeepsOrder ==
  ASSUME FrontInvariant, FrontInvariant', InOrder, TableCall, TableFunction(Head(Top.todo).arg)
  PROVE  InOrder'
<1>1. ParserInvariant /\ NextIs("table")
  BY DEF FrontInvariant, TableCall
<1>2. CASE Head(Top.todo).arg = "check_enter_method"
  <2>1. PICK n \in Name : check_enter_method(n)
    BY <1>2 DEF TableFunction
  <2>2. CASE Top.prod = "program"
    BY <1>2, <2>1, <2>2, EnterProgramInOrder
  <2>3. CASE Top.prod # "program"
    BY <1>2, <2>1, <2>3, EnterFunctionInOrder
  <2> QED
    BY <2>2, <2>3
<1>3. CASE Head(Top.todo).arg = "check_exit_method"
  <2>1. check_exit_method
    BY <1>3 DEF TableFunction
  <2> QED
    BY <1>3, <2>1, ExitInOrder
<1>4. CASE Head(Top.todo).arg \in {"check_add_prog_param", "check_add_var", "check_add_fun_param"}
  <2>1. sym_eye # NULL
    BY <1>1, <1>4, InsideProgram
  <2>2. CASE Head(Top.todo).arg = "check_add_prog_param"
    <3>1. PICK n \in Name : AddEntry(n, "PGPARAM", 0)
      BY <2>1, <2>2 DEF TableFunction, check_add_prog_param, check_add_var
    <3>2. "PGPARAM" \in ProgramType
      BY DEF ProgramType
    <3> QED
      BY <2>2, <3>1, <3>2, AddInOrder
  <2>3. CASE Head(Top.todo).arg = "check_add_var"
    <3>1. PICK n \in Name, t \in VarType : AddEntry(n, t, 0)
      BY <2>1, <2>3 DEF TableFunction, check_add_var
    <3>2. Top.prod \notin {"id_list", "id_list_"}
      BY <1>1, <2>3, IdsInOrder
    <3> QED
      BY <2>3, <3>1, <3>2, AddInOrder
  <2>4. CASE Head(Top.todo).arg = "check_add_fun_param"
    <3>1. PICK n \in Name, t \in VarType : AddEntry(n, t, 1)
      BY <2>4 DEF TableFunction, check_add_fun_param
    <3>2. Top.prod \notin {"id_list", "id_list_"}
      BY <1>1, <2>4, IdsInOrder
    <3> QED
      BY <2>4, <3>1, <3>2, AddInOrder
  <2> QED
    BY <1>4, <2>2, <2>3, <2>4
<1>5. CASE Head(Top.todo).arg \in HeadCall
  <2>1. PICK m : m = size - c
    OBVIOUS
  <2>2. MethodInView = m /\ symbol[m].fun = 1
    BY <1>1, <1>5, <2>1, SignatureOfMethod
  <2>3. CASE Head(Top.todo).arg = "set_method_type"
    <3>1. PICK t \in VarType : set_method_type(t) /\ c' = c
      BY <2>3 DEF TableFunction
    <3>2. PICK sym : sym = [symbol[m] EXCEPT !.std_type = t, !.fun = 1]
      OBVIOUS
    <3>3. UpdateMethod(sym)
      BY <2>2, <3>1, <3>2 DEF set_method_type
    <3>4. sym.param = symbol[m].param /\ sym.fun = 1 /\ sym.std_type \notin ProgramType
      BY <1>1, <1>5, <2>1, <3>2, SignatureOfMethod
    <3> QED
      BY <1>5, <2>1, <3>1, <3>3, <3>4, UpdateInOrder
  <2>4. CASE Head(Top.todo).arg = "set_method_param_count"
    <3>1. set_method_param_count(c) /\ c' = c
      BY <2>4 DEF TableFunction
    <3>2. PICK sym : sym = [symbol[m] EXCEPT !.count = c]
      OBVIOUS
    <3>3. UpdateMethod(sym)
      BY <2>2, <3>1, <3>2 DEF set_method_param_count
    <3>4. sym.param = symbol[m].param /\ sym.fun = 1 /\ sym.std_type = symbol[MethodInView].std_type
      BY <1>1, <1>5, <2>1, <2>2, <3>2, SignatureOfMethod
    <3> QED
      BY <1>5, <2>1, <3>1, <3>3, <3>4, UpdateInOrder
  <2> QED
    BY <1>5, <2>3, <2>4 DEF HeadCall
<1> QED
  BY <1>2, <1>3, <1>4, <1>5 DEF TableFunction, HeadCall

\* The other steps leave the table alone, and the names ahead.
LEMMA ParserKeepsOrder ==
  ASSUME FrontInvariant, FrontInvariant', InOrder, ~syntax',
         Switch \/ match \/ Call \/ Return \/ synch \/ Finish, UNCHANGED tableVars
  PROVE  InOrder'
<1>1. ParserInvariant /\ TableInvariant /\ TableInvariant'
  BY DEF FrontInvariant
<1>2. ScopesKept /\ NamesKept
  BY <1>1, ParserKeepsScopes
<1>3. /\ symbol' = symbol /\ next' = next /\ prev' = prev /\ parent' = parent
      /\ child' = child /\ temp' = temp /\ size' = size /\ symbol_table' = symbol_table
      /\ sym_eye' = sym_eye /\ sym_turn' = sym_turn /\ c' = c
  BY DEF tableVars, vars, links
<1>4. Allocated' = Allocated
  BY <1>3 DEF Allocated
<1>5. Owner' = Owner
  BY <1>3 DEF Owner
<1>6. NamesFirst'
  <2>1. stack' # <<>> =>
          /\ Ahead(1, Sym("check_enter_method"))' => size' = 0 /\ c' = 0
          /\ Ahead(1, Sub("program_"))' => \A e \in Allocated' : symbol'[e].std_type \in ProgramType
    BY <1>2, <1>3, <1>4 DEF NamesKept, BeginningKept, InOrder, NamesFirst
  <2>2. ListIsAhead' \/ IdIsAhead' \/ size' > 1
    BY <1>2, <1>3 DEF NamesKept, InOrder, NamesFirst, ListIsAhead, IdIsAhead
  <2> QED
    BY <2>1, <2>2 DEF NamesFirst, ListIsAhead, IdIsAhead
<1>7. DepthFollows'
  <2>1. Depth' = Depth
    BY <1>1, <1>3, <1>5, DepthStays
  <2> QED
    BY <1>2, <2>1 DEF ScopesKept, DepthFollows, InOrder
<1>8. VariablesFirst'
  BY <1>2, <1>3, <1>4, <1>5 DEF ScopesKept, VariablesFirst, InOrder
<1>9. FunctionsStay'
  <2>1. \A e \in Allocated' : symbol'[e].fun = 1 => symbol'[e].std_type \notin ProgramType
    BY <1>3, <1>4 DEF InOrder, FunctionsStay
  <2>2. (\E i \in Owing : stack[i].prod = "subprogram_declaration")' =>
          \E e \in Allocated' : symbol'[e].fun = 1
    <3> SUFFICES ASSUME NEW i \in Owing', stack'[i].prod = "subprogram_declaration"
                 PROVE  \E e \in Allocated' : symbol'[e].fun = 1
      OBVIOUS
    <3>1. i # 1
      <4>1. i \in DOMAIN stack' /\ stack'[1].prod = "program"
        <5>1. ParserInvariant' => (stack' # <<>> => stack'[1].prod = "program")
          BY DEF ParserInvariant, ProgramIsOutermost
        <5>2. i \in DOMAIN stack'
          BY DEF Owing
        <5> QED
          BY <5>1, <5>2 DEF FrontInvariant
      <4> QED
        BY <4>1
    <3>2. i \in Owing /\ i \in DOMAIN stack
      BY <1>2 DEF ScopesKept, Owing
    <3>3. stack[i].prod # "program"
      BY <1>1, <3>1, <3>2, ProgramIsFirst
    <3>4. stack[i].prod = "subprogram_declaration"
      BY <3>2, <3>3 DEF Owing, Owes
    <3> QED
      BY <1>3, <1>4, <3>2, <3>4 DEF InOrder, FunctionsStay
  <2> QED
    BY <2>1, <2>2 DEF FunctionsStay
<1>10. OneProgram' /\ LeftOnce'
  BY <1>3, <1>4 DEF InOrder, OneProgram, LeftOnce, ChildlessMethod
<1> QED
  BY <1>6, <1>7, <1>8, <1>9, <1>10 DEF InOrder

\* A program that is read without errors up to here begins in order.
LEMMA FrontStartsInOrder == FrontInit => InOrder
<1> SUFFICES ASSUME FrontInit PROVE InOrder
  OBVIOUS
<1>1. FrontInvariant /\ TableInvariant
  BY InitFront DEF FrontInvariant
<1>2. /\ size = 0 /\ c = 0 /\ symbol_table = NULL /\ sym_eye = NULL
      /\ stack = <<Frame("program", 0)>>
  BY DEF FrontInit, Init, ParserInit
<1>3. /\ stack # <<>> /\ DOMAIN stack = {1}
      /\ stack[1].prod = "program" /\ stack[1].at = "switch"
  BY <1>2 DEF Frame
<1>4. \A s : Ahead(1, s)
  BY <1>3 DEF Ahead
<1>5. Allocated = {}
  BY <1>2 DEF Allocated
<1>6. NamesFirst
  BY <1>2, <1>3, <1>4, <1>5 DEF NamesFirst
<1>7. Owing = {}
  BY <1>3, <1>4 DEF Owing, Owes
<1>8. DepthFollows
  <2>1. Owner = NULL
    BY <1>2 DEF Owner
  <2>2. Depth = 0
    BY <1>1, <2>1, NoDepth
  <2> QED
    BY <1>7, <2>2, FS_EmptySet DEF DepthFollows
<1>9. VariablesFirst /\ FunctionsStay
  BY <1>5, <1>7 DEF VariablesFirst, FunctionsStay
<1>10. OneProgram /\ LeftOnce
  BY <1>2, <1>5 DEF OneProgram, LeftOnce
<1> QED
  BY <1>6, <1>8, <1>9, <1>10 DEF InOrder

\* An error that was reported stays reported.
LEMMA ErrorsStay ==
  ASSUME [FrontNext]_allVars, syntax
  PROVE  syntax'
<1>1. CASE FrontNext
  <2>1. CASE Switch \/ match
    BY <2>1 DEF Switch, match, synerr
  <2>2. CASE Call \/ TableCall \/ Return \/ synch \/ Finish
    BY <2>2 DEF Call, TableCall, Return, synch, Finish
  <2> QED
    BY <1>1, <2>1, <2>2 DEF FrontNext
<1>2. CASE UNCHANGED allVars
  BY <1>2 DEF allVars, parserVars
<1> QED
  BY <1>1, <1>2

LEMMA OrderKept ==
  FrontInvariant /\ FrontInvariant' /\ CallsInOrder /\ [FrontNext]_allVars => CallsInOrder'
<1> SUFFICES ASSUME FrontInvariant, FrontInvariant', CallsInOrder, [FrontNext]_allVars, ~syntax'
             PROVE  InOrder'
  BY DEF CallsInOrder, InOrder
<1>1. InOrder
  BY ErrorsStay DEF CallsInOrder, InOrder
<1>2. CASE (Switch \/ match \/ Call \/ Return \/ synch \/ Finish) /\ UNCHANGED tableVars
  BY <1>1, <1>2, ParserKeepsOrder
<1>3. CASE TableCall /\ TableFunction(Head(Top.todo).arg)
  BY <1>1, <1>3, TableKeepsOrder
<1>4. CASE UNCHANGED allVars
  <2>1. /\ stack' = stack /\ symbol' = symbol /\ parent' = parent /\ child' = child /\ temp' = temp
        /\ size' = size /\ symbol_table' = symbol_table /\ sym_eye' = sym_eye
        /\ sym_turn' = sym_turn /\ c' = c
    BY <1>4 DEF allVars, parserVars, tableVars, vars, links
  <2>2. Allocated' = Allocated /\ Owner' = Owner
    BY <2>1 DEF Allocated, Owner
  <2>3. Depth' = Depth
    <3>1. TableInvariant /\ TableInvariant'
      BY DEF FrontInvariant
    <3> QED
      BY <2>1, <2>2, <3>1, DepthStays
  <2>4. /\ \A i, s : Ahead(i, s)' <=> Ahead(i, s)
        /\ \A i : Owes(i)' <=> Owes(i)
    BY <2>1 DEF Owes, Ahead
  <2>5. Owing' = Owing
    BY <2>1, <2>4 DEF Owing
  <2>6. \A i : MayDeclare(i)' <=> MayDeclare(i)
    BY <2>1, <2>4 DEF MayDeclare
  <2>7. NamesFirst'
    BY <1>1, <2>1, <2>2, <2>4 DEF NamesFirst, InOrder
  <2>8. DepthFollows' /\ FunctionsStay'
    BY <1>1, <2>1, <2>2, <2>3, <2>5 DEF DepthFollows, FunctionsStay, InOrder
  <2>9. VariablesFirst'
    BY <1>1, <2>1, <2>2, <2>6 DEF VariablesFirst, InOrder
  <2>10. OneProgram' /\ LeftOnce'
    BY <1>1, <2>1, <2>2 DEF OneProgram, LeftOnce, ChildlessMethod, InOrder
  <2> QED
    BY <2>7, <2>8, <2>9, <2>10 DEF InOrder
<1> QED
  BY <1>2, <1>3, <1>4 DEF FrontNext

\* The calls come in order as long as there is no syntax error: names first,
\* variables before functions, and every scope left by the call that entered it.
THEOREM CallsComeInOrder == FrontSpec => []CallsInOrder
<1>1. FrontInit => CallsInOrder
  BY FrontStartsInOrder DEF CallsInOrder, InOrder
<1> QED
  BY <1>1, OrderKept, FrontIsSound, PTL DEF FrontSpec

\* Parser and table lie to each other as FrontOrder says: a head that is read is
\* what was entered last, on every source, and the calls come in order.
THEOREM FrontendIsInOrder == FrontSpec => []FrontOrder
<1>1. FrontInvariant /\ CallsInOrder => FrontOrder
  BY DEF FrontInvariant, FrontOrder
<1> QED
  BY <1>1, FrontIsSound, CallsComeInOrder, PTL

-----------------------------------------------------------------------------
(* Every method is left.                                                   *)

DoneIsOver == outcome = "done" => stack = <<>>

LEMMA DoneStaysOver == DoneIsOver /\ [FrontNext]_allVars => DoneIsOver'
<1> SUFFICES ASSUME DoneIsOver, [FrontNext]_allVars, outcome' = "done" PROVE stack' = <<>>
  BY DEF DoneIsOver
<1>1. CASE Switch \/ match \/ Call \/ TableCall \/ Return \/ synch
  BY <1>1 DEF Switch, match, Call, TableCall, Return, synch, NextIs, InBody, InSynch, Running
<1>2. CASE Finish
  BY <1>2 DEF Finish
<1>3. CASE UNCHANGED allVars
  BY <1>3 DEF allVars, parserVars, DoneIsOver
<1> QED
  BY <1>1, <1>2, <1>3 DEF FrontNext

\* A source that is read to its end without a syntax error has every method
\* left that it entered, and the eye is in the program still.
THEOREM MethodsAreLeft == FrontSpec => []EveryMethodIsLeft
<1>1. FrontInit => DoneIsOver
  BY DEF FrontInit, ParserInit, DoneIsOver
<1>2. DoneIsOver /\ CallsInOrder /\ FrontInvariant => EveryMethodIsLeft
  <2> SUFFICES ASSUME DoneIsOver, CallsInOrder, FrontInvariant, outcome = "done", ~syntax
               PROVE  Owner = NULL /\ sym_eye # NULL
    BY DEF EveryMethodIsLeft
  <2>1. stack = <<>> /\ DOMAIN stack = {}
    BY EmptySeq DEF DoneIsOver
  <2>2. NamesFirst /\ DepthFollows /\ OneProgram
    BY DEF CallsInOrder
  <2>3. size > 1
    BY <2>1, <2>2 DEF NamesFirst
  <2>4. sym_eye # NULL
    <3>1. size \in Nat
      BY DEF FrontInvariant, TableInvariant, TypeOK
    <3> QED
      BY <2>2, <2>3, <3>1 DEF OneProgram
  <2>5. Owing = {}
    BY <2>1 DEF Owing
  <2>6. Depth = 0
    BY <2>2, <2>5, FS_EmptySet DEF DepthFollows
  <2> QED
    BY <2>4, <2>6, NoDepth DEF FrontInvariant
<1> QED
  BY <1>1, <1>2, DoneStaysOver, CallsComeInOrder, FrontIsSound, PTL DEF FrontSpec

-----------------------------------------------------------------------------
(* The table of Declarations.tla is that of SymbolTable.tla.               *)

LEMMA SameLookup == \A n, s : Discipline!get_symbol(n, s) = get_symbol(n, s)
<1>1. \A e : Discipline!EndOfScope(e) = EndOfScope(e)
  BY DEF Discipline!EndOfScope, EndOfScope, Discipline!Link, Link, Discipline!Entry, Entry,
         Discipline!NULL, NULL
<1>2. \A e, stop, name : Discipline!SearchFrom(e, stop, name) = SearchFrom(e, stop, name)
  BY DEF Discipline!SearchFrom, SearchFrom, Discipline!Before, Before,
         Discipline!EndOfScope, EndOfScope, Discipline!Link, Link, Discipline!Entry, Entry,
         Discipline!NULL, NULL
<1>3. \A s : Discipline!StopCondition(s) = StopCondition(s)
  BY DEF Discipline!StopCondition, StopCondition, Discipline!ChildlessMethod, ChildlessMethod,
         Discipline!NULL, NULL
<1> QED
  BY <1>1, <1>2, <1>3 DEF Discipline!get_symbol, get_symbol, Discipline!NULL, NULL

LEMMA SameEntry ==
  \A sym, where : Discipline!NewEntry(sym, where) <=> NewEntry(sym, where)
BY DEF Discipline!NewEntry, NewEntry, Discipline!HangBelow, HangBelow,
       Discipline!HangAfter, HangAfter

LEMMA SamePlace == Discipline!Place = Place /\ Discipline!NULL = NULL
BY DEF Discipline!Place, Place, Discipline!NULL, NULL

LEMMA SameEnter ==
  ASSUME NEW n, check_enter_method(n) PROVE Discipline!check_enter_method(n)
BY SameLookup, SameEntry, SamePlace
   DEF Discipline!check_enter_method, check_enter_method, Discipline!semerr, semerr,
       Discipline!MethodSymbol, MethodSymbol

LEMMA SameExit == check_exit_method => Discipline!check_exit_method
BY SamePlace DEF Discipline!check_exit_method, check_exit_method, Discipline!semerr, semerr,
       Discipline!Climb, Climb, Discipline!ChildlessMethod, ChildlessMethod, Discipline!links, links

LEMMA SameAdd ==
  ASSUME NEW n, NEW t, NEW p, AddEntry(n, t, p) PROVE Discipline!AddEntry(n, t, p)
BY SameLookup, SameEntry, SamePlace
   DEF Discipline!AddEntry, AddEntry, Discipline!semerr, semerr

LEMMA SameUpdate ==
  ASSUME NEW sym, UpdateMethod(sym) PROVE Discipline!UpdateMethod(sym)
BY SamePlace DEF Discipline!UpdateMethod, UpdateMethod, Discipline!MethodInView, MethodInView,
   Discipline!links, links

\* What is inside a method is the same too.
LEMMA SameScope ==
  /\ Discipline!Owner = Owner
  /\ \A m : Discipline!Inside(m) = {e \in Allocated : parent[e] = m}
<1>1. Discipline!Owner = Owner
  BY DEF Discipline!Owner, Owner, Discipline!NULL, NULL
<1>2. \A m : Discipline!Inside(m) = {e \in Allocated : parent[e] = m}
  BY DEF Discipline!Inside, Discipline!Allocated, Allocated
<1> QED
  BY <1>1, <1>2

-----------------------------------------------------------------------------
(* The phases of Declarations.tla.                                         *)

OnlyNames == \A e \in Allocated : symbol[e].std_type \in ProgramType

\* They exclude each other.
PhaseRule ==
  /\ EnteredWith("set_method_type") => HeadIsEntered
  /\ Phase = "start" <=> symbol_table = NULL
  /\ EnteredWith("set_method_type") => Phase = "head"
  /\ HeadIsEntered /\ ~EnteredWith("set_method_type") => Phase = "typed"
  /\ symbol_table # NULL /\ ~HeadIsEntered /\ Owner # NULL /\ OnlyNames => Phase = "ids"
  /\ symbol_table # NULL /\ ~HeadIsEntered /\ ~(Owner # NULL /\ OnlyNames) => Phase = "body"

LEMMA PhaseHolds == FrontInvariant /\ InOrder => PhaseRule
<1> SUFFICES ASSUME FrontInvariant, InOrder PROVE PhaseRule
  OBVIOUS
<1> DEFINE typing == EnteredWith("set_method_type")
<1>1. typing => HeadIsEntered
  <2>1. EnteredAreCounted
    BY EnteredCounted DEF FrontInvariant, ParserInvariant, StackInvariant
  <2>2. ASSUME NEW i \in DOMAIN stack, stack[i].prod = "subprogram_head", typing
        PROVE  HeadIsEntered
    <3>1. Len(stack[i].todo) \in 1 .. 3
      BY <2>1, <2>2 DEF EnteredAreCounted, HeadCall
    <3> QED
      BY <2>1, <2>2, <3>1 DEF EnteredAreCounted, HeadCall, HeadIsEntered
  <2> QED
    BY <2>2 DEF EnteredWith
<1>2. HeadIsEntered => symbol_table # NULL
  <2> SUFFICES ASSUME HeadIsEntered PROVE symbol_table # NULL
    OBVIOUS
  <2>1. size \in Nat /\ c \in Nat /\ c < size
    BY DEF FrontInvariant, TableInvariant, TypeOK, CountFollowsEntries, HeadIsLatest
  <2> QED
    BY <2>1 DEF InOrder, OneProgram
<1>3. Owner # NULL => symbol_table # NULL
  <2>1. size \in Nat
    BY DEF FrontInvariant, TableInvariant, TypeOK
  <2> QED
    BY <2>1 DEF InOrder, OneProgram, Owner
<1> HIDE DEF typing
<1>4. Phase = CASE symbol_table = NULL -> "start"
               [] typing -> "head"
               [] HeadIsEntered /\ ~typing -> "typed"
               [] ~HeadIsEntered /\ Owner # NULL /\ OnlyNames -> "ids"
               [] OTHER -> "body"
  BY DEF Phase, OnlyNames, typing
<1>5. /\ Phase = "start" <=> symbol_table = NULL
      /\ typing => Phase = "head"
      /\ HeadIsEntered /\ ~typing => Phase = "typed"
      /\ symbol_table # NULL /\ ~HeadIsEntered /\ Owner # NULL /\ OnlyNames => Phase = "ids"
      /\ symbol_table # NULL /\ ~HeadIsEntered /\ ~(Owner # NULL /\ OnlyNames) => Phase = "body"
  BY <1>1, <1>2, <1>3, <1>4
<1> QED
  BY <1>1, <1>5 DEF PhaseRule, typing

\* The steps that are no call of symbol_table.c do not change it.
LEMMA ParserKeepsPhase ==
  ASSUME FrontInvariant, InOrder, PhaseRule, PhaseRule',
         Switch \/ match \/ Call \/ Return \/ synch \/ Finish, UNCHANGED tableVars
  PROVE  UNCHANGED <<vars, Phase, c>>
<1>1. UNCHANGED vars /\ c' = c
  BY DEF tableVars
<1>2. /\ symbol' = symbol /\ parent' = parent /\ size' = size /\ symbol_table' = symbol_table
      /\ sym_eye' = sym_eye /\ sym_turn' = sym_turn
  BY <1>1 DEF vars, links
<1>3. Owner' = Owner /\ (OnlyNames' <=> OnlyNames)
  BY <1>2 DEF Owner, OnlyNames, Allocated
<1>4. /\ EnteredWith("set_method_type")' <=> EnteredWith("set_method_type")
      /\ HeadIsEntered' <=> HeadIsEntered
  BY EnteredKept DEF FrontInvariant, HeadCall, HeadIsEntered
<1>5. Phase' = Phase
  <2>1. CASE symbol_table = NULL
    BY <1>2, <2>1 DEF PhaseRule
  <2>2. CASE symbol_table # NULL /\ HeadIsEntered
    BY <1>4, <2>2 DEF PhaseRule
  <2>3. CASE symbol_table # NULL /\ ~HeadIsEntered
    BY <1>2, <1>3, <1>4, <2>3 DEF PhaseRule
  <2> QED
    BY <2>1, <2>2, <2>3
<1> QED
  BY <1>1, <1>5

-----------------------------------------------------------------------------
(* The calls are those of Declarations.tla.                                *)

\* Behind the names the parser is inside a method that has entries, or past a
\* declaration.
LEMMA BehindNames ==
  ASSUME FrontInvariant, InOrder, PhaseRule, NextIs("table"), ~HeadIsEntered,
         Top.prod \notin {"id_list", "id_list_"},
         ~(Top.prod = "program" /\ Head(Top.todo).arg = "check_enter_method")
  PROVE  Discipline!InBody
<1>1. ParserInvariant /\ TableInvariant
  BY DEF FrontInvariant
<1>2. Owner # NULL /\ symbol_table # NULL /\ size \in Nat
  BY <1>1, InsideProgram
<1>3. size > 1
  BY <1>1, NamesAreRead DEF InOrder
<1>4. ASSUME Phase # "body" PROVE Discipline!Inside(Owner) # {}
  <2>1. OnlyNames
    BY <1>2, <1>4 DEF PhaseRule
  <2>2. \A i \in Owing : stack[i].prod # "subprogram_declaration"
    BY <2>1 DEF InOrder, FunctionsStay, OnlyNames
  <2>3. \A i \in Owing : i = 1
    <3> SUFFICES ASSUME NEW i \in Owing PROVE i = 1
      OBVIOUS
    <3>1. i \in DOMAIN stack /\ stack[i].prod = "program"
      BY <2>2 DEF Owing, Owes
    <3> QED
      BY <1>1, <3>1, ProgramIsFirst
  <2>4. 1 \in Owing
    BY <1>1, ProgramIsOwed
  <2>5. Owing = {1}
    BY <2>3, <2>4
  <2>6. Depth = 1
    BY <2>5, FS_Singleton DEF InOrder, DepthFollows
  <2>7. PICK o : o = Owner /\ o \in Entry /\ o \in Allocated
    BY <1>1, <1>2, AllocatedHangs
  <2>8. PICK p : p = parent[o] /\ p \in Link /\ p \in Allocated \cup {NULL}
    BY <1>1, <2>7, AllocatedHangs DEF Link
  <2>9. DepthOf(o) = 1 + DepthOf(p) /\ DepthOf(p) \in Nat
    BY <1>1, <2>7, <2>8, DepthHolds DEF DepthRule
  <2>10. DepthOf(p) = 0
    <3>1. DepthOf(o) = 1
      BY <2>6, <2>7 DEF Depth
    <3> QED
      BY <2>9, <3>1
  <2>11. p = NULL
    <3> SUFFICES ASSUME p # NULL PROVE FALSE
      OBVIOUS
    <3>1. p \in Entry
      BY <2>8 DEF Link
    <3>2. PICK q : q = parent[p] /\ q \in Link
      BY <1>1, <2>8, AllocatedHangs DEF Link
    <3>3. DepthOf(p) = 1 + DepthOf(q) /\ DepthOf(q) \in Nat
      BY <1>1, <3>1, <3>2, DepthHolds DEF DepthRule
    <3> QED
      BY <2>10, <3>3
  <2>12. Owner = 1
    BY <2>7, <2>8, <2>11 DEF InOrder, OneProgram
  <2>13. 2 \in Allocated
    BY <1>2, <1>3 DEF Allocated
  <2>14. parent[2] = 1
    <3>1. parent[2] \in Allocated \cup {NULL} /\ parent[2] < 2 /\ Allocated \subseteq Nat
      BY <1>1, <2>13, AllocatedHangs
    <3>2. parent[2] # NULL
      <4>1. 2 # 1
        OBVIOUS
      <4> QED
        BY <2>13, <4>1 DEF InOrder, OneProgram
    <3>3. PICK q : q = parent[2]
      OBVIOUS
    <3>4. q \in Nat /\ q # 0 /\ q < 2
      BY <3>1, <3>2, <3>3 DEF NULL
    <3> QED
      BY <3>3, <3>4
  <2> QED
    BY <2>12, <2>13, <2>14, SameScope
<1>5. Phase \in {"ids", "body"}
  BY <1>2 DEF PhaseRule
<1>6. Discipline!Owner # Discipline!NULL
  BY <1>2, SameScope, SamePlace
<1> QED
  BY <1>4, <1>5, <1>6, SameScope DEF Discipline!InBody

\* A call of symbol_table.c is the step of Declarations.tla that it is
\* expected to be.
LEMMA TableKeepsDiscipline ==
  ASSUME FrontInvariant, FrontInvariant', InOrder, InOrder', PhaseRule, PhaseRule',
         TableCall, TableFunction(Head(Top.todo).arg)
  PROVE  Discipline!DeclNext
<1> DEFINE arg == Head(Top.todo).arg
<1>1. /\ ParserInvariant /\ TableInvariant /\ NextIs("table")
      /\ ParserTypeOK /\ PlacesInBodies
  BY DEF FrontInvariant, TableCall, ParserInvariant, StackInvariant
<1>2. Entering \/ Typing \/ Counting \/ Parametrised \/ Outside
  BY <1>1, TableCallsInOrder
<1>3. CASE arg = "check_enter_method"
  <2>1. PICK n \in Name : check_enter_method(n) /\ c' = 0
    BY <1>3 DEF TableFunction
  <2>2. Entering
    BY <1>2, <1>3 DEF Typing, Counting, Parametrised, Outside
  <2>3. Discipline!check_enter_method(n)
    BY <2>1, SameEnter
  <2>4. CASE Top.prod = "program"
    <3>1. /\ size = 0 /\ c = 0 /\ Owner' # NULL /\ symbol_table' # NULL
          /\ \A e \in Allocated' : symbol'[e].std_type \in ProgramType
      BY <1>3, <2>1, <2>4, EnterProgramInOrder
    <3>2. Phase = "start"
      BY <3>1 DEF PhaseRule, InOrder, OneProgram
    <3>3. ~HeadIsEntered'
      BY <2>2, <2>4 DEF Entering
    <3>4. OnlyNames'
      BY <3>1 DEF OnlyNames
    <3>5. Phase' = "ids"
      BY <3>1, <3>3, <3>4 DEF PhaseRule
    <3>6. Discipline!EnterProgram(n)
      BY <2>1, <2>3, <3>1, <3>2, <3>5 DEF Discipline!EnterProgram
    <3> QED
      BY <3>6 DEF Discipline!DeclNext
  <2>5. CASE Top.prod # "program"
    <3>1. Top.prod = "subprogram_head" /\ EnteredWith("set_method_type")'
      BY <2>2, <2>5 DEF Entering
    <3>2. ~HeadIsEntered
      BY <2>2 DEF Entering, HeadCall, HeadIsEntered
    <3>3. Discipline!InBody
      BY <1>1, <2>5, <3>1, <3>2, BehindNames
    <3>4. Phase' = "head"
      BY <3>1 DEF PhaseRule
    <3>5. Discipline!EnterFunction(n)
      BY <2>1, <2>3, <3>3, <3>4 DEF Discipline!EnterFunction
    <3> QED
      BY <3>5 DEF Discipline!DeclNext
  <2> QED
    BY <2>4, <2>5
<1>4. CASE arg = "check_exit_method"
  <2>1. check_exit_method /\ c' = c
    BY <1>4 DEF TableFunction
  <2>2. ~HeadIsEntered /\ ~HeadIsEntered'
    BY <1>2, <1>4 DEF Entering, Typing, Counting, Parametrised, Outside
  <2>3. Top.prod \notin {"id_list", "id_list_"}
    BY <1>1, <1>4, IdsInOrder
  <2>4. Discipline!InBody
    BY <1>1, <1>4, <2>2, <2>3, BehindNames
  <2>5. Phase' = "body"
    <3>1. /\ symbol_table' # NULL
          /\ Owner' = NULL \/ \E e \in Allocated' : symbol'[e].std_type \notin ProgramType
      BY <1>4, <2>1, ExitInOrder
    <3>2. ~(Owner' # NULL /\ OnlyNames')
      BY <3>1 DEF OnlyNames
    <3> QED
      BY <2>2, <3>1, <3>2 DEF PhaseRule
  <2>6. Discipline!Exit
    BY <2>1, <2>4, <2>5, SameExit DEF Discipline!Exit
  <2> QED
    BY <2>6 DEF Discipline!DeclNext
<1>5. CASE arg = "check_add_prog_param"
  <2>1. Owner # NULL /\ sym_eye # NULL /\ symbol_table # NULL
    BY <1>1, <1>5, InsideProgram
  <2>2. PICK n \in Name : AddEntry(n, "PGPARAM", 0) /\ c' = c
    BY <1>5, <2>1 DEF TableFunction, check_add_prog_param, check_add_var
  <2>3. ~HeadIsEntered /\ ~HeadIsEntered'
    BY <1>2, <1>5 DEF Entering, Typing, Counting, Parametrised, Outside
  <2>4. OnlyNames
    BY <1>1, <1>5, IdsInOrder DEF InOrder, NamesFirst, OnlyNames
  <2>5. Phase = "ids"
    BY <2>1, <2>3, <2>4 DEF PhaseRule
  <2>6. "PGPARAM" \in ProgramType
    BY DEF ProgramType
  <2>7. symbol_table' # NULL /\ Owner' # NULL /\ OnlyNames'
    BY <1>5, <2>2, <2>4, <2>6, AddInOrder DEF OnlyNames
  <2>8. Phase' = "ids"
    BY <2>3, <2>7 DEF PhaseRule
  <2>9. Discipline!AddProgParam(n)
    BY <2>2, <2>5, <2>8, SameAdd
       DEF Discipline!AddProgParam, Discipline!check_add_prog_param, Discipline!check_add_var
  <2> QED
    BY <2>9 DEF Discipline!DeclNext
<1>6. CASE arg = "check_add_var"
  <2>1. Owner # NULL /\ sym_eye # NULL /\ symbol_table # NULL
    BY <1>1, <1>6, InsideProgram
  <2>2. PICK n \in Name, t \in VarType : AddEntry(n, t, 0) /\ c' = c
    BY <1>6, <2>1 DEF TableFunction, check_add_var
  <2>3. ~HeadIsEntered /\ ~HeadIsEntered'
    BY <1>2, <1>6 DEF Entering, Typing, Counting, Parametrised, Outside
  <2>4. Top.prod \notin {"id_list", "id_list_"}
    BY <1>1, <1>6, IdsInOrder
  <2>5. Discipline!InBody
    BY <1>1, <1>6, <2>3, <2>4, BehindNames
  <2>6. \A e \in Discipline!Inside(Discipline!Owner) : symbol[e].fun = 0
    <3>1. Top.prod \in {"declarations", "declarations_"}
      <4>1. Top.prod \in TableCallers(arg)
        BY <1>1, StepOfProduction
      <4> QED
        BY <1>6, <4>1 DEF TableCallers
    <3>2. Len(stack) \in DOMAIN stack /\ Top = stack[Len(stack)]
      BY <1>1, HeadIsStep, TopIsFrame
    <3>3. MayDeclare(Len(stack))
      BY <3>1, <3>2 DEF MayDeclare
    <3>4. \A e \in Allocated : parent[e] = Owner => symbol[e].fun = 0
      BY <3>2, <3>3 DEF InOrder, VariablesFirst
    <3> QED
      BY <3>4, SameScope
  <2>7. Phase' = "body"
    <3>1. symbol_table' # NULL /\ \E e \in Allocated' : symbol'[e].std_type = t
      BY <1>6, <2>2, <2>4, AddInOrder
    <3>2. ~OnlyNames'
      BY <3>1, DeclaredTypesAssumption DEF OnlyNames
    <3> QED
      BY <2>3, <3>1, <3>2 DEF PhaseRule
  <2>8. Discipline!AddVar(n, t)
    BY <2>2, <2>5, <2>6, <2>7, SameAdd DEF Discipline!AddVar, Discipline!check_add_var
  <2> QED
    BY <2>8 DEF Discipline!DeclNext
<1>7. CASE arg = "check_add_fun_param"
  <2>1. PICK n \in Name, t \in VarType : AddEntry(n, t, 1) /\ c' = c + 1
    BY <1>7 DEF TableFunction, check_add_fun_param
  <2>2. EnteredWith("set_method_type") /\ EnteredWith("set_method_type")'
    BY <1>2, <1>7 DEF Entering, Typing, Counting, Parametrised, Outside
  <2>3. Phase = "head" /\ Phase' = "head"
    BY <2>2 DEF PhaseRule
  <2>4. Discipline!AddFunParam(n, t)
    BY <2>1, <2>3, SameAdd DEF Discipline!AddFunParam, Discipline!check_add_fun_param
  <2> QED
    BY <2>4 DEF Discipline!DeclNext
<1>8. CASE arg = "set_method_type"
  <2>1. PICK t \in VarType : set_method_type(t) /\ c' = c
    BY <1>8 DEF TableFunction
  <2>2. Typing
    BY <1>2, <1>8 DEF Entering, Counting, Parametrised, Outside
  <2>3. Phase = "head" /\ Phase' = "typed"
    BY <2>2 DEF Typing, PhaseRule
  <2>4. Discipline!set_method_type(t)
    BY <2>1, SameUpdate, SamePlace
       DEF Discipline!set_method_type, set_method_type, Discipline!MethodInView, MethodInView
  <2>5. Discipline!SetMethodType(t)
    BY <2>1, <2>3, <2>4 DEF Discipline!SetMethodType
  <2> QED
    BY <2>5 DEF Discipline!DeclNext
<1>9. CASE arg = "set_method_param_count"
  <2>1. set_method_param_count(c) /\ c' = c
    BY <1>9 DEF TableFunction
  <2>2. Counting
    BY <1>2, <1>9 DEF Entering, Typing, Parametrised, Outside
  <2>3. Phase = "typed"
    BY <2>2 DEF Counting, PhaseRule
  <2>4. Phase' = "body"
    <3>1. PICK m : m = size - c
      OBVIOUS
    <3>2. arg \in HeadCall
      BY <1>9 DEF HeadCall
    <3>3. MethodInView = m
      BY <1>1, <3>1, <3>2, SignatureOfMethod
    <3>4. PICK sym : sym = [symbol[m] EXCEPT !.count = c]
      OBVIOUS
    <3>5. UpdateMethod(sym)
      BY <2>1, <3>3, <3>4 DEF set_method_param_count
    <3>6. sym.param = symbol[m].param /\ sym.fun = 1 /\ sym.std_type = symbol[MethodInView].std_type
      BY <1>1, <3>1, <3>2, <3>3, <3>4, SignatureOfMethod
    <3>7. symbol_table' # NULL /\ ~OnlyNames'
      BY <2>1, <3>1, <3>2, <3>5, <3>6, UpdateInOrder DEF OnlyNames
    <3>8. ~HeadIsEntered'
      BY <2>2 DEF Counting
    <3> QED
      BY <3>7, <3>8 DEF PhaseRule
  <2>5. Discipline!set_method_param_count(c)
    BY <2>1, SameUpdate, SamePlace
       DEF Discipline!set_method_param_count, set_method_param_count,
           Discipline!MethodInView, MethodInView
  <2>6. Discipline!SetMethodParamCount
    BY <2>1, <2>3, <2>4, <2>5 DEF Discipline!SetMethodParamCount
  <2> QED
    BY <2>6 DEF Discipline!DeclNext
<1> QED
  BY <1>3, <1>4, <1>5, <1>6, <1>7, <1>8, <1>9 DEF TableFunction

LEMMA StepKeepsDiscipline ==
  FrontInvariant /\ FrontInvariant' /\ CallsInOrder /\ CallsInOrder' /\ [FrontNext]_allVars
  => [~syntax' => Discipline!DeclNext]_<<vars, Phase, c>>
<1> SUFFICES ASSUME FrontInvariant, FrontInvariant', CallsInOrder, CallsInOrder',
                    [FrontNext]_allVars, ~syntax'
             PROVE  Discipline!DeclNext \/ UNCHANGED <<vars, Phase, c>>
  OBVIOUS
<1>1. InOrder /\ InOrder'
  BY ErrorsStay DEF CallsInOrder, InOrder
<1>2. PhaseRule /\ PhaseRule'
  <2>1. FrontInvariant' /\ InOrder' => PhaseRule'
    BY PhaseHolds, PTL
  <2> QED
    BY <1>1, <2>1, PhaseHolds
<1>3. CASE (Switch \/ match \/ Call \/ Return \/ synch \/ Finish) /\ UNCHANGED tableVars
  BY <1>1, <1>2, <1>3, ParserKeepsPhase
<1>4. CASE TableCall /\ TableFunction(Head(Top.todo).arg)
  BY <1>1, <1>2, <1>4, TableKeepsDiscipline
<1>5. CASE UNCHANGED allVars
  <2>1. UNCHANGED vars /\ c' = c /\ stack' = stack
    BY <1>5 DEF allVars, parserVars, tableVars
  <2>2. /\ symbol' = symbol /\ parent' = parent /\ size' = size /\ symbol_table' = symbol_table
        /\ sym_eye' = sym_eye /\ sym_turn' = sym_turn
    BY <2>1 DEF vars, links
  <2>3. Owner' = Owner /\ (OnlyNames' <=> OnlyNames)
    BY <2>2 DEF Owner, OnlyNames, Allocated
  <2>4. /\ EnteredWith("set_method_type")' <=> EnteredWith("set_method_type")
        /\ HeadIsEntered' <=> HeadIsEntered
    BY <2>1 DEF EnteredWith, HeadIsEntered
  <2>5. Phase' = Phase
    BY <1>2, <2>2, <2>3, <2>4 DEF PhaseRule
  <2> QED
    BY <2>1, <2>5
<1> QED
  BY <1>3, <1>4, <1>5 DEF FrontNext

LEMMA StartKeepsDiscipline == FrontInit => Discipline!DeclInit
<1> SUFFICES ASSUME FrontInit PROVE Discipline!DeclInit
  OBVIOUS
<1>1. Init /\ c = 0
  BY DEF FrontInit
<1>2. Discipline!Init
  BY <1>1 DEF Init, Discipline!Init, Discipline!Nowhere, Nowhere, Discipline!Entry, Entry,
              Discipline!NULL, NULL
<1>3. Phase = "start"
  BY <1>1, InitFront, FrontStartsInOrder, PhaseHolds DEF Init, PhaseRule
<1> QED
  BY <1>1, <1>2, <1>3 DEF Discipline!DeclInit

\* As long as there is no syntax error the parser is a caller as
\* Declarations.tla assumes it, in the phase that its stack and the table say:
\* all that is checked and proved there holds of every correct program.
THEOREM ParserKeepsDiscipline == FrontSpec => KeepsDiscipline
BY StartKeepsDiscipline, StepKeepsDiscipline, FrontIsSound, CallsComeInOrder, PTL
   DEF FrontSpec, KeepsDiscipline

\* A program without syntax errors is a behaviour of Declarations.tla.
THEOREM CorrectProgramsAreDeclarations == FrontSpec /\ []~syntax => Discipline!DeclSpec
<1>1. ~syntax' /\ [~syntax' => Discipline!DeclNext]_<<vars, Phase, c>>
      => [Discipline!DeclNext]_(Discipline!declVars)
  BY DEF Discipline!declVars, Discipline!vars, vars, Discipline!links, links
<1> QED
  BY <1>1, ParserKeepsDiscipline, PTL DEF KeepsDiscipline, Discipline!DeclSpec

-----------------------------------------------------------------------------
(* The count of parameters, as it is handed up.                            *)

LEMMA CountersAreParts ==
  /\ HandsUp = HeadParts /\ Counters = HeadParts \cup {"subprogram_head"}
  /\ "subprogram_head" \notin InHead /\ HeadParts \subseteq InHead
  /\ "param_list_" \in HeadParts /\ "program" \notin Counters
BY DEF HandsUp, HeadParts, Counters, InHead

\* The running call that counts, at a step: where it is in its body.
LEMMA PlaceOfCounter ==
  ASSUME ParserTypeOK, PlacesInBodies, NEW op, NextIs(op), Top.prod \in Counters
  PROVE  \E a \in Rules[Top.prod] : \E k \in 0 .. Len(a.body) :
           /\ Top.prod \in Production /\ a.body \in Seq(Step)
           /\ k + 1 \in DOMAIN a.body /\ DOMAIN a.body = 1 .. Len(a.body)
           /\ a.body[k + 1] = Head(Top.todo)
           /\ Advanced.todo = SubSeq(a.body, k + 1 + 1, Len(a.body))
<1>1. PICK a \in Rules[Top.prod] : \E k \in 0 .. Len(a.body) :
        /\ StandsBehind(a, k)
        /\ k + 1 \in 1 .. Len(a.body) /\ a.body[k + 1] = Head(Top.todo)
        /\ Advanced.todo = SubSeq(a.body, k + 1 + 1, Len(a.body))
  BY PlaceOfStep
<1>2. Top.prod \in Production
  BY HeadIsStep, TopIsFrame DEF FrameType
<1>3. a.body \in Seq(Step) /\ DOMAIN a.body = 1 .. Len(a.body)
  BY <1>2, BodyIsSteps, LenProperties
<1> QED
  BY <1>1, <1>2, <1>3

\* Behind the entry of a parameter, and nowhere else, the next list is all
\* that is left to parse.
LEMMA UncountedNext ==
  ASSUME ParserTypeOK, PlacesInBodies, NEW op, NextIs(op), Top.prod \in Counters
  PROVE  Advanced.todo = <<Sub("param_list_")>> <=> Head(Top.todo) = Sym("check_add_fun_param")
<1>1. PICK a \in Rules[Top.prod] : \E k \in 0 .. Len(a.body) :
        /\ Top.prod \in Production /\ a.body \in Seq(Step)
        /\ k + 1 \in DOMAIN a.body /\ DOMAIN a.body = 1 .. Len(a.body)
        /\ a.body[k + 1] = Head(Top.todo)
        /\ Advanced.todo = SubSeq(a.body, k + 1 + 1, Len(a.body))
  BY PlaceOfCounter
<1> PICK k \in 0 .. Len(a.body) :
      /\ Top.prod \in Production /\ a.body \in Seq(Step)
      /\ k + 1 \in DOMAIN a.body /\ DOMAIN a.body = 1 .. Len(a.body)
      /\ a.body[k + 1] = Head(Top.todo)
      /\ Advanced.todo = SubSeq(a.body, k + 1 + 1, Len(a.body))
  BY <1>1
<1> DEFINE b == a.body
           n == Len(a.body)
           m == k + 1
           r == SubSeq(a.body, m + 1, Len(a.body))
<1>2. n \in Nat /\ m \in 1 .. n /\ m \in 0 .. n /\ m \in DOMAIN b
  BY LenProperties
<1>3. r \in Seq(Step) /\ Len(r) = n - m /\ \A i \in 1 .. n - m : r[i] = b[m + i]
  BY <1>2, Rest
<1>4. \A j \in DOMAIN b :
        /\ b[j] = Sub("param_list_") => j > 1 /\ j = n /\ b[j - 1] = Sym("check_add_fun_param")
        /\ b[j] = Sym("check_add_fun_param") => j + 1 = n /\ b[j + 1] = Sub("param_list_")
  BY PartsAssumption, CountersAreParts
<1>5. Head(Top.todo) = b[m] /\ Advanced.todo = r /\ DOMAIN b = 1 .. n
  OBVIOUS
<1> HIDE DEF b, n, m, r
<1>6. ASSUME r = <<Sub("param_list_")>> PROVE b[m] = Sym("check_add_fun_param")
  <2>1. Len(r) = 1 /\ r[1] = Sub("param_list_")
    BY <1>6
  <2> DEFINE j == m + 1
  <2>2. n = j /\ j \in 1 .. n /\ j - 1 = m /\ 1 \in 1 .. n - m
    <3>1. n - m = 1
      BY <1>3, <2>1
    <3> QED
      BY <1>2, <3>1
  <2>3. b[j] = Sub("param_list_")
    BY <1>3, <2>1, <2>2
  <2> HIDE DEF j
  <2>4. b[j - 1] = Sym("check_add_fun_param")
    BY <1>4, <1>5, <2>2, <2>3
  <2> QED
    BY <2>2, <2>4
<1>7. ASSUME b[m] = Sym("check_add_fun_param") PROVE r = <<Sub("param_list_")>>
  <2>1. m + 1 = n /\ b[m + 1] = Sub("param_list_")
    BY <1>2, <1>4, <1>7
  <2>2. Len(r) = 1 /\ r[1] = Sub("param_list_")
    <3>1. n - m = 1 /\ 1 \in 1 .. n - m
      BY <1>2, <2>1
    <3> QED
      BY <1>3, <2>1, <3>1
  <2> DEFINE s == <<Sub("param_list_")>>
  <2>3. Len(s) = 1 /\ s[1] = Sub("param_list_") /\ s \in Seq({Sub("param_list_")})
    OBVIOUS
  <2> HIDE DEF s
  <2>4. \A i \in 1 .. Len(r) : r[i] = s[i]
    BY <2>2, <2>3
  <2>5. r = s
    BY <1>3, <2>2, <2>3, <2>4, SeqEqual
  <2> QED
    BY <2>5 DEF s
<1> QED
  BY <1>5, <1>6, <1>7

\* The next list is called at the end of a body.
LEMMA ListIsCalledLast ==
  ASSUME ParserTypeOK, PlacesInBodies, NextIs("parse"), Top.prod \in Counters
  PROVE  Top.todo = <<Sub("param_list_")>> <=> Head(Top.todo) = Sub("param_list_")
<1>1. Top.todo \in Seq(Step) /\ Top.todo # <<>> /\ Top \in FrameType
  BY HeadIsStep, TopIsFrame DEF FrameType
<1>2. ASSUME Head(Top.todo) = Sub("param_list_") PROVE Top.todo = <<Sub("param_list_")>>
  <2>1. PICK a \in Rules[Top.prod] : \E k \in 0 .. Len(a.body) :
          /\ Top.prod \in Production /\ a.body \in Seq(Step)
          /\ k + 1 \in DOMAIN a.body /\ DOMAIN a.body = 1 .. Len(a.body)
          /\ a.body[k + 1] = Head(Top.todo)
          /\ Advanced.todo = SubSeq(a.body, k + 1 + 1, Len(a.body))
    BY PlaceOfCounter
  <2> PICK k \in 0 .. Len(a.body) :
        /\ Top.prod \in Production /\ a.body \in Seq(Step)
        /\ k + 1 \in DOMAIN a.body /\ DOMAIN a.body = 1 .. Len(a.body)
        /\ a.body[k + 1] = Head(Top.todo)
        /\ Advanced.todo = SubSeq(a.body, k + 1 + 1, Len(a.body))
    BY <2>1
  <2> DEFINE m == k + 1
             n == Len(a.body)
             r == SubSeq(a.body, m + 1, n)
             t == Top.todo
             s == <<Sub("param_list_")>>
  <2>2. m = n
    BY <1>2, PartsAssumption, CountersAreParts
  <2>3. Len(r) = n - m
    <3>1. m \in 0 .. Len(a.body)
      OBVIOUS
    <3> HIDE DEF m
    <3> QED
      BY <3>1, Rest
  <2>4. Tail(t) = r
    BY <1>1 DEF Advanced, FrameType
  <2>5. n \in Nat
    BY LenProperties
  <2>6. Len(Tail(t)) = Len(t) - 1 /\ Head(t) = t[1] /\ t \in Seq(Step) /\ Len(t) \in Nat
    BY <1>1, HeadTailProperties, LenProperties
  <2>7. Len(s) = 1 /\ s[1] = Sub("param_list_") /\ s \in Seq({Sub("param_list_")})
    OBVIOUS
  <2>8. t[1] = Sub("param_list_")
    BY <1>2, <2>6
  <2> HIDE DEF m, n, r, t, s
  <2>9. Len(t) = 1
    <3>1. Len(r) = 0
      BY <2>2, <2>3, <2>5
    <3>2. Len(Tail(t)) = 0
      BY <2>4, <3>1
    <3> QED
      BY <2>6, <3>2
  <2>10. \A i \in 1 .. Len(t) : t[i] = s[i]
    BY <2>7, <2>8, <2>9
  <2>11. t = s
    BY <2>6, <2>7, <2>9, <2>10, SeqEqual
  <2> QED
    BY <2>11 DEF s, t
<1>3. ASSUME Top.todo = <<Sub("param_list_")>> PROVE Head(Top.todo) = Sub("param_list_")
  BY <1>3
<1> QED
  BY <1>2, <1>3

\* A call of a part is waited for by a call that counts; it makes no other.
LEMMA CallerOfPart ==
  ASSUME ParserTypeOK, CallsNest, PlacesInBodies, NEW i \in DOMAIN stack, i < Len(stack),
         stack[i + 1].prod \in HandsUp
  PROVE  /\ stack[i].prod \in Counters /\ stack[i].todo # <<Sub("param_list_")>>
         /\ \A p \in HandsUp : ~Ahead(i, Sub(p))
<1>1. stack[i].prod \in Counters /\ i + 1 \in DOMAIN stack
  BY CallIsInBody, CalleeInHead, CountersAreParts
<1>2. PICK a \in Rules[stack[i].prod] : \E k \in DOMAIN a.body :
        /\ a.body[k] = Sub(stack[i + 1].prod)
        /\ stack[i].todo = SubSeq(a.body, k + 1, Len(a.body))
  BY CallIsInBody
<1>3. PICK k \in DOMAIN a.body :
        /\ a.body[k] = Sub(stack[i + 1].prod)
        /\ stack[i].todo = SubSeq(a.body, k + 1, Len(a.body))
  BY <1>2
<1>4. stack[i].prod \in Production /\ stack[i].at = "body"
  BY CallIsInBody
<1>5. a.body \in Seq(Step) /\ DOMAIN a.body = 1 .. Len(a.body) /\ Len(a.body) \in Nat
  BY <1>4, BodyIsSteps, LenProperties
<1>6. \A q \in HeadParts : \A j \in k + 1 .. Len(a.body) : a.body[j] # Sub(q)
  BY <1>1, <1>3, PartsAssumption, CountersAreParts
<1>7. k \in 0 .. Len(a.body)
  BY <1>5
<1>8. \A q \in HeadParts : Sub(q) \notin ToSet(stack[i].todo)
  <2> TAKE q \in HeadParts
  <2>1. \A j \in 1 .. Len(a.body) : k < j => j \in k + 1 .. Len(a.body)
    BY <1>5
  <2>2. Sub(q) \in ToSet(SubSeq(a.body, k + 1, Len(a.body))) <=>
          \E j \in 1 .. Len(a.body) : k < j /\ a.body[j] = Sub(q)
    BY <1>5, <1>7, InRest
  <2> QED
    BY <1>3, <1>6, <2>1, <2>2
<1>9. stack[i].todo # <<Sub("param_list_")>>
  <2>1. Sub("param_list_") \in ToSet(<<Sub("param_list_")>>)
    BY DEF ToSet
  <2> QED
    BY <1>8, <2>1, CountersAreParts
<1> QED
  BY <1>1, <1>4, <1>8, <1>9, CountersAreParts DEF Ahead

\* The parts of a head are on the stack without a gap.
LEMMA PartsHaveNoGap ==
  ASSUME ParserTypeOK, CallsNest, PlacesInBodies, NEW i \in DOMAIN stack,
         stack[i].prod \in Counters, i < Len(stack), Top.prod \in HandsUp
  PROVE  stack[i + 1].prod \in HandsUp
<1> DEFINE n == Len(stack)
           Gap == {j \in i + 1 .. n : stack[j].prod \notin HandsUp}
<1>1. /\ stack # <<>> /\ DOMAIN stack = 1 .. n /\ n \in Nat \ {0} /\ Top = stack[n]
  BY TopIsFrame, EmptySeq
<1>2. SUFFICES ASSUME Gap # {} PROVE FALSE
  <2>1. i + 1 \in i + 1 .. n
    BY <1>1
  <2> QED
    BY <2>1
<1>3. n \in Nat /\ Gap \in SUBSET (0 .. n)
  BY <1>1
<1>4. PICK x \in Gap : \A y \in Gap : y <= x
  <2> HIDE DEF n, Gap
  <2> QED
    BY <1>2, <1>3, LargestExists
<1>5. x \in DOMAIN stack /\ i < x /\ x < n /\ x + 1 \in i + 1 .. n
  <2>1. x \in i + 1 .. n /\ x # n
    BY <1>1
  <2>2. i \in 1 .. n
    BY <1>1
  <2> HIDE DEF n, Gap
  <2> QED
    BY <1>1, <2>1, <2>2
<1>6. stack[x + 1].prod \in HandsUp
  <2>1. ~(x + 1 <= x)
    BY <1>5, <1>1
  <2> QED
    BY <1>4, <1>5, <2>1
<1>7. stack[x].prod = "subprogram_head"
  BY <1>5, <1>6, CalleeInHead, CountersAreParts
<1>8. stack[x].prod \in InHead
  BY <1>5, OnlyPartsInside, CountersAreParts
<1> QED
  BY <1>7, <1>8, CountersAreParts

\* What the invariant says of the stack, for citing.
LEMMA StackOfCounts ==
  ASSUME ParserTypeOK, CountIsHandedUp, stack # <<>>
  PROVE  /\ Len(stack) \in Nat \ {0} /\ DOMAIN stack = 1 .. Len(stack)
         /\ Len(stack) \in DOMAIN stack /\ Top = stack[Len(stack)] /\ Top \in FrameType
         /\ stack \in Seq(FrameType) /\ counts \in Seq(Nat) /\ Len(counts) = Len(stack)
         /\ \A i \in 1 .. Len(stack) : counts[i] \in Nat
         /\ counts # <<>> /\ Last(counts) = counts[Len(stack)]
<1>1. Len(stack) \in Nat \ {0} /\ DOMAIN stack = 1 .. Len(stack) /\ Top = stack[Len(stack)]
      /\ Top \in FrameType
  BY TopIsFrame
<1>2. stack \in Seq(FrameType) /\ counts \in Seq(Nat) /\ Len(counts) = Len(stack)
  BY DEF ParserTypeOK, CountIsHandedUp
<1>3. counts # <<>>
  BY <1>1, <1>2, EmptySeq
<1>4. Last(counts) = counts[Len(counts)] /\ \A i \in 1 .. Len(counts) : counts[i] \in Nat
  BY <1>2, <1>3, Popped, ElementOfSeq
<1> QED
  BY <1>1, <1>2, <1>3, <1>4

\* The running call goes on, and leaves its attributes alone.
LEMMA OnceKept ==
  ASSUME ParserTypeOK, CountIsHandedUp, stack # <<>>, counts' = counts,
         NEW f \in FrameType, Become(f), f.prod = Top.prod,
         \A p \in HandsUp : f.at = "switch" \/ Sub(p) \in ToSet(f.todo) =>
                              Ahead(Len(stack), Sub(p))
  PROVE  /\ counts' \in Seq(Nat) /\ Len(counts') = Len(stack') /\ TakesOverOnce'
         /\ Len(stack') = Len(stack) /\ DOMAIN stack' = DOMAIN stack /\ stack'[Len(stack)] = f
         /\ \A i \in DOMAIN stack : i # Len(stack) => stack'[i] = stack[i]
         /\ \A i \in DOMAIN stack : stack'[i].prod = stack[i].prod
<1>1. /\ Len(stack) \in Nat \ {0} /\ DOMAIN stack = 1 .. Len(stack) /\ Top = stack[Len(stack)]
      /\ stack \in Seq(FrameType) /\ counts \in Seq(Nat) /\ Len(counts) = Len(stack)
  BY StackOfCounts
<1>2. /\ stack' \in Seq(FrameType) /\ Len(stack') = Len(stack) /\ stack'[Len(stack)] = f
      /\ \A i \in 1 .. Len(stack) - 1 : stack'[i] = stack[i]
  <2>1. stack \in Seq(FrameType)
    BY DEF ParserTypeOK
  <2> QED
    BY <2>1, Replaced DEF Become
<1>3. DOMAIN stack' = DOMAIN stack
  BY <1>1, <1>2, LenProperties
<1>4. \A i \in DOMAIN stack : i # Len(stack) => stack'[i] = stack[i]
  BY <1>1, <1>2
<1>5. \A i \in DOMAIN stack : stack'[i].prod = stack[i].prod
  BY <1>1, <1>2, <1>4
<1>6. TakesOverOnce'
  <2> SUFFICES ASSUME NEW i \in DOMAIN stack', stack'[i].prod \in Counters \ {"param_list_"},
                      NEW p \in HandsUp,
                      stack'[i].at = "switch" \/ Sub(p) \in ToSet(stack'[i].todo)
               PROVE  counts'[i] = 0
    BY DEF TakesOverOnce, Ahead
  <2>1. i \in DOMAIN stack /\ stack[i].prod \in Counters \ {"param_list_"}
    BY <1>3, <1>5
  <2>2. Ahead(i, Sub(p))
    <3>1. CASE i = Len(stack)
      BY <1>2, <3>1
    <3>2. CASE i # Len(stack)
      BY <1>4, <2>1, <3>2 DEF Ahead
    <3> QED
      BY <3>1, <3>2
  <2> QED
    BY <2>1, <2>2 DEF CountIsHandedUp, TakesOverOnce
<1> QED
  BY <1>1, <1>2, <1>3, <1>4, <1>5, <1>6

\* It enters no parameter and no method.
LEMMA AllKept ==
  ASSUME ParserTypeOK, CountIsHandedUp, stack # <<>>, counts' = counts,
         NEW f \in FrameType, Become(f), f.prod = Top.prod,
         \A p \in HandsUp : f.at = "switch" \/ Sub(p) \in ToSet(f.todo) =>
                              Ahead(Len(stack), Sub(p)),
         HeadIsEntered' => HeadIsEntered /\ c' = c,
         Top.prod \in Counters =>
           Top.todo # <<Sub("param_list_")>> /\ f.todo # <<Sub("param_list_")>>
  PROVE  CountIsHandedUp'
<1>1. /\ counts' \in Seq(Nat) /\ Len(counts') = Len(stack') /\ TakesOverOnce'
      /\ Len(stack') = Len(stack) /\ DOMAIN stack' = DOMAIN stack /\ stack'[Len(stack)] = f
      /\ \A i \in DOMAIN stack : i # Len(stack) => stack'[i] = stack[i]
      /\ \A i \in DOMAIN stack : stack'[i].prod = stack[i].prod
  BY OnceKept
<1>2. Len(stack) \in Nat /\ DOMAIN stack = 1 .. Len(stack) /\ Top = stack[Len(stack)]
  BY StackOfCounts
<1>3. AllAreCounted'
  <2> SUFFICES ASSUME HeadIsEntered', NEW i \in DOMAIN stack', stack'[i].prod \in Counters,
                      i < Len(stack') => stack'[i + 1].prod \notin HandsUp
               PROVE  c' = counts'[i] + Uncounted(i)'
    BY DEF AllAreCounted
  <2>1. i \in DOMAIN stack /\ stack[i].prod \in Counters
    BY <1>1
  <2>2. i < Len(stack) => stack[i + 1].prod \notin HandsUp
    <3> SUFFICES ASSUME i < Len(stack) PROVE stack[i + 1].prod \notin HandsUp
      OBVIOUS
    <3>1. i + 1 \in DOMAIN stack
      BY <1>2, <2>1
    <3> QED
      BY <1>1, <3>1
  <2>3. c = counts[i] + Uncounted(i)
    BY <2>1, <2>2 DEF CountIsHandedUp, AllAreCounted
  <2>4. Uncounted(i)' = Uncounted(i)
    <3>1. CASE i = Len(stack)
      BY <1>1, <1>2, <2>1, <3>1 DEF Uncounted
    <3>2. CASE i # Len(stack)
      BY <1>1, <2>1, <3>2 DEF Uncounted
    <3> QED
      BY <3>1, <3>2
  <2> QED
    BY <2>3, <2>4
<1> QED
  BY <1>1, <1>3 DEF CountIsHandedUp

\* A part of a head has more than one step.
LEMMA ListIsNoBody ==
  ASSUME NEW prod \in Production, prod \in Counters, NEW a \in Rules[prod]
  PROVE  a.body # <<Sub("param_list_")>>
<1> SUFFICES ASSUME a.body = <<Sub("param_list_")>> PROVE FALSE
  OBVIOUS
<1>1. 1 \in DOMAIN a.body /\ a.body[1] = Sub("param_list_")
  OBVIOUS
<1>2. 1 > 1
  BY <1>1, PartsAssumption, CountersAreParts
<1> QED
  BY <1>2

\* A case group, or the default branch.
LEMMA SwitchKeepsCounts ==
  ASSUME ParserInvariant, CountIsHandedUp, Switch, UNCHANGED <<c, counts>>
  PROVE  CountIsHandedUp'
<1>1. /\ ParserTypeOK /\ PlacesInBodies /\ stack # <<>> /\ Top.at = "switch"
  BY DEF ParserInvariant, StackInvariant, Switch, Running
<1>2. Len(stack) \in DOMAIN stack /\ Top = stack[Len(stack)] /\ Top \in FrameType
  BY <1>1, StackOfCounts
<1>3. Top.todo = <<>> /\ \A p \in HandsUp : Ahead(Len(stack), Sub(p))
  BY <1>1, <1>2 DEF PlacesInBodies, Ahead
<1>4. HeadIsEntered' => HeadIsEntered /\ c' = c
  BY EnteredKept DEF HeadIsEntered, HeadCall
<1>5. Top.todo # <<Sub("param_list_")>>
  BY <1>3
<1>6. ASSUME NEW a \in Rules[Top.prod], Become([Top EXCEPT !.at = "body", !.todo = a.body])
      PROVE  CountIsHandedUp'
  <2> DEFINE f == [Top EXCEPT !.at = "body", !.todo = a.body]
  <2>1. Top.prod \in Production /\ a.body \in Seq(Step)
    BY <1>2, BodyIsSteps DEF FrameType
  <2>2. f \in FrameType /\ f.prod = Top.prod /\ f.todo = a.body
    BY <1>2, <2>1 DEF FrameType
  <2>3. Top.prod \in Counters => f.todo # <<Sub("param_list_")>>
    BY <2>1, <2>2, ListIsNoBody
  <2> HIDE DEF f
  <2>4. Become(f)
    BY <1>6 DEF f
  <2> QED
    BY <1>1, <1>3, <1>4, <1>5, <2>2, <2>3, <2>4, AllKept
<1>7. ASSUME Become(Recovering) PROVE CountIsHandedUp'
  <2> DEFINE f == Recovering
  <2>1. f \in FrameType /\ f.prod = Top.prod /\ f.todo = <<>>
    BY <1>2, EmptySeq DEF FrameType, Recovering
  <2>2. f.todo # <<Sub("param_list_")>>
    BY <2>1
  <2> HIDE DEF f
  <2>3. Become(f)
    BY <1>7 DEF f
  <2> QED
    BY <1>1, <1>3, <1>4, <1>5, <2>1, <2>2, <2>3, AllKept
<1> QED
  BY <1>6, <1>7 DEF Switch

\* The running call goes on in its body with a step that is no call.
LEMMA AdvanceKeepsCounts ==
  ASSUME ParserTypeOK, PlacesInBodies, CountIsHandedUp, counts' = counts,
         NEW op \in {"match", "table"}, NextIs(op), Become(Advanced),
         HeadIsEntered' => HeadIsEntered /\ c' = c,
         Head(Top.todo) # Sym("check_add_fun_param")
  PROVE  CountIsHandedUp'
<1>1. /\ stack # <<>> /\ Advanced \in FrameType /\ Advanced.at = "body"
      /\ Advanced.prod = Top.prod /\ Head(Top.todo).op = op
  BY HeadIsStep
<1>2. Top = stack[Len(stack)]
  BY <1>1, StackOfCounts
<1>3. \A p \in HandsUp : Sub(p) \in ToSet(Advanced.todo) => Ahead(Len(stack), Sub(p))
  BY <1>2, OthersStayAhead DEF Ahead
<1>4. Top.todo # <<Sub("param_list_")>>
  <2> SUFFICES ASSUME Top.todo = <<Sub("param_list_")>> PROVE FALSE
    OBVIOUS
  <2>1. Head(Top.todo) = Sub("param_list_")
    OBVIOUS
  <2>2. Head(Top.todo).op = "parse"
    BY <2>1 DEF Sub
  <2> QED
    BY <1>1, <2>2
<1>5. Top.prod \in Counters => Advanced.todo # <<Sub("param_list_")>>
  BY UncountedNext
<1> DEFINE f == Advanced
<1>6. /\ f \in FrameType /\ f.at = "body" /\ f.prod = Top.prod /\ Become(f)
      /\ \A p \in HandsUp : Sub(p) \in ToSet(f.todo) => Ahead(Len(stack), Sub(p))
      /\ Top.prod \in Counters => f.todo # <<Sub("param_list_")>>
  BY <1>1, <1>3, <1>5
<1> HIDE DEF f
<1> QED
  BY <1>1, <1>4, <1>6, AllKept

LEMMA MatchKeepsCounts ==
  ASSUME ParserInvariant, CountIsHandedUp, match, UNCHANGED <<c, counts>>
  PROVE  CountIsHandedUp'
<1>1. ParserTypeOK /\ PlacesInBodies /\ NextIs("match")
  BY DEF ParserInvariant, StackInvariant, match
<1>2. HeadIsEntered' => HeadIsEntered /\ c' = c
  BY EnteredKept DEF HeadIsEntered, HeadCall
<1>3. stack # <<>> /\ Top \in FrameType /\ Head(Top.todo).op = "match"
  BY <1>1, HeadIsStep, TopIsFrame
<1>4. Head(Top.todo) # Sym("check_add_fun_param") /\ Head(Top.todo) # Sub("param_list_")
  BY <1>3 DEF Sym, Sub
<1>5. CASE Become(Advanced)
  BY <1>1, <1>2, <1>4, <1>5, AdvanceKeepsCounts
<1>6. CASE Become(Recovering)
  <2> DEFINE f == Recovering
  <2>1. f \in FrameType /\ f.prod = Top.prod /\ f.todo = <<>> /\ f.at = "synch"
    BY <1>3, EmptySeq DEF FrameType, Recovering
  <2>2. f.todo # <<Sub("param_list_")>> /\ Top.todo # <<Sub("param_list_")>>
    BY <1>4, <2>1
  <2>3. \A p : Sub(p) \notin ToSet(f.todo)
    BY <2>1 DEF ToSet
  <2> HIDE DEF f
  <2>4. Become(f)
    BY <1>6 DEF f
  <2> QED
    BY <1>1, <1>2, <1>3, <2>1, <2>2, <2>3, <2>4, AllKept
<1> QED
  BY <1>5, <1>6 DEF match

\* A call starts without parameters, or with those counted so far.
LEMMA PassedIsCounted ==
  ASSUME ParserInvariant, CountIsHandedUp, Call, NEW q, q = Head(Top.todo).arg, q \in Counters
  PROVE  /\ Passed(q) \in Nat /\ (HeadIsEntered => c = Passed(q))
         /\ q # "param_list_" => Passed(q) = 0
<1>1. /\ ParserTypeOK /\ PlacesInBodies /\ CallsNest /\ NextIs("parse")
  BY DEF ParserInvariant, StackInvariant, Call
<1>2. /\ stack # <<>> /\ Head(Top.todo) = Sub(q) /\ q \in Production
  BY <1>1, HeadIsStep, CallIsSub
<1>3. /\ Len(stack) \in DOMAIN stack /\ Top = stack[Len(stack)] /\ Top.prod \in Production
      /\ Last(counts) = counts[Len(stack)] /\ counts[Len(stack)] \in Nat
  BY <1>1, <1>2, StackOfCounts DEF FrameType
<1>4. CASE q = "subprogram_head"
  <2>1. Top.prod \notin InHead \cup {"subprogram_head"}
    <3>1. PICK a \in Rules[Top.prod] : \E k \in 0 .. Len(a.body) :
            k + 1 \in 1 .. Len(a.body) /\ a.body[k + 1] = Head(Top.todo)
      BY <1>1, PlaceOfStep
    <3>2. PICK k \in 0 .. Len(a.body) : k + 1 \in 1 .. Len(a.body) /\ a.body[k + 1] = Head(Top.todo)
      BY <3>1
    <3> DEFINE m == k + 1
    <3>3. m \in DOMAIN a.body /\ a.body[m] = Sub(q)
      BY <1>2, <1>3, <3>2, BodyIsSteps, LenProperties
    <3> HIDE DEF m
    <3>4. a.body[m].op = "parse" /\ a.body[m].arg = "subprogram_head"
      BY <1>4, <3>3 DEF Sub
    <3> QED
      BY <1>3, <3>3, <3>4, HeadAssumption, CountersAreParts
  <2>2. ~HeadIsEntered
    BY <1>1, <1>2, <2>1, NoHeadAround DEF HeadIsEntered
  <2> QED
    BY <1>4, <2>2 DEF Passed
<1>5. CASE q \in HandsUp
  <2>1. Sub(q) \in ToSet(Top.todo)
    BY <1>1, <1>2, OthersStayAhead
  <2>2. PICK a \in Rules[Top.prod] : \E k \in 0 .. Len(a.body) :
          k + 1 \in 1 .. Len(a.body) /\ a.body[k + 1] = Head(Top.todo)
    BY <1>1, PlaceOfStep
  <2>3. PICK k \in 0 .. Len(a.body) : k + 1 \in 1 .. Len(a.body) /\ a.body[k + 1] = Head(Top.todo)
    BY <2>2
  <2> DEFINE m == k + 1
  <2>4. m \in DOMAIN a.body /\ a.body[m] = Sub(q)
    BY <1>2, <1>3, <2>3, BodyIsSteps, LenProperties
  <2> HIDE DEF m
  <2>5. a.body[m].op = "parse" /\ a.body[m].arg = q
    BY <2>4 DEF Sub
  <2>6. Top.prod \in Counters
    BY <1>3, <1>5, <2>4, <2>5, HeadAssumption, CountersAreParts
  <2>7. Top.prod = "param_list_" => q = "param_list_"
    BY <1>5, <2>4, <2>6, PartsAssumption, CountersAreParts
  <2>8. HeadIsEntered => c = counts[Len(stack)] + Uncounted(Len(stack))
    <3>1. ~(Len(stack) < Len(stack))
      BY <1>2, StackOfCounts
    <3> QED
      BY <1>3, <2>6, <3>1 DEF CountIsHandedUp, AllAreCounted
  <2>9. Top.prod # "param_list_" => counts[Len(stack)] = 0
    BY <1>3, <1>5, <2>1, <2>6 DEF CountIsHandedUp, TakesOverOnce, Ahead
  <2>10. CASE q = "param_list_"
    <3>1. Uncounted(Len(stack)) = 1
      BY <1>1, <1>2, <1>3, <2>6, <2>10, ListIsCalledLast DEF Uncounted
    <3>2. Passed(q) = counts[Len(stack)] + 1
      BY <1>3, <2>9, <2>10 DEF Passed
    <3> QED
      BY <1>3, <2>8, <2>10, <3>1, <3>2
  <2>11. CASE q # "param_list_"
    <3>1. Uncounted(Len(stack)) = 0
      <4>1. Head(Top.todo) # Sub("param_list_")
        BY <1>2, <2>11, SubIsItself
      <4> QED
        BY <1>1, <1>3, <2>6, <4>1, ListIsCalledLast DEF Uncounted
    <3>2. Passed(q) = 0 /\ counts[Len(stack)] = 0
      BY <2>7, <2>9, <2>11 DEF Passed
    <3> QED
      BY <2>8, <3>1, <3>2
  <2> QED
    BY <2>10, <2>11
<1> QED
  BY <1>4, <1>5 DEF Counters

LEMMA CallKeepsCounts ==
  ASSUME ParserInvariant, CountIsHandedUp, Call, c' = c,
         counts' = Append(counts, Passed(Head(Top.todo).arg))
  PROVE  CountIsHandedUp'
<1> DEFINE n == Len(stack)
           q == Head(Top.todo).arg
<1>1. /\ ParserTypeOK /\ PlacesInBodies /\ CallsNest /\ NextIs("parse")
  BY DEF ParserInvariant, StackInvariant, Call
<1>2. /\ stack # <<>> /\ Head(Top.todo) = Sub(q) /\ Advanced \in FrameType
      /\ Advanced.prod = Top.prod /\ Advanced.at = "body"
  BY <1>1, HeadIsStep, CallIsSub
<1>3. /\ n \in Nat \ {0} /\ DOMAIN stack = 1 .. n /\ Top = stack[n]
      /\ counts \in Seq(Nat) /\ Len(counts) = n
      /\ Last(counts) = counts[n] /\ counts[n] \in Nat
  <2>1. n \in 1 .. n
    BY <1>1, <1>2, StackOfCounts
  <2> QED
    BY <1>1, <1>2, <2>1, StackOfCounts
<1>4. /\ stack' \in Seq(FrameType) /\ Len(stack') = n + 1
      /\ \A i \in 1 .. n - 1 : stack'[i] = stack[i]
      /\ stack'[n] = Advanced /\ stack'[n + 1] = Frame(q, read)
  BY <1>1, Called
<1>5. Passed(q) \in Nat
  BY <1>3 DEF Passed
<1>6. /\ counts' \in Seq(Nat) /\ Len(counts') = n + 1 /\ counts'[n + 1] = Passed(q)
      /\ \A i \in 1 .. n : counts'[i] = counts[i]
  <2> DEFINE x == Passed(q)
  <2>1. x \in Nat /\ counts' = Append(counts, x)
    BY <1>5
  <2> HIDE DEF x, n
  <2>2. /\ Append(counts, x) \in Seq(Nat) /\ Len(Append(counts, x)) = Len(counts) + 1
        /\ \A i \in 1 .. Len(counts) : Append(counts, x)[i] = counts[i]
        /\ Append(counts, x)[Len(counts) + 1] = x
    BY <1>3, <2>1, AppendProperties
  <2> QED
    BY <1>3, <2>1, <2>2 DEF x
<1>7. DOMAIN stack' = 1 .. n + 1
  BY <1>4, LenProperties
<1>8. Frame(q, read).prod = q /\ Frame(q, read).todo = <<>> /\ Frame(q, read).at = "switch"
  BY DEF Frame
<1> HIDE DEF n, q
<1>9. \A i \in DOMAIN stack' : i < n \/ i = n \/ i = n + 1
  BY <1>3, <1>7
<1>10. \A i \in DOMAIN stack' : i < n => i \in DOMAIN stack /\ stack'[i] = stack[i] /\ counts'[i] = counts[i]
  BY <1>3, <1>4, <1>6, <1>7
<1>11. TakesOverOnce'
  <2> SUFFICES ASSUME NEW i \in DOMAIN stack', stack'[i].prod \in Counters \ {"param_list_"},
                      NEW p \in HandsUp,
                      stack'[i].at = "switch" \/ Sub(p) \in ToSet(stack'[i].todo)
               PROVE  counts'[i] = 0
    BY DEF TakesOverOnce, Ahead
  <2>1. CASE i < n
    <3>1. Ahead(i, Sub(p)) /\ stack[i].prod \in Counters \ {"param_list_"} /\ i \in DOMAIN stack
      BY <1>10, <2>1 DEF Ahead
    <3> QED
      BY <1>10, <2>1, <3>1 DEF CountIsHandedUp, TakesOverOnce
  <2>2. CASE i = n
    <3>1. Sub(p) \in ToSet(Top.todo)
      BY <1>1, <1>2, <1>4, <2>2, OthersStayAhead
    <3>2. Ahead(n, Sub(p)) /\ stack[n].prod \in Counters \ {"param_list_"} /\ n \in DOMAIN stack
      BY <1>2, <1>3, <1>4, <2>2, <3>1 DEF Ahead
    <3>3. counts'[n] = counts[n]
      BY <1>3, <1>6
    <3> QED
      BY <2>2, <3>2, <3>3 DEF CountIsHandedUp, TakesOverOnce
  <2>3. CASE i = n + 1
    BY <1>4, <1>6, <1>8, <2>3, PassedIsCounted DEF q
  <2> QED
    BY <1>9, <2>1, <2>2, <2>3
<1>12. AllAreCounted'
  <2> SUFFICES ASSUME HeadIsEntered', NEW i \in DOMAIN stack', stack'[i].prod \in Counters,
                      i < Len(stack') => stack'[i + 1].prod \notin HandsUp
               PROVE  c' = counts'[i] + Uncounted(i)'
    BY DEF AllAreCounted
  <2>1. HeadIsEntered
    BY EnteredKept DEF HeadIsEntered, HeadCall
  <2>2. CASE i < n
    <3>1. i \in DOMAIN stack /\ stack[i].prod \in Counters
      BY <1>10, <2>2
    <3>2. stack[i + 1].prod \notin HandsUp
      <4>1. i < Len(stack') /\ i + 1 \in DOMAIN stack' /\ (i + 1 < n \/ i + 1 = n)
        BY <1>3, <1>4, <1>7, <2>2, <3>1
      <4>2. stack'[i + 1].prod = stack[i + 1].prod
        BY <1>2, <1>3, <1>4, <1>10, <4>1
      <4> QED
        BY <4>1, <4>2
    <3>3. c = counts[i] + Uncounted(i)
      BY <2>1, <3>1, <3>2 DEF CountIsHandedUp, AllAreCounted
    <3>4. Uncounted(i)' = Uncounted(i)
      BY <1>10, <2>2 DEF Uncounted
    <3> QED
      BY <1>10, <2>2, <3>3, <3>4
  <2>3. CASE i = n
    <3>1. q \notin HandsUp
      <4>1. i < Len(stack') /\ i + 1 = n + 1
        BY <1>3, <1>4, <2>3
      <4> QED
        BY <1>4, <1>8, <4>1
    <3>2. Top.prod \in Counters /\ n \in DOMAIN stack /\ ~(n < Len(stack))
      BY <1>2, <1>3, <1>4, <2>3 DEF n
    <3>3. c = counts[n] + Uncounted(n)
      BY <1>3, <2>1, <3>2 DEF CountIsHandedUp, AllAreCounted
    <3>4. Head(Top.todo) # Sub("param_list_") /\ Head(Top.todo) # Sym("check_add_fun_param")
      BY <1>2, <3>1, CountersAreParts, SubIsItself
    <3>5. Uncounted(n) = 0
      BY <1>1, <1>3, <3>2, <3>4, ListIsCalledLast DEF Uncounted
    <3>6. Uncounted(i)' = 0
      BY <1>1, <1>4, <2>3, <3>2, <3>4, UncountedNext DEF Uncounted
    <3>7. counts'[n] = counts[n]
      BY <1>3, <1>6
    <3> QED
      BY <2>3, <3>3, <3>5, <3>6, <3>7
  <2>4. CASE i = n + 1
    <3>1. q \in Counters
      BY <1>4, <1>8, <2>4
    <3>2. c = Passed(q)
      BY <2>1, <3>1, PassedIsCounted DEF q
    <3>3. Uncounted(i)' = 0
      <4>1. stack'[i].todo = <<>> /\ <<>> # <<Sub("param_list_")>>
        BY <1>4, <1>8, <2>4
      <4> QED
        BY <4>1 DEF Uncounted
    <3> QED
      BY <1>5, <1>6, <2>4, <3>2, <3>3
  <2> QED
    BY <1>9, <2>2, <2>3, <2>4
<1> QED
  BY <1>4, <1>6, <1>11, <1>12 DEF CountIsHandedUp

\* The counts when a call ends: its own goes to its caller, or is gone.
LEMMA HandedCounts ==
  ASSUME ParserInvariant, CountIsHandedUp, stack # <<>>, NEW n, n = Len(stack)
  PROVE  /\ Handed \in Seq(Nat) /\ Len(Handed) = n - 1
         /\ Top.prod \in HandsUp => n > 1 /\ Handed[n - 1] = counts[n]
         /\ \A i \in 1 .. n - 1 :
              (Top.prod \in HandsUp => i # n - 1) => Handed[i] = counts[i]
<1>1. /\ n \in Nat \ {0} /\ counts \in Seq(Nat) /\ Len(counts) = n /\ counts # <<>>
      /\ ParserTypeOK /\ ProgramIsOutermost /\ Top = stack[n]
      /\ Last(counts) = counts[n] /\ counts[n] \in Nat
  <2>1. ParserTypeOK /\ ProgramIsOutermost
    BY DEF ParserInvariant, StackInvariant
  <2>2. n \in 1 .. n
    BY <2>1, StackOfCounts
  <2> QED
    BY <2>1, <2>2, StackOfCounts
<1> DEFINE r == Front(counts)
<1>2. r \in Seq(Nat) /\ Len(r) = n - 1 /\ \A i \in 1 .. n - 1 : r[i] = counts[i]
  BY <1>1, Popped
<1>3. CASE Top.prod \in HandsUp
  <2>1. n > 1
    <3>1. n # 1
      BY <1>1, <1>3, CountersAreParts DEF ProgramIsOutermost, Counters
    <3> QED
      BY <1>1, <3>1
  <2> DEFINE x == Last(counts)
             s == Append(Front(r), x)
  <2>2. x \in Nat /\ x = counts[n] /\ Handed = s
    BY <1>1, <1>3 DEF Handed
  <2> HIDE DEF r, x
  <2>3. r # <<>>
    BY <1>1, <1>2, <2>1, EmptySeq
  <2>4. /\ s \in Seq(Nat) /\ Len(s) = Len(r) /\ s[Len(r)] = x
        /\ \A i \in 1 .. Len(r) - 1 : s[i] = r[i]
    <3>1. r \in Seq(Nat) /\ x \in Nat
      BY <1>2, <2>2
    <3> QED
      BY <2>3, <3>1, Replaced
  <2> HIDE DEF s
  <2>5. \A i \in 1 .. n - 1 : i # n - 1 => s[i] = counts[i]
    <3> SUFFICES ASSUME NEW i \in 1 .. n - 1, i # n - 1 PROVE s[i] = counts[i]
      OBVIOUS
    <3>1. i \in 1 .. n - 1 - 1
      BY <1>1
    <3> QED
      BY <1>2, <2>4, <3>1
  <2> QED
    BY <1>2, <1>3, <2>1, <2>2, <2>4, <2>5
<1>4. CASE Top.prod \notin HandsUp
  <2>1. Handed = r
    BY <1>4 DEF Handed
  <2> HIDE DEF r
  <2> QED
    BY <1>2, <1>4, <2>1
<1> QED
  BY <1>3, <1>4

LEMMA LeaveKeepsCounts ==
  ASSUME ParserInvariant, CountIsHandedUp, Leave, c' = c, counts' = Handed
  PROVE  CountIsHandedUp'
<1> DEFINE n == Len(stack)
<1>1. /\ StackInvariant /\ ParserTypeOK /\ PlacesInBodies /\ CallsNest /\ ProgramIsOutermost
  BY DEF ParserInvariant, StackInvariant
<1>2. stack # <<>> /\ stack' = Front(stack) /\ read' = read
  <2>1. CASE Return
    BY <2>1 DEF Leave, Return, InBody, Running, sourceVars
  <2>2. CASE synch
    <3>1. stack # <<>> /\ stack' = Front(stack) /\ stack \in Seq(FrameType)
      BY <1>1, <2>2 DEF Leave, synch, InSynch, Running, ParserTypeOK
    <3>2. stack' # stack
      <4>1. Len(Front(stack)) = Len(stack) - 1 /\ Len(stack) \in Nat
        BY <3>1, Popped
      <4> QED
        BY <3>1, <4>1
    <3> QED
      BY <2>2, <3>1, <3>2 DEF synch, sourceVars
  <2> QED
    BY <2>1, <2>2 DEF Leave
<1>3. /\ n \in Nat \ {0} /\ DOMAIN stack = 1 .. n /\ Top = stack[n] /\ stack \in Seq(FrameType)
  BY <1>1, <1>2, StackOfCounts
<1>4. Top.todo = <<>>
  <2>1. n \in DOMAIN stack
    BY <1>3
  <2>2. Top.at # "body" => Top.todo = <<>>
    BY <1>1, <1>3, <2>1 DEF PlacesInBodies
  <2> QED
    BY <2>2 DEF Leave, Return, synch, InBody, InSynch
<1>5. /\ Len(stack') = n - 1 /\ DOMAIN stack' = 1 .. n - 1
      /\ \A i \in 1 .. n - 1 : stack'[i] = stack[i]
  <2>1. /\ stack' \in Seq(FrameType) /\ Len(stack') = n - 1
        /\ \A i \in 1 .. n - 1 : stack'[i] = stack[i]
    BY <1>2, <1>3, Popped
  <2> QED
    BY <2>1, LenProperties
<1>6. /\ counts' \in Seq(Nat) /\ Len(counts') = n - 1
      /\ Top.prod \in HandsUp => n > 1 /\ counts'[n - 1] = counts[n]
      /\ \A i \in 1 .. n - 1 :
           (Top.prod \in HandsUp => i # n - 1) => counts'[i] = counts[i]
  BY <1>2, HandedCounts
<1> HIDE DEF n
<1>7. \A i \in 1 .. n - 1 : i \in DOMAIN stack /\ i + 1 \in DOMAIN stack /\ i < Len(stack)
  BY <1>3 DEF n
<1>8. ASSUME NEW i \in 1 .. n - 1, Top.prod \in HandsUp, i = n - 1
      PROVE  /\ stack[i].prod \in Counters /\ stack[i].todo # <<Sub("param_list_")>>
             /\ \A p \in HandsUp : ~Ahead(i, Sub(p))
  <2>1. i + 1 = n
    BY <1>3, <1>8
  <2> QED
    BY <1>1, <1>3, <1>7, <1>8, <2>1, CallerOfPart
<1>9. TakesOverOnce'
  <2> SUFFICES ASSUME NEW i \in DOMAIN stack', stack'[i].prod \in Counters \ {"param_list_"},
                      NEW p \in HandsUp,
                      stack'[i].at = "switch" \/ Sub(p) \in ToSet(stack'[i].todo)
               PROVE  counts'[i] = 0
    BY DEF TakesOverOnce, Ahead
  <2>1. i \in 1 .. n - 1 /\ i \in DOMAIN stack /\ stack'[i] = stack[i]
    BY <1>5, <1>7
  <2>2. Ahead(i, Sub(p))
    BY <2>1 DEF Ahead
  <2>3. counts'[i] = counts[i]
    BY <1>6, <1>8, <2>1, <2>2
  <2> QED
    BY <2>1, <2>2, <2>3 DEF CountIsHandedUp, TakesOverOnce
<1>10. AllAreCounted'
  <2> SUFFICES ASSUME HeadIsEntered', NEW i \in DOMAIN stack', stack'[i].prod \in Counters,
                      i < Len(stack') => stack'[i + 1].prod \notin HandsUp
               PROVE  c' = counts'[i] + Uncounted(i)'
    BY DEF AllAreCounted
  <2>1. HeadIsEntered
    BY EnteredKept DEF HeadIsEntered, HeadCall, Leave
  <2>2. i \in 1 .. n - 1 /\ i \in DOMAIN stack /\ stack'[i] = stack[i]
    BY <1>5, <1>7
  <2>3. Uncounted(i)' = Uncounted(i)
    BY <2>2 DEF Uncounted
  <2>4. CASE Top.prod \in HandsUp /\ i = n - 1
    <3>1. Uncounted(i) = 0
      BY <1>8, <2>2, <2>4 DEF Uncounted
    <3>2. n \in DOMAIN stack /\ stack[n].prod \in Counters /\ ~(n < Len(stack))
      BY <1>3, <2>4 DEF Counters, n
    <3>3. c = counts[n] + Uncounted(n)
      BY <2>1, <3>2 DEF CountIsHandedUp, AllAreCounted
    <3>4. Uncounted(n) = 0
      BY <1>3, <1>4 DEF Uncounted
    <3> QED
      BY <1>6, <2>3, <2>4, <3>1, <3>3, <3>4
  <2>5. CASE ~(Top.prod \in HandsUp /\ i = n - 1)
    <3>1. i < Len(stack) => stack[i + 1].prod \notin HandsUp
      <4>1. CASE i = n - 1
        BY <1>3, <2>2, <2>5, <4>1
      <4>2. CASE i # n - 1
        <5>1. i < Len(stack') /\ i + 1 \in 1 .. n - 1
          BY <1>3, <1>5, <2>2, <4>2
        <5> QED
          BY <1>5, <5>1
      <4> QED
        BY <4>1, <4>2
    <3>2. c = counts[i] + Uncounted(i)
      BY <2>1, <2>2, <3>1 DEF CountIsHandedUp, AllAreCounted
    <3>3. counts'[i] = counts[i]
      BY <1>6, <2>2, <2>5
    <3> QED
      BY <2>3, <3>2, <3>3
  <2> QED
    BY <2>4, <2>5
<1> QED
  BY <1>5, <1>6, <1>9, <1>10 DEF CountIsHandedUp

\* The parameter entered is counted with the call that entered it.
LEMMA ParamKeepsCounts ==
  ASSUME ParserInvariant, CountIsHandedUp, TableCall, Parametrised, c' = c + 1, counts' = counts
  PROVE  CountIsHandedUp'
<1> DEFINE n == Len(stack)
           f == Advanced
<1>1. /\ ParserTypeOK /\ PlacesInBodies /\ CallsNest /\ NextIs("table") /\ Become(f)
  BY DEF ParserInvariant, StackInvariant, TableCall
<1>2. /\ stack # <<>> /\ f \in FrameType /\ f.prod = Top.prod /\ f.at = "body"
      /\ Head(Top.todo).op = "table"
  BY <1>1, HeadIsStep
<1>3. /\ n \in Nat \ {0} /\ DOMAIN stack = 1 .. n /\ Top = stack[n] /\ n \in DOMAIN stack
      /\ counts[n] \in Nat
  <2>1. n \in 1 .. n
    BY <1>1, <1>2, StackOfCounts
  <2> QED
    BY <1>1, <1>2, <2>1, StackOfCounts
<1>4. \A p \in HandsUp : Sub(p) \in ToSet(f.todo) => Ahead(n, Sub(p))
  BY <1>1, <1>3, OthersStayAhead DEF Ahead
<1>5. Head(Top.todo) = Sym("check_add_fun_param") /\ Top.prod \in HandsUp
  <2>1. /\ Head(Top.todo).arg \in TableCalls(Top.prod)
        /\ Head(Top.todo) = Sym(Head(Top.todo).arg)
    BY <1>1, CallOfProduction
  <2>2. Top.prod \in HeadParts
    BY <2>1, CallsByProduction DEF Parametrised
  <2> QED
    BY <2>1, <2>2, CountersAreParts DEF Parametrised
<1>6. f.todo = <<Sub("param_list_")>> /\ Top.todo # <<Sub("param_list_")>>
  <2>1. Top.todo = <<Sub("param_list_")>> => Head(Top.todo) = Sub("param_list_")
    OBVIOUS
  <2>2. Sub("param_list_") # Sym("check_add_fun_param")
    BY SubIsItself
  <2> QED
    BY <1>1, <1>5, <2>1, <2>2, UncountedNext DEF Counters
<1> HIDE DEF f
<1>7. /\ counts' \in Seq(Nat) /\ Len(counts') = Len(stack') /\ TakesOverOnce'
      /\ Len(stack') = n /\ DOMAIN stack' = DOMAIN stack /\ stack'[n] = f
      /\ \A i \in DOMAIN stack : i # n => stack'[i] = stack[i]
      /\ \A i \in DOMAIN stack : stack'[i].prod = stack[i].prod
  BY <1>1, <1>2, <1>4, OnceKept
<1> HIDE DEF n
<1>8. AllAreCounted'
  <2> SUFFICES ASSUME HeadIsEntered', NEW i \in DOMAIN stack', stack'[i].prod \in Counters,
                      i < Len(stack') => stack'[i + 1].prod \notin HandsUp
               PROVE  c' = counts'[i] + Uncounted(i)'
    BY DEF AllAreCounted
  <2>1. i \in DOMAIN stack /\ stack[i].prod \in Counters
    BY <1>7
  <2>2. i = n
    <3> SUFFICES ASSUME i # n PROVE FALSE
      OBVIOUS
    <3>1. i < Len(stack) /\ i < Len(stack') /\ i + 1 \in DOMAIN stack
      BY <1>3, <1>7, <2>1 DEF n
    <3>2. stack[i + 1].prod \in HandsUp
      BY <1>1, <1>5, <2>1, <3>1, PartsHaveNoGap
    <3> QED
      BY <1>7, <3>1, <3>2
  <2>3. c = counts[n] + Uncounted(n)
    <3>1. HeadIsEntered /\ ~(n < Len(stack))
      BY <1>3 DEF Parametrised, n
    <3> QED
      BY <2>1, <2>2, <3>1 DEF CountIsHandedUp, AllAreCounted
  <2>4. Uncounted(n) = 0
    BY <1>3, <1>6 DEF Uncounted
  <2>5. Uncounted(i)' = 1
    BY <1>6, <1>7, <2>2 DEF Uncounted
  <2> QED
    BY <1>3, <2>2, <2>3, <2>4, <2>5
<1> QED
  BY <1>7, <1>8 DEF CountIsHandedUp

\* A method that is entered has no parameters yet.
LEMMA EnterKeepsCounts ==
  ASSUME ParserInvariant, CountIsHandedUp, TableCall, Entering, c' = 0, counts' = counts
  PROVE  CountIsHandedUp'
<1> DEFINE n == Len(stack)
           f == Advanced
<1>1. /\ ParserTypeOK /\ PlacesInBodies /\ CallsNest /\ NextIs("table") /\ Become(f)
  BY DEF ParserInvariant, StackInvariant, TableCall
<1>2. /\ stack # <<>> /\ f \in FrameType /\ f.prod = Top.prod /\ f.at = "body"
  BY <1>1, HeadIsStep
<1>3. /\ n \in Nat \ {0} /\ DOMAIN stack = 1 .. n /\ Top = stack[n] /\ n \in DOMAIN stack
      /\ counts[n] \in Nat
  <2>1. n \in 1 .. n
    BY <1>1, <1>2, StackOfCounts
  <2> QED
    BY <1>1, <1>2, <2>1, StackOfCounts
<1>4. \A p \in HandsUp : Sub(p) \in ToSet(f.todo) => Ahead(n, Sub(p))
  BY <1>1, <1>3, OthersStayAhead DEF Ahead
<1>5. Head(Top.todo) = Sym("check_enter_method")
  BY <1>1, CallOfProduction DEF Entering
<1>6. Top.prod \in Counters => f.todo # <<Sub("param_list_")>>
  <2>1. Sym("check_enter_method") # Sym("check_add_fun_param")
    BY DEF Sym
  <2> QED
    BY <1>1, <1>5, <2>1, UncountedNext
<1>7. ASSUME HeadIsEntered'
      PROVE  Top.prod = "subprogram_head" /\ counts[n] = 0
  <2>1. Top.prod = "subprogram_head"
    BY <1>7 DEF Entering
  <2> DEFINE l == Len(Top.todo)
  <2>2. l = 4
    <3>1. l \in 1 .. 6 /\ Head(Top.todo) = HeadBody[7 - l]
      BY <1>1, <2>1, HeadStep
    <3> HIDE DEF l
    <3> DEFINE j == 7 - l
    <3>2. j \in 1 .. 6 /\ (j = 3 => l = 4)
      BY <3>1
    <3>3. HeadBody[j] = Sym("check_enter_method")
      BY <1>5, <3>1
    <3> HIDE DEF j
    <3>4. j = 3
      BY <3>2, <3>3, HeadCalls
    <3> QED
      BY <3>2, <3>4
  <2>3. Sub("subprogram_head_") \in ToSet(Top.todo)
    <3>1. PICK a \in Rules[Top.prod] : \E k \in 0 .. Len(a.body) :
            Top.todo = SubSeq(a.body, k + 1, Len(a.body)) /\ StandsBehind(a, k)
      BY <1>1, <1>2, TopHasPlace, HeadIsStep
    <3>2. PICK k \in 0 .. Len(a.body) : Top.todo = SubSeq(a.body, k + 1, Len(a.body))
      BY <3>1
    <3>3. a.body = HeadBody
      BY <2>1, HeadAssumption
    <3> DEFINE S == {HeadBody[x] : x \in 1 .. 6}
               b == HeadBody
    <3>4. b \in Seq(S) /\ Len(b) = 6 /\ k \in 0 .. Len(b) /\ Top.todo = SubSeq(b, k + 1, Len(b))
      BY <3>2, <3>3, HeadCalls
    <3>5. b[4] = Sub("subprogram_head_")
      BY DEF HeadBody
    <3> HIDE DEF b, S
    <3>6. Len(Top.todo) = 6 - k
      BY <3>4, Rest
    <3>7. k < 4 /\ 4 \in 1 .. Len(b)
      BY <2>2, <3>4, <3>6
    <3> QED
      BY <3>4, <3>5, <3>7, InRest
  <2>4. Ahead(n, Sub("subprogram_head_")) /\ stack[n].prod \in Counters \ {"param_list_"}
        /\ "subprogram_head_" \in HandsUp
    BY <1>3, <2>1, <2>3 DEF Ahead, Counters, HandsUp
  <2> QED
    BY <1>3, <2>1, <2>4 DEF CountIsHandedUp, TakesOverOnce
<1> HIDE DEF f
<1>8. /\ counts' \in Seq(Nat) /\ Len(counts') = Len(stack') /\ TakesOverOnce'
      /\ Len(stack') = n /\ DOMAIN stack' = DOMAIN stack /\ stack'[n] = f
      /\ \A i \in DOMAIN stack : i # n => stack'[i] = stack[i]
      /\ \A i \in DOMAIN stack : stack'[i].prod = stack[i].prod
  BY <1>1, <1>2, <1>4, OnceKept
<1> HIDE DEF n
<1>9. AllAreCounted'
  <2> SUFFICES ASSUME HeadIsEntered', NEW i \in DOMAIN stack', stack'[i].prod \in Counters
               PROVE  c' = counts'[i] + Uncounted(i)'
    BY DEF AllAreCounted
  <2>1. i \in DOMAIN stack /\ stack[i].prod \in Counters
    BY <1>8
  <2>2. i = n
    <3> SUFFICES ASSUME i # n PROVE FALSE
      OBVIOUS
    <3>1. i < n
      BY <1>3, <2>1
    <3>2. stack[n].prod \in InHead
      BY <1>1, <1>3, <2>1, <3>1, OnlyPartsInside, CountersAreParts
    <3> QED
      BY <1>3, <1>7, <3>2, CountersAreParts
  <2>3. Uncounted(i)' = 0
    BY <1>3, <1>6, <1>8, <2>1, <2>2 DEF Uncounted
  <2> QED
    BY <1>7, <2>2, <2>3
<1> QED
  BY <1>8, <1>9 DEF CountIsHandedUp

\* The count that parse_subprogram_head passes.
LEMMA LastIsCount ==
  ASSUME ParserInvariant, CountIsHandedUp, NextIs("table"), NextIsCount
  PROVE  Last(counts) = c
<1> DEFINE n == Len(stack)
<1>1. /\ ParserTypeOK /\ PlacesInBodies /\ stack # <<>>
  BY HeadIsStep DEF ParserInvariant, StackInvariant
<1>2. n \in Nat /\ n \in DOMAIN stack /\ Top = stack[n] /\ Last(counts) = counts[n]
  BY <1>1, StackOfCounts
<1>3. counts[n] \in Nat
  <2>1. n \in 1 .. n
    BY <1>1, StackOfCounts
  <2> QED
    BY <1>1, <2>1, StackOfCounts
<1>4. Head(Top.todo).arg = "set_method_param_count"
  BY DEF NextIsCount, Sym
<1>5. HeadIsEntered
  BY <1>4, CalledInHead
<1>6. Top.prod \in Counters
  BY <1>1, <1>4, CallOfProduction, CallsByProduction, CountersAreParts
<1>7. c = counts[n] + Uncounted(n)
  BY <1>2, <1>5, <1>6 DEF CountIsHandedUp, AllAreCounted
<1>8. Uncounted(n) = 0
  <2>1. Top.todo = <<Sub("param_list_")>> => Head(Top.todo) = Sub("param_list_")
    OBVIOUS
  <2>2. Sub("param_list_") # Sym("set_method_param_count")
    BY SubIsItself
  <2> QED
    BY <1>2, <2>1, <2>2 DEF Uncounted, NextIsCount
<1> QED
  BY <1>2, <1>3, <1>7, <1>8

\* Every step of the parser with its attributes is one of Frontend.tla.
LEMMA HandStep ==
  ASSUME ParserInvariant, CountIsHandedUp, HandNext
  PROVE  FrontNext
<1>1. CASE Go /\ UNCHANGED <<tableVars, counts>>
  BY <1>1 DEF Go, FrontNext
<1>2. CASE Call /\ UNCHANGED tableVars
  BY <1>2 DEF FrontNext
<1>3. CASE Leave /\ UNCHANGED tableVars
  BY <1>3 DEF Leave, FrontNext
<1>4. CASE TableCall /\ NextIsCount /\ set_method_param_count(Last(counts)) /\ UNCHANGED c
  <2>1. Head(Top.todo).arg = "set_method_param_count"
    BY <1>4 DEF NextIsCount, Sym
  <2>2. Last(counts) = c
    BY <1>4, LastIsCount DEF TableCall
  <2>3. TableFunction("set_method_param_count")
    BY <1>4, <2>2 DEF TableFunction
  <2> QED
    BY <1>4, <2>1, <2>3 DEF FrontNext
<1>5. CASE TableCall /\ TableFunction(Head(Top.todo).arg)
  BY <1>5 DEF FrontNext
<1> QED
  BY <1>1, <1>2, <1>3, <1>4, <1>5 DEF HandNext

LEMMA HandKeeps ==
  ASSUME ParserInvariant, CountIsHandedUp, [HandNext]_handVars
  PROVE  CountIsHandedUp'
<1>1. CASE Go /\ UNCHANGED <<tableVars, counts>>
  <2>1. UNCHANGED <<c, counts>>
    BY <1>1 DEF tableVars
  <2>2. CASE UNCHANGED stack /\ (synch \/ Finish)
    <3>1. HeadIsEntered' <=> HeadIsEntered
      BY <2>2 DEF HeadIsEntered, EnteredWith
    <3>2. AllAreCounted'
      BY <2>1, <2>2, <3>1 DEF CountIsHandedUp, AllAreCounted, Uncounted
    <3>3. TakesOverOnce'
      BY <2>1, <2>2 DEF CountIsHandedUp, TakesOverOnce, Ahead
    <3> QED
      BY <2>1, <2>2, <3>2, <3>3 DEF CountIsHandedUp
  <2>3. Finish => UNCHANGED stack
    BY DEF Finish
  <2> QED
    BY <1>1, <2>1, <2>2, <2>3, SwitchKeepsCounts, MatchKeepsCounts DEF Go
<1>2. CASE Call /\ counts' = Append(counts, Passed(Head(Top.todo).arg)) /\ UNCHANGED tableVars
  BY <1>2, CallKeepsCounts DEF tableVars
<1>3. CASE Leave /\ counts' = Handed /\ UNCHANGED tableVars
  BY <1>3, LeaveKeepsCounts DEF tableVars
<1>4. ASSUME TableCall, counts' = counts, TableFunction(Head(Top.todo).arg)
      PROVE  CountIsHandedUp'
  <2>1. /\ ParserTypeOK /\ PlacesInBodies /\ NextIs("table") /\ Become(Advanced)
    BY <1>4 DEF ParserInvariant, StackInvariant, TableCall
  <2>2. Entering \/ Typing \/ Counting \/ Parametrised \/ Outside
    BY <1>4, TableCallsInOrder
  <2>3. CASE Entering
    BY <1>4, <2>3, EnterKeepsCounts DEF TableFunction, Entering
  <2>4. CASE Parametrised
    BY <1>4, <2>4, ParamKeepsCounts DEF TableFunction, Parametrised
  <2>5. CASE Typing \/ Counting \/ Outside
    <3>1. HeadIsEntered' => HeadIsEntered /\ c' = c
      BY <1>4, <2>5 DEF TableFunction, Typing, Counting, Outside
    <3>2. Head(Top.todo).arg # "check_add_fun_param"
      BY <2>5 DEF Typing, Counting, Outside
    <3>3. Head(Top.todo) # Sym("check_add_fun_param")
      BY <3>2 DEF Sym
    <3> QED
      BY <1>4, <2>1, <3>1, <3>3, AdvanceKeepsCounts
  <2> QED
    BY <2>2, <2>3, <2>4, <2>5
<1>5. CASE UNCHANGED handVars
  <2>1. UNCHANGED <<stack, c, counts>>
    BY <1>5 DEF handVars, allVars, parserVars, tableVars
  <2>2. HeadIsEntered' <=> HeadIsEntered
    BY <2>1 DEF HeadIsEntered, EnteredWith
  <2>3. AllAreCounted'
    BY <2>1, <2>2 DEF CountIsHandedUp, AllAreCounted, Uncounted
  <2>4. TakesOverOnce'
    BY <2>1 DEF CountIsHandedUp, TakesOverOnce, Ahead
  <2> QED
    BY <2>1, <2>3, <2>4 DEF CountIsHandedUp
<1>6. ASSUME TableCall, counts' = counts, NextIsCount,
             set_method_param_count(Last(counts)), c' = c
      PROVE  CountIsHandedUp'
  <2>1. Last(counts) = c /\ Head(Top.todo).arg = "set_method_param_count"
    BY <1>6, LastIsCount DEF TableCall, NextIsCount, Sym
  <2>2. TableFunction(Head(Top.todo).arg)
    BY <1>6, <2>1 DEF TableFunction
  <2> QED
    BY <1>4, <1>6, <2>2
<1> QED
  BY <1>1, <1>2, <1>3, <1>4, <1>5, <1>6 DEF HandNext

LEMMA HandsStart == HandInit => CountIsHandedUp
<1> SUFFICES ASSUME HandInit PROVE CountIsHandedUp
  OBVIOUS
<1>1. stack = <<Frame("program", 0)>> /\ counts = <<0>>
  BY DEF HandInit, FrontInit, ParserInit
<1>2. /\ DOMAIN stack = {1} /\ stack[1].prod = "program"
      /\ counts \in Seq(Nat) /\ Len(counts) = Len(stack)
  BY <1>1 DEF Frame
<1> QED
  BY <1>2, CountersAreParts DEF CountIsHandedUp, TakesOverOnce, AllAreCounted

\* The count that reaches parse_subprogram_head through the attributes of its
\* callees is the number of parameters they entered, on every source and
\* through any recovery.
THEOREM CountsAreHandedUp == HandSpec => []CountIsHandedUp
<1>1. FrontInvariant /\ CountIsHandedUp /\ [HandNext]_handVars
      => FrontInvariant' /\ CountIsHandedUp'
  <2> SUFFICES ASSUME FrontInvariant, CountIsHandedUp, [HandNext]_handVars
               PROVE  FrontInvariant' /\ CountIsHandedUp'
    OBVIOUS
  <2>1. ParserInvariant
    BY DEF FrontInvariant
  <2>2. [FrontNext]_allVars
    BY <2>1, HandStep DEF handVars
  <2> QED
    BY <2>1, <2>2, HandKeeps, FrontKeeps
<1>2. HandInit => FrontInvariant /\ CountIsHandedUp
  BY HandsStart, InitFront DEF HandInit
<1> QED
  BY <1>1, <1>2, PTL DEF HandSpec

\* The parser with its attributes implements Frontend.tla, so that all that is
\* proved there is true of it.
THEOREM AttributesImplementFrontend == HandSpec => ImplementsFrontend
<1>1. HandInit => FrontInit
  BY DEF HandInit
<1>2. FrontInvariant /\ CountIsHandedUp /\ [HandNext]_handVars => [FrontNext]_allVars
  BY HandStep DEF handVars, FrontInvariant
<1>3. HandSpec => []FrontInvariant
  <2>1. FrontInvariant /\ CountIsHandedUp /\ [HandNext]_handVars => FrontInvariant'
    BY <1>2, FrontKeeps
  <2>2. HandInit => FrontInvariant
    BY InitFront DEF HandInit
  <2> QED
    BY <2>1, <2>2, CountsAreHandedUp, PTL DEF HandSpec
<1> QED
  BY <1>1, <1>2, <1>3, CountsAreHandedUp, PTL DEF HandSpec, ImplementsFrontend, FrontSpec
=============================================================================
