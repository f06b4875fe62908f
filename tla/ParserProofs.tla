---------------------------- MODULE ParserProofs ----------------------------
(***************************************************************************)
(* Proofs about the parser on every source: its invariant is inductive,    *)
(* the recursion is driven by the source, and the end is honest.           *)
(*                                                                         *)
(* Rules and Rank stay folded.  What is used of the tables is              *)
(* RulesAssumption and RankAssumption, which TLC evaluates.                *)
(***************************************************************************)
EXTENDS Parser, GrammarFacts, SequenceTheorems, WellFoundedInduction, TLAPS

-----------------------------------------------------------------------------
(* The stack of calls.                                                     *)

\* A stack without its last element.
LEMMA Popped ==
  ASSUME NEW F, NEW s \in Seq(F), s # <<>>
  PROVE  /\ Len(s) \in Nat \ {0}
         /\ Last(s) \in F /\ Last(s) = s[Len(s)]
         /\ Front(s) \in Seq(F)
         /\ Len(Front(s)) = Len(s) - 1
         /\ \A i \in 1 .. Len(s) - 1 : Front(s)[i] = s[i]
<1> DEFINE n == Len(s)
           r == SubSeq(s, 1, n - 1)
<1>1. n \in Nat \ {0} /\ \A i \in 1 .. n : s[i] \in F
  BY LenProperties, ElementOfSeq, EmptySeq
<1> HIDE DEF n
<1>2. \A i \in 1 .. n - 1 : s[i] \in F
  BY <1>1
<1>3. n - 1 \in Int /\ 1 \in Int
  BY <1>1
<1>4. /\ r \in Seq(F)
      /\ Len(r) = IF 1 <= n - 1 THEN n - 1 - 1 + 1 ELSE 0
      /\ \A i \in 1 .. n - 1 - 1 + 1 : r[i] = s[1 + i - 1]
  BY <1>2, <1>3, SubSeqProperties
<1> HIDE DEF r
<1>5. \A i \in 1 .. n - 1 : r[i] = s[i]
  <2> TAKE i \in 1 .. n - 1
  <2>1. i \in 1 .. n - 1 - 1 + 1 /\ 1 + i - 1 = i
    BY <1>1
  <2> QED
    BY <1>4, <2>1
<1>6. Len(r) = n - 1
  BY <1>1, <1>4
<1>7. s[n] \in F
  BY <1>1
<1> QED
  BY <1>1, <1>4, <1>5, <1>6, <1>7 DEF Front, Last, n, r

\* A stack with its last element replaced.
LEMMA Replaced ==
  ASSUME NEW F, NEW s \in Seq(F), s # <<>>, NEW f \in F
  PROVE  /\ Append(Front(s), f) \in Seq(F)
         /\ Len(Append(Front(s), f)) = Len(s)
         /\ \A i \in 1 .. Len(s) - 1 : Append(Front(s), f)[i] = s[i]
         /\ Append(Front(s), f)[Len(s)] = f
<1> DEFINE r == Front(s)
<1>1. Len(s) \in Nat \ {0} /\ r \in Seq(F) /\ Len(r) = Len(s) - 1
      /\ \A i \in 1 .. Len(s) - 1 : r[i] = s[i]
  BY Popped
<1> HIDE DEF r
<1>2. /\ Append(r, f) \in Seq(F)
      /\ Len(Append(r, f)) = Len(r) + 1
      /\ \A i \in 1 .. Len(r) : Append(r, f)[i] = r[i]
      /\ Append(r, f)[Len(r) + 1] = f
  BY <1>1, AppendProperties
<1>3. Len(r) + 1 = Len(s)
  BY <1>1
<1> QED
  BY <1>1, <1>2, <1>3 DEF r

-----------------------------------------------------------------------------
(* The state before a step.                                                *)

\* The running call is the last frame of the stack.
LEMMA TopIsFrame ==
  ASSUME ParserTypeOK, stack # <<>>
  PROVE  /\ Len(stack) \in Nat \ {0} /\ DOMAIN stack = 1 .. Len(stack)
         /\ Top \in FrameType /\ Top = stack[Len(stack)]
         /\ \A i \in DOMAIN stack : stack[i] \in FrameType
<1>1. stack \in Seq(FrameType)
  BY DEF ParserTypeOK
<1>2. DOMAIN stack = 1 .. Len(stack) /\ \A i \in 1 .. Len(stack) : stack[i] \in FrameType
  BY <1>1, LenProperties, ElementOfSeq
<1> QED
  BY <1>1, <1>2, Popped DEF Top

\* A step at the head of the running call's body.
LEMMA HeadIsStep ==
  ASSUME ParserTypeOK, NEW op, NextIs(op)
  PROVE  /\ stack # <<>> /\ outcome = "running"
         /\ Top.at = "body" /\ Top.todo # <<>>
         /\ Head(Top.todo) \in Step /\ Head(Top.todo).op = op
         /\ Advanced \in FrameType /\ Advanced.at = "body"
         /\ Advanced.prod = Top.prod /\ Advanced.from = Top.from
<1>1. stack # <<>> /\ outcome = "running" /\ Top.at = "body" /\ Top.todo # <<>>
      /\ Head(Top.todo).op = op
  BY DEF NextIs, InBody, Running
<1>2. Top \in FrameType /\ Top.todo \in Seq(Step)
  BY <1>1, TopIsFrame DEF FrameType
<1>3. Head(Top.todo) \in Step /\ Tail(Top.todo) \in Seq(Step)
  BY <1>1, <1>2, HeadTailProperties
<1> QED
  BY <1>1, <1>2, <1>3 DEF Advanced, FrameType

\* get_next_token goes on in the source, or stays at its end.
LEMMA ConsumeMovesOn ==
  ASSUME ParserTypeOK, Consume
  PROVE  /\ la' \in Token /\ source' \in Seq(Token)
         /\ read' \in Nat /\ free' \in 0 .. MaxFree
         /\ la = "EOF" => UNCHANGED sourceVars
         /\ la # "EOF" => read' = read + 1
<1>1. CASE la = "EOF"
  BY <1>1 DEF Consume, sourceVars, ParserTypeOK
<1>2. CASE la # "EOF"
  <2>1. source # <<>> => Head(source) \in Token /\ Tail(source) \in Seq(Token)
    BY HeadTailProperties DEF ParserTypeOK
  <2>2. "EOF" \in Token /\ Alphabet \subseteq Token
    BY AlphabetAssumption DEF Token
  <2> QED
    BY <1>2, <2>1, <2>2, MaxFreeAssumption DEF Consume, ParserTypeOK
<1> QED
  BY <1>1, <1>2

\* A call that has consumed nothing and is at a step has it at the beginning
\* of a case group, with a label for the next token: a match fits, and a call
\* is of lower rank.
LEMMA FirstStepFits ==
  ASSUME StackInvariant, NEW op, NextIs(op), Top.from = read
  PROVE  /\ op = "match" => la = Head(Top.todo).arg
         /\ op # "table"
         /\ op = "parse" => /\ Rank[Head(Top.todo).arg] < Rank[Top.prod]
                            /\ \E a \in Rules[Top.prod] :
                                 /\ la \in a.on /\ a.body # <<>>
                                 /\ Head(a.body) = Sub(Head(Top.todo).arg)
<1>1. /\ stack # <<>> /\ Top.at = "body" /\ Top.todo # <<>>
      /\ Head(Top.todo) \in Step /\ Head(Top.todo).op = op
  BY HeadIsStep DEF StackInvariant
<1>2. /\ Len(stack) \in DOMAIN stack /\ Top = stack[Len(stack)] /\ Top.prod \in Production
  BY <1>1, TopIsFrame DEF StackInvariant, FrameType
<1>3. PICK a \in Rules[Top.prod] : la \in a.on /\ Top.todo = a.body
  BY <1>1, <1>2 DEF StackInvariant, OnlyLeadingCalls
<1>4. LeadsOn(Top.prod, a)
  BY <1>1, <1>2, <1>3, RankAssumption
<1>5. CASE \E t \in Token : Head(a.body) = Tok(t) /\ a.on = {t}
  BY <1>1, <1>3, <1>5 DEF Tok
<1>6. CASE \E p \in Production : Head(a.body) = Sub(p) /\ Rank[p] < Rank[Top.prod]
  BY <1>1, <1>3, <1>6 DEF Sub
<1> QED
  BY <1>4, <1>5, <1>6 DEF LeadsOn

\* The leading call of a caller that has consumed nothing has a case group,
\* and not an empty one, for the next token.
LEMMA LeadingCallFits ==
  ASSUME StackInvariant, stack # <<>>, Len(stack) > 1, stack[Len(stack) - 1].from = read
  PROVE  /\ Top.from = read
         /\ la \in Labels(Top.prod)
         /\ \A b \in Rules[Top.prod] : b.body = <<>> => la \notin b.on
<1> DEFINE n == Len(stack)
<1>1. /\ n \in Nat /\ n \in DOMAIN stack /\ n - 1 \in DOMAIN stack
      /\ Top = stack[n] /\ Top \in FrameType /\ stack[n - 1] \in FrameType
  BY TopIsFrame DEF StackInvariant
<1>2. /\ stack[n - 1].from <= Top.from /\ Top.from <= read /\ stack[n - 1].at = "body"
  BY <1>1 DEF StackInvariant, CallsNest
<1>3. Top.from = read
  BY <1>1, <1>2 DEF FrameType, StackInvariant, ParserTypeOK
<1>4. PICK a \in Rules[stack[n - 1].prod] :
        la \in a.on /\ a.body # <<>> /\ Head(a.body) = Sub(Top.prod)
  <2>1. n - 1 < Len(stack) /\ n - 1 + 1 = n
    BY <1>1
  <2> QED
    BY <1>1, <1>2, <2>1 DEF StackInvariant, OnlyLeadingCalls
<1>5. LeadsOn(stack[n - 1].prod, a)
  BY <1>1, <1>4, RankAssumption DEF FrameType
<1>6. ~ \E t \in Token : Head(a.body) = Tok(t)
  <2>1. Head(a.body).op = "parse"
    BY <1>4 DEF Sub
  <2>2. \A t : Tok(t).op = "match"
    BY DEF Tok
  <2> QED
    BY <2>1, <2>2
<1>7. PICK p \in Production : /\ Head(a.body) = Sub(p)
                              /\ a.on \subseteq Labels(p)
                              /\ \A b \in Rules[p] : b.body = <<>> => a.on \cap b.on = {}
  BY <1>5, <1>6 DEF LeadsOn
<1>8. p = Top.prod
  BY <1>4, <1>7 DEF Sub
<1> QED
  BY <1>3, <1>4, <1>7, <1>8

-----------------------------------------------------------------------------
(* What the changes of the stack preserve.                                 *)

\* The running call goes on with what it is.
LEMMA BecomeKeepsNesting ==
  ASSUME StackInvariant, stack # <<>>, read' \in Nat, read <= read',
         NEW f \in FrameType, f.prod = Top.prod, f.from = Top.from, Become(f)
  PROVE  /\ stack' \in Seq(FrameType)
         /\ Len(stack') = Len(stack) /\ DOMAIN stack' = DOMAIN stack
         /\ stack'[Len(stack)] = f
         /\ \A i \in DOMAIN stack : i # Len(stack) => stack'[i] = stack[i]
         /\ \A i \in DOMAIN stack : /\ stack'[i].prod = stack[i].prod
                                    /\ stack'[i].from = stack[i].from
         /\ CallsNest' /\ RankFalls'
<1>1. stack \in Seq(FrameType) /\ CallsNest /\ RankFalls /\ ParserTypeOK
  BY DEF StackInvariant, ParserTypeOK
<1>2. /\ Len(stack) \in Nat \ {0} /\ DOMAIN stack = 1 .. Len(stack)
      /\ Top = stack[Len(stack)] /\ \A i \in DOMAIN stack : stack[i] \in FrameType
  BY <1>1, TopIsFrame
<1>3. /\ stack' \in Seq(FrameType) /\ Len(stack') = Len(stack)
      /\ stack'[Len(stack)] = f
      /\ \A i \in 1 .. Len(stack) - 1 : stack'[i] = stack[i]
  BY <1>1, Replaced DEF Become
<1>4. DOMAIN stack' = DOMAIN stack
  BY <1>2, <1>3, LenProperties
<1>5. \A i \in DOMAIN stack : i # Len(stack) => stack'[i] = stack[i]
  BY <1>2, <1>3
<1>6. \A i \in DOMAIN stack : /\ stack'[i].prod = stack[i].prod
                              /\ stack'[i].from = stack[i].from
  BY <1>2, <1>3, <1>5
<1>7. CallsNest'
  <2>1. \A i \in DOMAIN stack : stack[i].from \in Nat /\ stack[i].from <= read
    BY <1>1, <1>2 DEF CallsNest, FrameType
  <2>2. \A i \in DOMAIN stack : stack'[i].from <= read'
    BY <1>1, <1>6, <2>1 DEF ParserTypeOK
  <2>3. \A i, j \in DOMAIN stack : i < j =>
          stack'[i].at = "body" /\ stack'[i].from <= stack'[j].from
    BY <1>1, <1>2, <1>5, <1>6 DEF CallsNest
  <2> QED
    BY <1>4, <2>2, <2>3 DEF CallsNest
<1>8. RankFalls'
  BY <1>1, <1>4, <1>6 DEF RankFalls
<1> QED
  BY <1>3, <1>4, <1>5, <1>6, <1>7, <1>8

\* The running call returns.
LEMMA ReturnKeepsNesting ==
  ASSUME StackInvariant, stack # <<>>, read' = read, stack' = Front(stack)
  PROVE  /\ stack' \in Seq(FrameType)
         /\ DOMAIN stack' = 1 .. Len(stack) - 1
         /\ \A i \in DOMAIN stack' : i \in DOMAIN stack /\ stack'[i] = stack[i]
         /\ CallsNest' /\ RankFalls'
<1>1. stack \in Seq(FrameType) /\ CallsNest /\ RankFalls /\ ParserTypeOK
  BY DEF StackInvariant, ParserTypeOK
<1>2. Len(stack) \in Nat \ {0} /\ DOMAIN stack = 1 .. Len(stack)
  BY <1>1, TopIsFrame
<1>3. /\ stack' \in Seq(FrameType) /\ Len(stack') = Len(stack) - 1
      /\ \A i \in 1 .. Len(stack) - 1 : stack'[i] = stack[i]
  BY <1>1, Popped
<1>4. DOMAIN stack' = 1 .. Len(stack) - 1
  BY <1>3, LenProperties
<1>5. \A i \in DOMAIN stack' : i \in DOMAIN stack /\ stack'[i] = stack[i]
  BY <1>2, <1>3, <1>4
<1>6. CallsNest' /\ RankFalls'
  BY <1>1, <1>5 DEF CallsNest, RankFalls
<1> QED
  BY <1>3, <1>4, <1>5, <1>6

\* Where every call has consumed a token there is nothing to say.
LEMMA NothingFresh ==
  ASSUME read' \in Nat,
         \A i \in DOMAIN stack' : stack'[i].from \in Nat /\ stack'[i].from < read'
  PROVE  OnlyLeadingCalls'
<1>1. \A i \in DOMAIN stack' : stack'[i].from # read'
  OBVIOUS
<1> QED
  BY <1>1 DEF OnlyLeadingCalls

\* A token that is consumed is consumed by every active call.
LEMMA ConsumedByAll ==
  ASSUME StackInvariant, stack # <<>>, read' \in Nat,
         read' = read + 1 \/ (Top.from < read /\ read' = read),
         DOMAIN stack' = DOMAIN stack,
         \A i \in DOMAIN stack : stack'[i].from = stack[i].from
  PROVE  OnlyLeadingCalls'
<1>1. /\ Len(stack) \in DOMAIN stack /\ DOMAIN stack = 1 .. Len(stack) /\ Len(stack) \in Nat
      /\ Top = stack[Len(stack)] /\ \A i \in DOMAIN stack : stack[i].from \in Nat
  BY TopIsFrame DEF StackInvariant, FrameType
<1>2. \A i \in DOMAIN stack : stack[i].from <= Top.from /\ stack[i].from <= read
  <2> TAKE i \in DOMAIN stack
  <2>1. i = Len(stack) \/ i < Len(stack)
    BY <1>1
  <2> QED
    BY <1>1, <2>1 DEF StackInvariant, CallsNest
<1>3. \A i \in DOMAIN stack : stack[i].from < read'
  BY <1>1, <1>2 DEF StackInvariant, ParserTypeOK
<1> QED
  BY <1>1, <1>3, NothingFresh

-----------------------------------------------------------------------------
(* One lemma per action.                                                   *)

\* A case group or the default branch is chosen.
LEMMA SwitchKeeps ==
  ASSUME StackInvariant, Switch
  PROVE  StackInvariant'
<1>1. /\ stack # <<>> /\ outcome = "running" /\ Top.at = "switch"
      /\ UNCHANGED <<la, source, read, free, outcome>>
  BY DEF Switch, Running, sourceVars
<1>2. /\ Len(stack) \in Nat \ {0} /\ DOMAIN stack = 1 .. Len(stack)
      /\ Top \in FrameType /\ Top = stack[Len(stack)]
      /\ ParserTypeOK /\ read' \in Nat /\ read <= read'
  BY <1>1, TopIsFrame DEF StackInvariant, ParserTypeOK
<1>3. ASSUME NEW a \in Rules[Top.prod], la \in a.on,
             Become([Top EXCEPT !.at = "body", !.todo = a.body]), UNCHANGED syntax
      PROVE  StackInvariant'
  <2> DEFINE f == [Top EXCEPT !.at = "body", !.todo = a.body]
  <2>1. a.body \in Seq(Step)
    BY <1>2, RulesAssumption DEF FrameType
  <2>2. f \in FrameType /\ f.prod = Top.prod /\ f.from = Top.from /\ f.at = "body" /\ f.todo = a.body
    BY <1>2, <2>1 DEF FrameType
  <2>3. Become(f)
    BY <1>3
  <2> HIDE DEF f
  <2>4. /\ stack' \in Seq(FrameType) /\ Len(stack') = Len(stack) /\ DOMAIN stack' = DOMAIN stack
        /\ stack'[Len(stack)] = f
        /\ \A i \in DOMAIN stack : i # Len(stack) => stack'[i] = stack[i]
        /\ \A i \in DOMAIN stack : /\ stack'[i].prod = stack[i].prod
                                   /\ stack'[i].from = stack[i].from
        /\ CallsNest' /\ RankFalls'
    BY <1>1, <1>2, <2>2, <2>3, BecomeKeepsNesting
  <2>5. ParserTypeOK'
    BY <1>1, <1>2, <1>3, <2>4 DEF ParserTypeOK
  <2>6. OnlyLeadingCalls'
    <3> SUFFICES ASSUME NEW i \in DOMAIN stack, stack[i].from = read
                 PROVE  /\ stack'[i].at = "body" /\ i = Len(stack) =>
                             \E b \in Rules[stack'[i].prod] : la \in b.on /\ stack'[i].todo = b.body
                        /\ stack'[i].at = "body" /\ i < Len(stack) =>
                             \E b \in Rules[stack'[i].prod] :
                               la \in b.on /\ b.body # <<>> /\ Head(b.body) = Sub(stack'[i + 1].prod)
                        /\ stack'[i].at = "synch" /\ i > 1 => stack'[i - 1].from < read
      BY <1>1, <2>4 DEF OnlyLeadingCalls
    <3>1. CASE i = Len(stack)
      BY <1>2, <1>3, <2>2, <2>4, <3>1
    <3>2. CASE i < Len(stack)
      <4>1. stack'[i] = stack[i] /\ i + 1 \in DOMAIN stack /\ stack[i].at = "body"
        BY <1>2, <2>4, <3>2 DEF StackInvariant, CallsNest
      <4> QED
        BY <2>4, <3>2, <4>1 DEF StackInvariant, OnlyLeadingCalls
    <3> QED
      BY <1>2, <3>1, <3>2
  <2>7. RecoveryIsReported'
    BY <1>2, <1>3, <2>2, <2>4 DEF StackInvariant, RecoveryIsReported
  <2>8. EndsHonestly'
    BY <1>1 DEF EndsHonestly
  <2> QED
    BY <2>4, <2>5, <2>6, <2>7, <2>8 DEF StackInvariant
<1>4. ASSUME la \notin Labels(Top.prod), Become(Recovering), synerr
      PROVE  StackInvariant'
  <2>1. /\ Recovering \in FrameType /\ Recovering.prod = Top.prod
        /\ Recovering.from = Top.from /\ Recovering.at = "synch"
    BY <1>2, EmptySeq DEF Recovering, FrameType
  <2>2. /\ stack' \in Seq(FrameType) /\ Len(stack') = Len(stack) /\ DOMAIN stack' = DOMAIN stack
        /\ stack'[Len(stack)] = Recovering
        /\ \A i \in DOMAIN stack : i # Len(stack) => stack'[i] = stack[i]
        /\ \A i \in DOMAIN stack : /\ stack'[i].prod = stack[i].prod
                                   /\ stack'[i].from = stack[i].from
        /\ CallsNest' /\ RankFalls'
    BY <1>1, <1>2, <1>4, <2>1, BecomeKeepsNesting
  <2>3. ParserTypeOK'
    BY <1>1, <1>2, <1>4, <2>2 DEF ParserTypeOK, synerr
  <2>4. Len(stack) > 1 => stack[Len(stack) - 1].from < read
    <3>1. Len(stack) > 1 => stack[Len(stack) - 1].from # read
      BY <1>1, <1>4, LeadingCallFits
    <3>2. Len(stack) > 1 => /\ stack[Len(stack) - 1].from <= read
                            /\ stack[Len(stack) - 1].from \in Nat
      BY <1>1, <1>2, TopIsFrame DEF StackInvariant, CallsNest, FrameType
    <3> QED
      BY <1>2, <3>1, <3>2 DEF ParserTypeOK
  <2>5. OnlyLeadingCalls'
    <3> SUFFICES ASSUME NEW i \in DOMAIN stack, stack[i].from = read
                 PROVE  /\ stack'[i].at = "body" /\ i = Len(stack) =>
                             \E b \in Rules[stack'[i].prod] : la \in b.on /\ stack'[i].todo = b.body
                        /\ stack'[i].at = "body" /\ i < Len(stack) =>
                             \E b \in Rules[stack'[i].prod] :
                               la \in b.on /\ b.body # <<>> /\ Head(b.body) = Sub(stack'[i + 1].prod)
                        /\ stack'[i].at = "synch" /\ i > 1 => stack'[i - 1].from < read
      BY <1>1, <2>2 DEF OnlyLeadingCalls
    <3>1. CASE i = Len(stack)
      BY <1>2, <2>1, <2>2, <2>4, <3>1
    <3>2. CASE i < Len(stack)
      <4>1. stack'[i] = stack[i] /\ i + 1 \in DOMAIN stack /\ stack[i].at = "body"
        BY <1>2, <2>2, <3>2 DEF StackInvariant, CallsNest
      <4> QED
        BY <2>2, <3>2, <4>1 DEF StackInvariant, OnlyLeadingCalls
    <3> QED
      BY <1>2, <3>1, <3>2
  <2>6. RecoveryIsReported'
    BY <1>4 DEF RecoveryIsReported, synerr
  <2>7. EndsHonestly'
    BY <1>1 DEF EndsHonestly
  <2> QED
    BY <2>2, <2>3, <2>5, <2>6, <2>7 DEF StackInvariant
<1> QED
  BY <1>3, <1>4 DEF Switch

\* A token is matched or not, and consumed.
LEMMA MatchKeeps ==
  ASSUME StackInvariant, match
  PROVE  StackInvariant'
<1>1. /\ stack # <<>> /\ outcome = "running" /\ outcome' = outcome
      /\ Head(Top.todo) \in Step /\ Head(Top.todo).op = "match"
      /\ Advanced \in FrameType /\ Advanced.at = "body"
      /\ Advanced.prod = Top.prod /\ Advanced.from = Top.from
  BY HeadIsStep DEF match, StackInvariant
<1>2. /\ Len(stack) \in Nat \ {0} /\ DOMAIN stack = 1 .. Len(stack)
      /\ Top \in FrameType /\ Top = stack[Len(stack)] /\ ParserTypeOK
  BY <1>1, TopIsFrame DEF StackInvariant
<1>3. /\ la' \in Token /\ source' \in Seq(Token) /\ read' \in Nat /\ free' \in 0 .. MaxFree
      /\ la = "EOF" => UNCHANGED sourceVars
      /\ la # "EOF" => read' = read + 1
  BY ConsumeMovesOn DEF match, StackInvariant
<1>4. read <= read'
  BY <1>2, <1>3 DEF sourceVars, ParserTypeOK
<1>5. ASSUME NEW f \in FrameType, f.prod = Top.prod, f.from = Top.from, Become(f),
             la = Head(Top.todo).arg => la # "EOF"
      PROVE  /\ stack' \in Seq(FrameType) /\ DOMAIN stack' = DOMAIN stack
             /\ stack'[Len(stack)] = f
             /\ \A i \in DOMAIN stack : i # Len(stack) => stack'[i] = stack[i]
             /\ CallsNest' /\ RankFalls' /\ OnlyLeadingCalls'
  <2>1. /\ stack' \in Seq(FrameType) /\ DOMAIN stack' = DOMAIN stack
        /\ stack'[Len(stack)] = f
        /\ \A i \in DOMAIN stack : i # Len(stack) => stack'[i] = stack[i]
        /\ \A i \in DOMAIN stack : stack'[i].from = stack[i].from
        /\ CallsNest' /\ RankFalls'
    BY <1>1, <1>3, <1>4, <1>5, BecomeKeepsNesting
  <2>2. la # Head(Top.todo).arg => Top.from # read
    BY FirstStepFits DEF match
  <2>3. Top.from <= read /\ Top.from \in Nat /\ read \in Nat
    BY <1>2 DEF StackInvariant, CallsNest, FrameType, ParserTypeOK
  <2>4. read' = read \/ read' = read + 1
    BY <1>3 DEF sourceVars
  <2>5. read' = read + 1 \/ (Top.from < read /\ read' = read)
    BY <1>3, <1>5, <2>2, <2>3, <2>4
  <2>6. OnlyLeadingCalls'
    BY <1>1, <1>3, <2>1, <2>5, ConsumedByAll
  <2> QED
    BY <2>1, <2>6
<1>6. EndsHonestly'
  BY <1>1 DEF EndsHonestly
<1>7. CASE la = Head(Top.todo).arg /\ Become(Advanced) /\ UNCHANGED syntax
  <2>1. la = Head(Top.todo).arg => la # "EOF"
    BY <1>1, <1>7 DEF Step
  <2>2. /\ stack' \in Seq(FrameType) /\ DOMAIN stack' = DOMAIN stack
        /\ stack'[Len(stack)] = Advanced
        /\ \A i \in DOMAIN stack : i # Len(stack) => stack'[i] = stack[i]
        /\ CallsNest' /\ RankFalls' /\ OnlyLeadingCalls'
    BY <1>1, <1>5, <1>7, <2>1
  <2>3. ParserTypeOK'
    BY <1>1, <1>2, <1>3, <1>7, <2>2 DEF ParserTypeOK
  <2>4. RecoveryIsReported'
    BY <1>1, <1>2, <1>7, <2>2 DEF StackInvariant, RecoveryIsReported
  <2> QED
    BY <1>6, <2>2, <2>3, <2>4 DEF StackInvariant
<1>8. CASE la # Head(Top.todo).arg /\ Become(Recovering) /\ synerr
  <2>1. /\ Recovering \in FrameType /\ Recovering.prod = Top.prod
        /\ Recovering.from = Top.from
    BY <1>2, EmptySeq DEF Recovering, FrameType
  <2>2. stack' \in Seq(FrameType) /\ CallsNest' /\ RankFalls' /\ OnlyLeadingCalls'
    BY <1>5, <1>8, <2>1
  <2>3. ParserTypeOK'
    BY <1>1, <1>2, <1>3, <1>8, <2>2 DEF ParserTypeOK, synerr
  <2>4. RecoveryIsReported'
    BY <1>8 DEF RecoveryIsReported, synerr
  <2> QED
    BY <1>6, <2>2, <2>3, <2>4 DEF StackInvariant
<1> QED
  BY <1>7, <1>8 DEF match

\* A call of a production in a body.
LEMMA CallIsSub ==
  ASSUME NEW s \in Step, s.op = "parse"
  PROVE  s = Sub(s.arg) /\ s.arg \in Production
BY DEF Step, Sub

\* The stack after a call.
LEMMA Called ==
  ASSUME ParserTypeOK, Call
  PROVE  /\ stack' \in Seq(FrameType) /\ Len(stack') = Len(stack) + 1
         /\ \A i \in 1 .. Len(stack) - 1 : stack'[i] = stack[i]
         /\ stack'[Len(stack)] = Advanced
         /\ stack'[Len(stack) + 1] = Frame(Head(Top.todo).arg, read)
<1> DEFINE n == Len(stack)
           q == Head(Top.todo).arg
           r == Append(Front(stack), Advanced)
<1>1. /\ stack # <<>> /\ stack \in Seq(FrameType) /\ n \in Nat \ {0}
      /\ Head(Top.todo) \in Step /\ Head(Top.todo).op = "parse"
      /\ Advanced \in FrameType
  BY HeadIsStep, TopIsFrame DEF Call, ParserTypeOK
<1>2. Frame(q, read) \in FrameType
  BY <1>1, EmptySeq, CallIsSub DEF Frame, FrameType, ParserTypeOK
<1>3. /\ r \in Seq(FrameType) /\ Len(r) = n /\ r[n] = Advanced
      /\ \A i \in 1 .. n - 1 : r[i] = stack[i]
  BY <1>1, Replaced
<1> HIDE DEF r
<1>4. stack' = Append(r, Frame(q, read))
  BY <1>2, <1>3, AppendIsConcat DEF Call, r
<1>5. /\ Append(r, Frame(q, read)) \in Seq(FrameType)
      /\ Len(Append(r, Frame(q, read))) = n + 1
      /\ \A i \in 1 .. n : Append(r, Frame(q, read))[i] = r[i]
      /\ Append(r, Frame(q, read))[n + 1] = Frame(q, read)
  BY <1>2, <1>3, AppendProperties
<1>6. 1 .. n - 1 \subseteq 1 .. n /\ n \in 1 .. n
  BY <1>1
<1> QED
  BY <1>3, <1>4, <1>5, <1>6, Zenon

\* A production is called: one of lower rank, if its caller has consumed
\* nothing.
LEMMA CallKeeps ==
  ASSUME StackInvariant, Call
  PROVE  StackInvariant'
<1> DEFINE n == Len(stack)
           q == Head(Top.todo).arg
<1>1. /\ stack # <<>> /\ outcome = "running"
      /\ UNCHANGED <<la, source, read, free, syntax, outcome>>
      /\ Head(Top.todo) \in Step /\ Head(Top.todo).op = "parse"
      /\ Advanced \in FrameType /\ Advanced.at = "body"
      /\ Advanced.prod = Top.prod /\ Advanced.from = Top.from
  BY HeadIsStep DEF Call, StackInvariant, sourceVars
<1>2. /\ n \in Nat \ {0} /\ DOMAIN stack = 1 .. n
      /\ Top \in FrameType /\ Top = stack[n]
      /\ \A i \in 1 .. n : stack[i] \in FrameType
      /\ ParserTypeOK /\ stack \in Seq(FrameType) /\ read \in Nat
  BY <1>1, TopIsFrame DEF StackInvariant, ParserTypeOK
<1>3. q \in Production
  BY <1>1 DEF Step
<1>4. /\ Frame(q, read) \in FrameType /\ Frame(q, read).at = "switch"
      /\ Frame(q, read).prod = q /\ Frame(q, read).from = read
  BY <1>2, <1>3, EmptySeq DEF Frame, FrameType
<1>5. /\ stack' \in Seq(FrameType) /\ Len(stack') = n + 1
      /\ \A i \in 1 .. n - 1 : stack'[i] = stack[i]
      /\ stack'[n] = Advanced /\ stack'[n + 1] = Frame(q, read)
  BY <1>2, Called
<1>7. Top.from = read => /\ Rank[q] < Rank[Top.prod]
                         /\ \E a \in Rules[Top.prod] :
                              la \in a.on /\ a.body # <<>> /\ Head(a.body) = Sub(q)
  BY FirstStepFits DEF Call
<1> HIDE DEF n, q
<1>8. DOMAIN stack' = 1 .. n + 1
  BY <1>5, LenProperties
<1>9. \A i \in 1 .. n : /\ stack'[i].prod = stack[i].prod /\ stack'[i].from = stack[i].from
                        /\ stack'[i].at = "body"
  <2> TAKE i \in 1 .. n
  <2>1. CASE i = n
    BY <1>1, <1>2, <1>5, <2>1
  <2>2. CASE i # n
    BY <1>2, <1>5, <2>2 DEF StackInvariant, CallsNest
  <2> QED
    BY <2>1, <2>2
<1>10. ParserTypeOK'
  BY <1>1, <1>2, <1>5 DEF ParserTypeOK
<1>11. \A i \in 1 .. n : stack[i].from \in Nat /\ stack[i].from <= read
  BY <1>2 DEF StackInvariant, CallsNest, FrameType
<1>12. CallsNest'
  <2>1. \A i \in 1 .. n + 1 : stack'[i].from <= read
    <3> TAKE i \in 1 .. n + 1
    <3>1. CASE i \in 1 .. n
      BY <1>9, <1>11, <3>1
    <3>2. CASE i = n + 1
      BY <1>2, <1>4, <1>5, <3>2
    <3> QED
      BY <1>2, <3>1, <3>2
  <2>2. ASSUME NEW i \in 1 .. n + 1, NEW j \in 1 .. n + 1, i < j
        PROVE  stack'[i].at = "body" /\ stack'[i].from <= stack'[j].from
    <3>1. i \in 1 .. n
      BY <1>2, <2>2
    <3>2. CASE j \in 1 .. n
      <4>1. stack[i].from <= stack[j].from
        BY <1>2, <2>2, <3>1, <3>2 DEF StackInvariant, CallsNest
      <4> QED
        BY <1>9, <3>1, <3>2, <4>1
    <3>3. CASE j = n + 1
      <4>1. stack'[j].from = read
        BY <1>4, <1>5, <3>3
      <4> QED
        BY <1>9, <1>11, <3>1, <4>1
    <3> QED
      BY <1>2, <3>2, <3>3
  <2> QED
    BY <1>1, <1>8, <2>1, <2>2 DEF CallsNest
<1>13. RankFalls'
  <2> SUFFICES ASSUME NEW i \in 1 .. n + 1, NEW j \in 1 .. n + 1, i < j,
                      stack'[i].from = stack'[j].from
               PROVE  Rank[stack'[j].prod] < Rank[stack'[i].prod]
    BY <1>8 DEF RankFalls
  <2>1. CASE j <= n
    BY <1>2, <1>9, <2>1 DEF StackInvariant, RankFalls
  <2>2. CASE j = n + 1 /\ i = n
    BY <1>2, <1>4, <1>5, <1>7, <1>9, <2>2
  <2>3. CASE j = n + 1 /\ i < n
    <3>1. stack[i].from = read /\ stack[i].from <= stack[n].from
      BY <1>2, <1>4, <1>5, <1>9, <2>3 DEF StackInvariant, CallsNest
    <3>2. Top.from = read /\ stack[i].from = stack[n].from
      BY <1>2, <1>11, <3>1
    <3>3. Rank[Top.prod] < Rank[stack[i].prod] /\ Rank[q] < Rank[Top.prod]
      BY <1>2, <1>7, <2>3, <3>2 DEF StackInvariant, RankFalls
    <3>4. Rank[q] \in Nat /\ Rank[Top.prod] \in Nat /\ Rank[stack[i].prod] \in Nat
      BY <1>2, <1>3, RankAssumption DEF FrameType
    <3> QED
      BY <1>2, <1>4, <1>5, <1>9, <2>3, <3>3, <3>4
  <2> QED
    BY <1>2, <2>1, <2>2, <2>3
<1>14. OnlyLeadingCalls'
  <2> SUFFICES ASSUME NEW i \in 1 .. n, stack[i].from = read
               PROVE  \E a \in Rules[stack[i].prod] :
                        la \in a.on /\ a.body # <<>> /\ Head(a.body) = Sub(stack'[i + 1].prod)
    <3>1. stack'[n + 1].at = "switch"
      BY <1>4, <1>5
    <3> QED
      BY <1>1, <1>2, <1>5, <1>8, <1>9, <3>1 DEF OnlyLeadingCalls
  <2>1. CASE i = n
    BY <1>2, <1>4, <1>5, <1>7, <2>1
  <2>2. CASE i < n
    <3>1. stack'[i + 1].prod = stack[i + 1].prod /\ stack[i].at = "body"
      BY <1>2, <1>9, <2>2 DEF StackInvariant, CallsNest
    <3> QED
      BY <1>2, <2>2, <3>1 DEF StackInvariant, OnlyLeadingCalls, n
  <2> QED
    BY <1>2, <2>1, <2>2
<1>15. RecoveryIsReported'
  <2>1. \A i \in 1 .. n + 1 : stack'[i].at # "synch"
    BY <1>2, <1>4, <1>5, <1>9
  <2> QED
    BY <1>8, <2>1 DEF RecoveryIsReported
<1>16. EndsHonestly'
  BY <1>1 DEF EndsHonestly
<1> QED
  BY <1>10, <1>12, <1>13, <1>14, <1>15, <1>16 DEF StackInvariant

\* The symbol table is called only after a token was consumed.
LEMMA TableCallKeeps ==
  ASSUME StackInvariant, TableCall
  PROVE  StackInvariant'
<1>1. /\ stack # <<>> /\ outcome = "running" /\ Become(Advanced)
      /\ UNCHANGED <<la, source, read, free, syntax, outcome>>
      /\ Advanced \in FrameType /\ Advanced.at = "body"
      /\ Advanced.prod = Top.prod /\ Advanced.from = Top.from
  BY HeadIsStep DEF TableCall, StackInvariant, sourceVars
<1>2. /\ Len(stack) \in DOMAIN stack /\ Top = stack[Len(stack)] /\ Top \in FrameType
      /\ ParserTypeOK /\ read \in Nat
  BY <1>1, TopIsFrame DEF StackInvariant, ParserTypeOK
<1>3. /\ stack' \in Seq(FrameType) /\ DOMAIN stack' = DOMAIN stack
      /\ stack'[Len(stack)] = Advanced
      /\ \A i \in DOMAIN stack : i # Len(stack) => stack'[i] = stack[i]
      /\ \A i \in DOMAIN stack : stack'[i].from = stack[i].from
      /\ CallsNest' /\ RankFalls'
  BY <1>1, <1>2, BecomeKeepsNesting
<1>4. ParserTypeOK'
  BY <1>1, <1>2, <1>3 DEF ParserTypeOK
<1>5. Top.from < read
  <2>1. Top.from # read
    BY FirstStepFits DEF TableCall
  <2> QED
    BY <1>2, <2>1 DEF StackInvariant, CallsNest, FrameType
<1>6. OnlyLeadingCalls'
  BY <1>1, <1>2, <1>3, <1>5, ConsumedByAll
<1>7. RecoveryIsReported'
  BY <1>1, <1>2, <1>3 DEF StackInvariant, RecoveryIsReported
<1>8. EndsHonestly'
  BY <1>1 DEF EndsHonestly
<1> QED
  BY <1>3, <1>4, <1>6, <1>7, <1>8 DEF StackInvariant

\* A call ends, and its caller, if any, has consumed a token.
LEMMA PopKeeps ==
  ASSUME StackInvariant, Running, stack' = Front(stack),
         UNCHANGED <<sourceVars, syntax, outcome>>,
         Len(stack) > 1 => stack[Len(stack) - 1].from < read
  PROVE  StackInvariant'
<1>1. /\ stack # <<>> /\ outcome = "running"
      /\ UNCHANGED <<la, source, read, free, syntax, outcome>>
  BY DEF Running, sourceVars
<1>2. /\ Len(stack) \in Nat \ {0} /\ DOMAIN stack = 1 .. Len(stack) /\ ParserTypeOK
      /\ \A i \in DOMAIN stack : stack[i].from \in Nat
  BY <1>1, TopIsFrame DEF StackInvariant, FrameType
<1>3. /\ stack' \in Seq(FrameType) /\ DOMAIN stack' = 1 .. Len(stack) - 1
      /\ \A i \in DOMAIN stack' : i \in DOMAIN stack /\ stack'[i] = stack[i]
      /\ CallsNest' /\ RankFalls'
  BY <1>1, ReturnKeepsNesting
<1>4. ParserTypeOK'
  BY <1>1, <1>2, <1>3 DEF ParserTypeOK
<1>5. OnlyLeadingCalls'
  <2>1. \A i \in DOMAIN stack' : stack[i].from < read
    <3> TAKE i \in DOMAIN stack'
    <3>1. i = Len(stack) - 1 \/ i < Len(stack) - 1
      BY <1>2, <1>3
    <3>2. Len(stack) > 1 /\ Len(stack) - 1 \in DOMAIN stack /\ i \in DOMAIN stack
      BY <1>2, <1>3
    <3>3. i < Len(stack) - 1 => stack[i].from <= stack[Len(stack) - 1].from
      BY <3>2 DEF StackInvariant, CallsNest
    <3> QED
      BY <1>2, <3>1, <3>2, <3>3 DEF ParserTypeOK
  <2> QED
    BY <1>1, <1>2, <1>3, <2>1, NothingFresh DEF ParserTypeOK
<1>6. RecoveryIsReported'
  BY <1>1, <1>3 DEF StackInvariant, RecoveryIsReported
<1>7. EndsHonestly'
  BY <1>1 DEF EndsHonestly
<1> QED
  BY <1>3, <1>4, <1>5, <1>6, <1>7 DEF StackInvariant

\* A body comes to its end: if its caller had consumed nothing, the switch
\* would have had a case group to run that is not empty.
LEMMA ReturnKeeps ==
  ASSUME StackInvariant, Return
  PROVE  StackInvariant'
<1>1. Running /\ stack # <<>> /\ Top.at = "body" /\ Top.todo = <<>>
  BY DEF Return, InBody, Running
<1>2. /\ Len(stack) \in Nat \ {0} /\ DOMAIN stack = 1 .. Len(stack) /\ Top = stack[Len(stack)]
      /\ \A i \in DOMAIN stack : stack[i].from \in Nat /\ stack[i].from <= read
      /\ read \in Nat
  BY <1>1, TopIsFrame DEF StackInvariant, ParserTypeOK, CallsNest, FrameType
<1>3. Len(stack) > 1 => stack[Len(stack) - 1].from # read
  <2> SUFFICES ASSUME Len(stack) > 1, stack[Len(stack) - 1].from = read
               PROVE  FALSE
    OBVIOUS
  <2>1. /\ Top.from = read
        /\ \A b \in Rules[Top.prod] : b.body = <<>> => la \notin b.on
    BY <1>1, LeadingCallFits
  <2>2. \E a \in Rules[Top.prod] : la \in a.on /\ Top.todo = a.body
    BY <1>1, <1>2, <2>1 DEF StackInvariant, OnlyLeadingCalls
  <2> QED
    BY <1>1, <2>1, <2>2
<1>4. Len(stack) > 1 => stack[Len(stack) - 1].from < read
  BY <1>2, <1>3
<1> QED
  BY <1>1, <1>4, PopKeeps DEF Return

\* synch leaves the call, ends the program or skips a token.
LEMMA SynchKeeps ==
  ASSUME StackInvariant, synch
  PROVE  StackInvariant'
<1>1. /\ Running /\ stack # <<>> /\ outcome = "running" /\ Top.at = "synch"
      /\ UNCHANGED syntax
  BY DEF synch, InSynch, Running
<1>2. /\ Len(stack) \in Nat \ {0} /\ DOMAIN stack = 1 .. Len(stack) /\ Top = stack[Len(stack)]
      /\ \A i \in DOMAIN stack : stack[i].from \in Nat /\ stack[i].from <= read
      /\ ParserTypeOK /\ read \in Nat
  BY <1>1, TopIsFrame DEF StackInvariant, ParserTypeOK, CallsNest, FrameType
<1>3. CASE stack' = Front(stack) /\ UNCHANGED <<sourceVars, outcome>>
  <2>1. Len(stack) > 1 => stack[Len(stack) - 1].from < read
    <3>1. Len(stack) > 1 /\ stack[Len(stack)].from = read => stack[Len(stack) - 1].from < read
      BY <1>1, <1>2 DEF StackInvariant, OnlyLeadingCalls
    <3>2. Len(stack) > 1 => stack[Len(stack) - 1].from <= stack[Len(stack)].from
      BY <1>2 DEF StackInvariant, CallsNest
    <3> QED
      BY <1>2, <3>1, <3>2
  <2> QED
    BY <1>1, <1>3, <2>1, PopKeeps
<1>4. CASE la = "EOF" /\ outcome' = "exit" /\ UNCHANGED <<stack, sourceVars>>
  <2>1. syntax
    BY <1>1, <1>2 DEF StackInvariant, RecoveryIsReported
  <2>2. EndsHonestly'
    BY <1>1, <1>4, <2>1 DEF EndsHonestly, sourceVars
  <2>3. ParserTypeOK'
    BY <1>1, <1>2, <1>4 DEF ParserTypeOK, sourceVars
  <2>4. CallsNest' /\ RankFalls' /\ OnlyLeadingCalls' /\ RecoveryIsReported'
    BY <1>1, <1>4 DEF StackInvariant, CallsNest, RankFalls, OnlyLeadingCalls,
                      RecoveryIsReported, sourceVars
  <2> QED
    BY <2>2, <2>3, <2>4 DEF StackInvariant
<1>5. CASE la # "EOF" /\ Consume /\ UNCHANGED <<stack, outcome>>
  <2>1. /\ la' \in Token /\ source' \in Seq(Token)
        /\ read' \in Nat /\ free' \in 0 .. MaxFree /\ read' = read + 1
    BY <1>2, <1>5, ConsumeMovesOn
  <2>2. ParserTypeOK'
    BY <1>1, <1>2, <1>5, <2>1 DEF ParserTypeOK
  <2>3. CallsNest'
    <3>1. \A i \in DOMAIN stack : stack[i].from <= read'
      BY <1>2, <2>1
    <3> QED
      BY <1>5, <3>1 DEF StackInvariant, CallsNest
  <2>4. RankFalls' /\ RecoveryIsReported'
    BY <1>1, <1>5 DEF StackInvariant, RankFalls, RecoveryIsReported
  <2>5. OnlyLeadingCalls'
    BY <1>1, <1>5, <2>1, ConsumedByAll
  <2>6. EndsHonestly'
    BY <1>1, <1>5 DEF EndsHonestly
  <2> QED
    BY <2>2, <2>3, <2>4, <2>5, <2>6 DEF StackInvariant
<1> QED
  BY <1>3, <1>4, <1>5 DEF synch

\* The end of the source is matched, after the last call has returned.
LEMMA FinishKeeps ==
  ASSUME StackInvariant, Finish
  PROVE  StackInvariant'
<1>1. /\ stack = <<>> /\ stack' = <<>> /\ outcome' = "done" /\ Consume
      /\ syntax' = (syntax \/ la # "EOF") /\ ParserTypeOK
  BY DEF Finish, StackInvariant
<1>2. /\ la' \in Token /\ source' \in Seq(Token) /\ read' \in Nat /\ free' \in 0 .. MaxFree
      /\ la = "EOF" => UNCHANGED sourceVars
  BY <1>1, ConsumeMovesOn
<1>3. ParserTypeOK'
  BY <1>1, <1>2, EmptySeq DEF ParserTypeOK
<1>4. DOMAIN stack' = {}
  BY <1>1, EmptySeq
<1>5. CallsNest' /\ RankFalls' /\ OnlyLeadingCalls' /\ RecoveryIsReported'
  BY <1>4 DEF CallsNest, RankFalls, OnlyLeadingCalls, RecoveryIsReported
<1>6. EndsHonestly'
  BY <1>1, <1>2 DEF EndsHonestly, sourceVars
<1> QED
  BY <1>3, <1>5, <1>6 DEF StackInvariant

\* parse begins with the call of parse_program.
LEMMA InitHolds == ParserInit => StackInvariant
<1> SUFFICES ASSUME ParserInit
             PROVE  StackInvariant
  OBVIOUS
<1>1. PICK begin \in Beginnings : begin # <<>> /\ la = Head(begin) /\ source = Tail(begin)
  BY DEF ParserInit
<1>2. la \in Token /\ source \in Seq(Token)
  <2>1. begin \in Seq(Token \ {"EOF"})
    BY <1>1, BeginningsAssumption
  <2>2. Head(begin) \in Token \ {"EOF"} /\ Tail(begin) \in Seq(Token \ {"EOF"})
    BY <1>1, <2>1, HeadTailProperties
  <2> QED
    BY <1>1, <2>2, SeqMonotonic
<1> DEFINE f == Frame("program", 0)
<1>3. f \in FrameType /\ f.at = "switch" /\ f.from = 0
  BY RulesAssumption, EmptySeq DEF Frame, FrameType
<1> HIDE DEF f
<1>4. /\ stack = <<f>> /\ read = 0 /\ free = 0 /\ syntax = FALSE /\ outcome = "running"
  BY DEF ParserInit, f
<1>5. stack \in Seq(FrameType) /\ DOMAIN stack = {1} /\ stack[1] = f
  BY <1>3, <1>4
<1>6. ParserTypeOK
  <2>1. read \in Nat /\ free \in 0 .. MaxFree
    BY <1>4, MaxFreeAssumption
  <2>2. syntax \in BOOLEAN /\ outcome \in {"running", "exit", "done"}
    BY <1>4, Zenon
  <2> QED
    BY <1>2, <1>5, <2>1, <2>2, Zenon DEF ParserTypeOK
<1>7. CallsNest /\ RankFalls /\ OnlyLeadingCalls /\ RecoveryIsReported /\ EndsHonestly
  BY <1>3, <1>4, <1>5 DEF CallsNest, RankFalls, OnlyLeadingCalls, RecoveryIsReported, EndsHonestly
<1> QED
  BY <1>6, <1>7 DEF StackInvariant

\* The invariant is inductive.
LEMMA NextKeeps == StackInvariant /\ [ParserNext]_parserVars => StackInvariant'
<1> SUFFICES ASSUME StackInvariant, [ParserNext]_parserVars
             PROVE  StackInvariant'
  OBVIOUS
<1>1. CASE UNCHANGED parserVars
  BY <1>1 DEF parserVars, sourceVars, StackInvariant, ParserTypeOK, CallsNest, RankFalls,
              OnlyLeadingCalls, RecoveryIsReported, EndsHonestly
<1>2. CASE Switch
  BY <1>2, SwitchKeeps
<1>3. CASE match
  BY <1>3, MatchKeeps
<1>4. CASE Call
  BY <1>4, CallKeeps
<1>5. CASE TableCall
  BY <1>5, TableCallKeeps
<1>6. CASE Return
  BY <1>6, ReturnKeeps
<1>7. CASE synch
  BY <1>7, SynchKeeps
<1>8. CASE Finish
  BY <1>8, FinishKeeps
<1> QED
  BY <1>1, <1>2, <1>3, <1>4, <1>5, <1>6, <1>7, <1>8 DEF ParserNext

-----------------------------------------------------------------------------
(* Places in bodies.                                                       *)

\* What is left of a sequence behind its first k elements.
LEMMA Rest ==
  ASSUME NEW S, NEW b \in Seq(S), NEW k \in 0 .. Len(b)
  PROVE  /\ SubSeq(b, k + 1, Len(b)) \in Seq(S)
         /\ Len(SubSeq(b, k + 1, Len(b))) = Len(b) - k
         /\ \A i \in 1 .. Len(b) - k : SubSeq(b, k + 1, Len(b))[i] = b[k + i]
<1> DEFINE n == Len(b)
           m == k + 1
           r == SubSeq(b, m, n)
<1>1. n \in Nat /\ \A i \in 1 .. n : b[i] \in S
  BY LenProperties, ElementOfSeq
<1> HIDE DEF n
<1>2. k \in Nat /\ k <= n /\ m \in Int /\ n \in Int /\ m = k + 1
  BY <1>1 DEF n
<1> HIDE DEF m
<1>3. \A i \in m .. n : b[i] \in S
  BY <1>1, <1>2
<1>4. /\ r \in Seq(S)
      /\ Len(r) = IF m <= n THEN n - m + 1 ELSE 0
      /\ \A i \in 1 .. n - m + 1 : r[i] = b[m + i - 1]
  BY <1>2, <1>3, SubSeqProperties
<1> HIDE DEF r
<1>5. Len(r) = n - k
  BY <1>2, <1>4
<1>6. \A i \in 1 .. n - k : r[i] = b[k + i]
  <2> TAKE i \in 1 .. n - k
  <2>1. i \in 1 .. n - m + 1 /\ m + i - 1 = k + i
    BY <1>2
  <2> QED
    BY <1>4, <2>1
<1> QED
  BY <1>4, <1>5, <1>6 DEF m, n, r

\* Its first element, and what is left behind that.
LEMMA RestGoesOn ==
  ASSUME NEW S, NEW b \in Seq(S), NEW k \in 0 .. Len(b)
  PROVE  /\ SubSeq(b, k + 1, Len(b)) = <<>> => k = Len(b)
         /\ SubSeq(b, k + 1, Len(b)) # <<>> =>
              /\ k + 1 \in 1 .. Len(b)
              /\ Head(SubSeq(b, k + 1, Len(b))) = b[k + 1]
              /\ Tail(SubSeq(b, k + 1, Len(b))) = SubSeq(b, k + 1 + 1, Len(b))
         /\ k = 0 => SubSeq(b, k + 1, Len(b)) = b
<1> DEFINE n == Len(b)
           r == SubSeq(b, k + 1, n)
           s == SubSeq(b, k + 1 + 1, n)
<1>1. n \in Nat /\ k \in Nat /\ k <= n
  BY LenProperties
<1>2. r \in Seq(S) /\ Len(r) = n - k /\ \A i \in 1 .. n - k : r[i] = b[k + i]
  BY Rest
<1>3. r = <<>> => k = n
  <2> HIDE DEF n, r
  <2> QED
    BY <1>1, <1>2, EmptySeq
<1>4. ASSUME r # <<>> PROVE k + 1 \in 1 .. n /\ Head(r) = b[k + 1] /\ Tail(r) = s
  <2>1. Len(r) # 0
    BY <1>2, <1>4, EmptySeq
  <2>2. k + 1 \in 0 .. n /\ k + 1 \in 1 .. n
    BY <1>1, <1>2, <2>1
  <2>3. s \in Seq(S) /\ Len(s) = n - (k + 1) /\ \A i \in 1 .. n - (k + 1) : s[i] = b[k + 1 + i]
    BY <2>2, Rest
  <2> HIDE DEF n, r, s
  <2>4. /\ Head(r) = r[1] /\ Tail(r) \in Seq(S) /\ Len(Tail(r)) = Len(r) - 1
        /\ \A i \in 1 .. Len(r) - 1 : Tail(r)[i] = r[i + 1]
    BY <1>2, <1>4, HeadTailProperties, ElementOfSeq
  <2>5. Head(r) = b[k + 1]
    BY <1>1, <1>2, <2>1, <2>4
  <2>6. Len(Tail(r)) = Len(s)
    BY <1>1, <1>2, <2>3, <2>4
  <2>7. \A i \in 1 .. Len(Tail(r)) : Tail(r)[i] = s[i]
    <3> TAKE i \in 1 .. Len(Tail(r))
    <3>1. i \in 1 .. n - (k + 1) /\ i + 1 \in 1 .. n - k /\ i \in 1 .. Len(r) - 1
          /\ k + (i + 1) = k + 1 + i
      BY <1>1, <1>2, <2>3, <2>6
    <3>2. s[i] = b[k + 1 + i] /\ Tail(r)[i] = r[i + 1] /\ r[i + 1] = b[k + (i + 1)]
      BY <1>2, <2>3, <2>4, <3>1
    <3> QED
      BY <3>1, <3>2
  <2>8. Tail(r) = s
    BY <2>3, <2>4, <2>6, <2>7, SeqEqual
  <2> QED
    BY <2>2, <2>5, <2>8
<1>5. k = 0 => r = b
  <2> HIDE DEF r
  <2> SUFFICES ASSUME k = 0 PROVE r = b
    OBVIOUS
  <2>1. Len(r) = Len(b) /\ \A i \in 1 .. Len(r) : r[i] = b[i]
    <3>1. \A i \in 1 .. n : k + i = i
      BY <1>1
    <3> QED
      BY <1>1, <1>2, <3>1
  <2> QED
    BY <1>2, <2>1, SeqEqual
<1> QED
  BY <1>3, <1>4, <1>5

\* The bodies are sequences of steps.
LEMMA BodyIsSteps ==
  ASSUME NEW prod \in Production, NEW a \in Rules[prod]
  PROVE  /\ a.body \in Seq(Step) /\ Len(a.body) \in Nat
         /\ \A k \in 1 .. Len(a.body) : a.body[k] \in Step
BY RulesAssumption, LenProperties, ElementOfSeq

\* The running call's place in its body.
LEMMA TopHasPlace ==
  ASSUME ParserTypeOK, PlacesInBodies, stack # <<>>, Top.at = "body"
  PROVE  \E a \in Rules[Top.prod] : \E k \in 0 .. Len(a.body) :
           /\ Top.todo = SubSeq(a.body, k + 1, Len(a.body))
           /\ StandsBehind(a, k)
<1>1. Len(stack) \in DOMAIN stack /\ Top = stack[Len(stack)]
  BY TopIsFrame
<1> QED
  BY <1>1 DEF PlacesInBodies

\* Where it is at a step, the place behind the step.
LEMMA PlaceOfStep ==
  ASSUME ParserTypeOK, PlacesInBodies, NEW op, NextIs(op)
  PROVE  \E a \in Rules[Top.prod] : \E k \in 0 .. Len(a.body) :
           /\ StandsBehind(a, k)
           /\ k + 1 \in 1 .. Len(a.body)
           /\ a.body[k + 1] = Head(Top.todo)
           /\ Advanced.todo = SubSeq(a.body, k + 1 + 1, Len(a.body))
<1>1. stack # <<>> /\ Top.at = "body" /\ Top.todo # <<>>
  BY HeadIsStep
<1>2. PICK a \in Rules[Top.prod] : \E k \in 0 .. Len(a.body) :
        Top.todo = SubSeq(a.body, k + 1, Len(a.body)) /\ StandsBehind(a, k)
  BY <1>1, TopHasPlace
<1> PICK k \in 0 .. Len(a.body) :
       Top.todo = SubSeq(a.body, k + 1, Len(a.body)) /\ StandsBehind(a, k)
  BY <1>2
<1>3. Top \in FrameType /\ Top.prod \in Production
  BY <1>1, TopIsFrame DEF FrameType
<1>4. a.body \in Seq(Step)
  BY <1>3, BodyIsSteps
<1>5. /\ k + 1 \in 1 .. Len(a.body) /\ Head(Top.todo) = a.body[k + 1]
      /\ Tail(Top.todo) = SubSeq(a.body, k + 1 + 1, Len(a.body))
  BY <1>1, <1>4, RestGoesOn
<1>6. Advanced.todo = Tail(Top.todo)
  BY <1>3 DEF Advanced, FrameType
<1> QED
  BY <1>5, <1>6

\* What PlacesInBodies says of the i-th call.
Placed(i) ==
  /\ stack[i].at # "body" => stack[i].todo = <<>>
  /\ stack[i].at = "body" =>
       \E a \in Rules[stack[i].prod] : \E k \in 0 .. Len(a.body) :
         /\ stack[i].todo = SubSeq(a.body, k + 1, Len(a.body))
         /\ IF i = Len(stack) THEN StandsBehind(a, k)
            ELSE k > 0 /\ a.body[k] = Sub(stack[i + 1].prod)

PlaceInvariant == PlacesInBodies /\ ProgramIsOutermost

\* The running call goes on in its body, or leaves it for synch.
LEMMA BecomeKeepsPlaces ==
  ASSUME StackInvariant, PlaceInvariant, stack # <<>>, read' \in Nat, read <= read',
         NEW f \in FrameType, f.prod = Top.prod, f.from = Top.from, Become(f),
         f.at # "body" => f.todo = <<>>,
         f.at = "body" =>
           \E a \in Rules[Top.prod] : \E k \in 0 .. Len(a.body) :
             f.todo = SubSeq(a.body, k + 1, Len(a.body)) /\ StandsBehind(a, k)'
  PROVE  PlaceInvariant'
<1>1. /\ Len(stack') = Len(stack) /\ DOMAIN stack' = DOMAIN stack
      /\ stack'[Len(stack)] = f
      /\ \A i \in DOMAIN stack : i # Len(stack) => stack'[i] = stack[i]
      /\ \A i \in DOMAIN stack : stack'[i].prod = stack[i].prod
  BY BecomeKeepsNesting
<1>2. Len(stack) \in Nat \ {0} /\ DOMAIN stack = 1 .. Len(stack) /\ Top = stack[Len(stack)]
  BY TopIsFrame DEF StackInvariant
<1>3. ProgramIsOutermost'
  <2>1. 1 \in DOMAIN stack
    BY <1>2
  <2>2. stack'[1].prod = stack[1].prod /\ stack[1].prod = "program"
    BY <1>1, <2>1 DEF PlaceInvariant, ProgramIsOutermost
  <2> QED
    BY <2>2 DEF ProgramIsOutermost
<1>4. ASSUME NEW i \in DOMAIN stack PROVE Placed(i)'
  <2>1. CASE i = Len(stack)
    <3>1. stack'[i].at # "body" => stack'[i].todo = <<>>
      BY <1>1, <2>1
    <3> SUFFICES ASSUME stack'[i].at = "body"
                 PROVE  \E a \in Rules[stack'[i].prod] : \E k \in 0 .. Len(a.body) :
                          /\ stack'[i].todo = SubSeq(a.body, k + 1, Len(a.body))
                          /\ StandsBehind(a, k)'
      BY <1>1, <2>1, <3>1 DEF Placed
    <3> QED
      BY <1>1, <2>1
  <2>2. CASE i # Len(stack)
    <3>1. i + 1 \in DOMAIN stack /\ stack'[i] = stack[i]
      BY <1>1, <1>2, <2>2
    <3>2. stack'[i + 1].prod = stack[i + 1].prod
      BY <1>1, <3>1
    <3>3. Placed(i)
      BY DEF PlaceInvariant, PlacesInBodies, Placed
    <3> QED
      BY <1>1, <2>2, <3>1, <3>2, <3>3 DEF Placed
  <2> QED
    BY <2>1, <2>2
<1>5. PlacesInBodies'
  BY <1>1, <1>4 DEF PlacesInBodies, Placed
<1> QED
  BY <1>3, <1>5 DEF PlaceInvariant

\* The running call returns to behind the call that made it.
LEMMA PopKeepsPlaces ==
  ASSUME StackInvariant, PlaceInvariant, stack # <<>>,
         UNCHANGED <<read, la>>, stack' = Front(stack),
         Top.prod \in Operand => la \in SynchSet(Top.prod)
  PROVE  PlaceInvariant'
<1> DEFINE n == Len(stack)
<1>1. /\ DOMAIN stack' = 1 .. n - 1
      /\ \A i \in DOMAIN stack' : i \in DOMAIN stack /\ stack'[i] = stack[i]
  BY ReturnKeepsNesting
<1>2. n \in Nat \ {0} /\ DOMAIN stack = 1 .. n /\ Top = stack[n]
  BY TopIsFrame DEF StackInvariant
<1>3. stack \in Seq(FrameType) /\ Len(stack') = n - 1
  BY Popped DEF StackInvariant, ParserTypeOK
<1>4. ProgramIsOutermost'
  <2> SUFFICES ASSUME stack' # <<>> PROVE stack'[1].prod = "program"
    BY DEF ProgramIsOutermost
  <2>1. 1 \in DOMAIN stack'
    <3>1. stack' \in Seq(FrameType)
      BY <1>3, Popped
    <3>2. Len(stack') # 0
      BY <3>1, EmptySeq
    <3> QED
      BY <1>1, <1>2, <1>3, <3>2
  <2> QED
    BY <1>1, <2>1 DEF PlaceInvariant, ProgramIsOutermost
<1>5. ASSUME NEW i \in DOMAIN stack' PROVE Placed(i)'
  <2>1. /\ i \in 1 .. n - 1 /\ i # n /\ i + 1 \in 1 .. n
        /\ stack'[i] = stack[i] /\ stack[i].at = "body" /\ i \in DOMAIN stack
    BY <1>1, <1>2 DEF StackInvariant, CallsNest
  <2>2. PICK a \in Rules[stack[i].prod] : \E k \in 0 .. Len(a.body) :
               /\ stack[i].todo = SubSeq(a.body, k + 1, Len(a.body))
               /\ k > 0 /\ a.body[k] = Sub(stack[i + 1].prod)
    BY <2>1 DEF PlaceInvariant, PlacesInBodies
  <2>3. PICK k \in 0 .. Len(a.body) :
               /\ stack[i].todo = SubSeq(a.body, k + 1, Len(a.body))
               /\ k > 0 /\ a.body[k] = Sub(stack[i + 1].prod)
    BY <2>2
  <2>4. CASE i = n - 1
    <3>1. a.body[k] = Sub(Top.prod) /\ k # 0
      <4>1. i + 1 = n
        BY <1>2, <2>4
      <4> QED
        BY <1>2, <2>3, <4>1
    <3>2. \A q \in Operand : a.body[k] = Sub(q) => q = Top.prod
      BY <3>1 DEF Sub
    <3>3. StandsBehind(a, k)'
      <4>1. la' = la
        OBVIOUS
      <4> QED
        BY <3>1, <3>2, <4>1 DEF StandsBehind
    <3> QED
      BY <1>3, <2>1, <2>3, <2>4, <3>3 DEF Placed
  <2>5. CASE i # n - 1
    <3>1. i + 1 \in DOMAIN stack'
      BY <1>1, <1>2, <2>1, <2>5
    <3>2. stack'[i + 1] = stack[i + 1]
      BY <1>1, <3>1
    <3> QED
      BY <1>3, <2>1, <2>3, <2>5, <3>2 DEF Placed
  <2> QED
    BY <2>4, <2>5
<1>6. PlacesInBodies'
  BY <1>5 DEF PlacesInBodies, Placed
<1> QED
  BY <1>4, <1>6 DEF PlaceInvariant

\* The running call after it has become f.
LEMMA TopBecomes ==
  ASSUME ParserTypeOK, stack # <<>>, NEW f \in FrameType, Become(f)
  PROVE  stack' # <<>> /\ Top' = f
<1>1. stack \in Seq(FrameType)
  BY DEF ParserTypeOK
<1>2. /\ stack' \in Seq(FrameType) /\ Len(stack') = Len(stack) /\ stack'[Len(stack)] = f
      /\ Len(stack) \in Nat \ {0}
  BY <1>1, Replaced, Popped DEF Become
<1>3. stack' # <<>>
  BY <1>2, EmptySeq
<1> QED
  BY <1>2, <1>3, Popped DEF Top

\* Where the running call is in the middle of a body, or recovering, there is
\* nothing to say of an operator.
LEMMA ResumesLater ==
  ASSUME stack' = <<>> \/ Top'.at # "switch"
  PROVE  OperandsResume'
BY DEF OperandsResume, Running

\* A call that ends behind an operand, or is one, leaves a token of its set.
LEMMA OperandEnds ==
  ASSUME ParserTypeOK, PlacesInBodies, stack # <<>>, Top.at = "body", Top.todo = <<>>,
         Top.prod \in Operand
  PROVE  la \in SynchSet(Top.prod)
<1>1. PICK a \in Rules[Top.prod] : \E k \in 0 .. Len(a.body) :
        Top.todo = SubSeq(a.body, k + 1, Len(a.body)) /\ StandsBehind(a, k)
  BY TopHasPlace
<1> PICK k \in 0 .. Len(a.body) :
      Top.todo = SubSeq(a.body, k + 1, Len(a.body)) /\ StandsBehind(a, k)
  BY <1>1
<1>2. Top.prod \in Production
  BY TopIsFrame DEF FrameType
<1>3. a.body \in Seq(Step) /\ Len(a.body) \in Nat
  BY <1>2, BodyIsSteps
<1>4. k = Len(a.body)
  BY <1>3, RestGoesOn
<1>5. CASE a.body = <<>>
  <2>1. k = 0
    BY <1>4, <1>5, EmptySeq
  <2> QED
    BY <1>2, <1>5, <2>1, OperandsAssumption DEF StandsBehind
<1>6. CASE a.body # <<>>
  <2>1. k > 0
    BY <1>3, <1>4, <1>6, EmptySeq
  <2>2. PICK q \in Operand : a.body[k] = Sub(q) /\ SynchSet(q) \subseteq SynchSet(Top.prod)
    BY <1>2, <1>4, <1>6, OperandsAssumption
  <2> QED
    BY <2>1, <2>2 DEF StandsBehind
<1> QED
  BY <1>5, <1>6

\* A case group is entered at its beginning.
LEMMA SwitchKeepsPlaces ==
  ASSUME StackInvariant, PlaceInvariant, Switch
  PROVE  PlaceInvariant' /\ OperandsResume'
<1>1. stack # <<>> /\ outcome = "running" /\ UNCHANGED <<la, read>>
  BY DEF Switch, Running, sourceVars
<1>2. /\ Top \in FrameType /\ ParserTypeOK /\ read' \in Nat /\ read <= read'
  BY <1>1, TopIsFrame DEF StackInvariant, ParserTypeOK
<1>3. ASSUME NEW f \in FrameType, Become(f) PROVE stack' # <<>> /\ Top' = f
  BY <1>1, <1>2, <1>3, TopBecomes
<1>4. ASSUME NEW a \in Rules[Top.prod], la \in a.on,
             Become([Top EXCEPT !.at = "body", !.todo = a.body])
      PROVE  PlaceInvariant' /\ OperandsResume'
  <2> DEFINE f == [Top EXCEPT !.at = "body", !.todo = a.body]
  <2>1. a.body \in Seq(Step) /\ Len(a.body) \in Nat
    BY <1>2, BodyIsSteps DEF FrameType
  <2>2. f \in FrameType /\ f.prod = Top.prod /\ f.from = Top.from /\ f.at = "body" /\ f.todo = a.body
    BY <1>2, <2>1 DEF FrameType
  <2>3. Become(f)
    BY <1>4
  <2> HIDE DEF f
  <2>4. 0 \in 0 .. Len(a.body) /\ f.todo = SubSeq(a.body, 0 + 1, Len(a.body))
    BY <2>1, <2>2, RestGoesOn
  <2>5. StandsBehind(a, 0)'
    BY <1>1, <1>4 DEF StandsBehind
  <2>6. PlaceInvariant'
    BY <1>1, <1>2, <2>2, <2>3, <2>4, <2>5, BecomeKeepsPlaces
  <2>7. OperandsResume'
    BY <1>3, <2>2, <2>3, ResumesLater
  <2> QED
    BY <2>6, <2>7
<1>5. ASSUME Become(Recovering) PROVE PlaceInvariant' /\ OperandsResume'
  <2>1. /\ Recovering \in FrameType /\ Recovering.prod = Top.prod
        /\ Recovering.from = Top.from /\ Recovering.at = "synch"
        /\ Recovering.todo = <<>>
    BY <1>2, EmptySeq DEF Recovering, FrameType
  <2>2. PlaceInvariant'
    BY <1>1, <1>2, <1>5, <2>1, BecomeKeepsPlaces
  <2>3. OperandsResume'
    BY <1>3, <1>5, <2>1, ResumesLater
  <2> QED
    BY <2>2, <2>3
<1> QED
  BY <1>4, <1>5 DEF Switch

\* A match or a call of symbol_table.c is done, or recovered from.
LEMMA StepKeepsPlaces ==
  ASSUME StackInvariant, PlaceInvariant, match \/ TableCall
  PROVE  PlaceInvariant' /\ OperandsResume'
<1>1. PICK op \in {"match", "table"} : NextIs(op)
  BY DEF match, TableCall
<1>2. ParserTypeOK
  BY DEF StackInvariant
<1>3. /\ stack # <<>> /\ outcome = "running"
      /\ Head(Top.todo) \in Step /\ Head(Top.todo).op = op
      /\ Advanced \in FrameType /\ Advanced.at = "body"
      /\ Advanced.prod = Top.prod /\ Advanced.from = Top.from
  BY <1>1, <1>2, HeadIsStep
<1>4. read' \in Nat /\ read <= read'
  <2>1. read \in Nat
    BY <1>2 DEF ParserTypeOK
  <2>2. CASE match
    BY <1>2, <2>1, <2>2, ConsumeMovesOn DEF match, sourceVars
  <2>3. CASE TableCall
    BY <2>1, <2>3 DEF TableCall, sourceVars
  <2> QED
    BY <2>2, <2>3
<1>5. Top \in FrameType
  BY <1>2, <1>3, TopIsFrame
<1>6. ASSUME NEW f \in FrameType, Become(f) PROVE stack' # <<>> /\ Top' = f
  BY <1>2, <1>3, <1>6, TopBecomes
<1>7. CASE Become(Advanced)
  <2>1. PICK a \in Rules[Top.prod] : \E k \in 0 .. Len(a.body) :
          /\ k + 1 \in 1 .. Len(a.body)
          /\ a.body[k + 1] = Head(Top.todo)
          /\ Advanced.todo = SubSeq(a.body, k + 1 + 1, Len(a.body))
    BY <1>1, <1>2, PlaceOfStep DEF PlaceInvariant
  <2> PICK k \in 0 .. Len(a.body) :
          /\ k + 1 \in 1 .. Len(a.body)
          /\ a.body[k + 1] = Head(Top.todo)
          /\ Advanced.todo = SubSeq(a.body, k + 1 + 1, Len(a.body))
    BY <2>1
  <2> DEFINE m == k + 1
  <2>2. \A q : a.body[m] # Sub(q)
    BY <1>3 DEF Sub
  <2>3. m \in 0 .. Len(a.body) /\ m # 0 /\ Advanced.todo = SubSeq(a.body, m + 1, Len(a.body))
    OBVIOUS
  <2> HIDE DEF m
  <2>4. StandsBehind(a, m)'
    BY <2>2, <2>3 DEF StandsBehind
  <2>5. PlaceInvariant'
    BY <1>3, <1>4, <1>7, <2>3, <2>4, BecomeKeepsPlaces
  <2>6. OperandsResume'
    BY <1>3, <1>6, <1>7, ResumesLater
  <2> QED
    BY <2>5, <2>6
<1>8. CASE Become(Recovering)
  <2>1. /\ Recovering \in FrameType /\ Recovering.prod = Top.prod
        /\ Recovering.from = Top.from /\ Recovering.at = "synch"
        /\ Recovering.todo = <<>>
    BY <1>5, EmptySeq DEF Recovering, FrameType
  <2>2. PlaceInvariant'
    BY <1>3, <1>4, <1>8, <2>1, BecomeKeepsPlaces
  <2>3. OperandsResume'
    BY <1>6, <1>8, <2>1, ResumesLater
  <2> QED
    BY <2>2, <2>3
<1> QED
  BY <1>7, <1>8 DEF match, TableCall

\* A production is called from its place in the body; an operator's behind its
\* left operand.
LEMMA CallKeepsPlaces ==
  ASSUME StackInvariant, PlaceInvariant, Call
  PROVE  PlaceInvariant' /\ OperandsResume'
<1> DEFINE n == Len(stack)
           q == Head(Top.todo).arg
<1>1. ParserTypeOK /\ NextIs("parse") /\ UNCHANGED <<la, read, outcome>>
  BY DEF Call, StackInvariant, sourceVars
<1>2. /\ stack # <<>> /\ outcome = "running"
      /\ Head(Top.todo) \in Step /\ Head(Top.todo).op = "parse"
      /\ Advanced \in FrameType /\ Advanced.at = "body"
      /\ Advanced.prod = Top.prod /\ Advanced.from = Top.from
  BY <1>1, HeadIsStep
<1>3. Head(Top.todo) = Sub(q) /\ q \in Production
  BY <1>2, CallIsSub
<1>4. /\ n \in Nat \ {0} /\ DOMAIN stack = 1 .. n /\ Top = stack[n]
      /\ Top.prod \in Production
  BY <1>1, <1>2, TopIsFrame DEF FrameType
<1>5. Frame(q, read).at = "switch" /\ Frame(q, read).prod = q /\ Frame(q, read).todo = <<>>
  BY DEF Frame
<1>6. /\ stack' \in Seq(FrameType) /\ Len(stack') = n + 1
      /\ \A i \in 1 .. n - 1 : stack'[i] = stack[i]
      /\ stack'[n] = Advanced
      /\ stack'[n + 1] = Frame(q, read)
  BY <1>1, Called
<1>7. PICK a \in Rules[Top.prod] : \E k \in 0 .. Len(a.body) :
        /\ StandsBehind(a, k)
        /\ k + 1 \in 1 .. Len(a.body)
        /\ a.body[k + 1] = Head(Top.todo)
        /\ Advanced.todo = SubSeq(a.body, k + 1 + 1, Len(a.body))
  BY <1>1, PlaceOfStep DEF PlaceInvariant
<1> PICK k \in 0 .. Len(a.body) :
        /\ StandsBehind(a, k)
        /\ k + 1 \in 1 .. Len(a.body)
        /\ a.body[k + 1] = Head(Top.todo)
        /\ Advanced.todo = SubSeq(a.body, k + 1 + 1, Len(a.body))
  BY <1>7
<1> HIDE DEF n, q
<1>8. DOMAIN stack' = 1 .. n + 1
  BY <1>6, LenProperties
<1>9. \A i \in 1 .. n : stack'[i].prod = stack[i].prod
  <2> TAKE i \in 1 .. n
  <2>1. CASE i = n
    BY <1>2, <1>4, <1>6, <2>1
  <2>2. CASE i # n
    BY <1>4, <1>6, <2>2
  <2> QED
    BY <2>1, <2>2
<1>10. ProgramIsOutermost'
  <2>1. 1 \in 1 .. n
    BY <1>4
  <2> QED
    BY <1>2, <1>9, <2>1 DEF PlaceInvariant, ProgramIsOutermost
<1>11. ASSUME NEW i \in 1 .. n + 1 PROVE Placed(i)'
  <2>1. CASE i = n + 1
    BY <1>5, <1>6, <2>1 DEF Placed
  <2>2. CASE i = n
    <3> DEFINE m == k + 1
    <3>1. m \in 0 .. Len(a.body) /\ m > 0 /\ m = k + 1
      OBVIOUS
    <3> HIDE DEF m
    <3>2. /\ a \in Rules[stack'[n].prod]
          /\ stack'[n].todo = SubSeq(a.body, m + 1, Len(a.body))
          /\ a.body[m] = Sub(stack'[n + 1].prod)
      BY <1>2, <1>3, <1>5, <1>6, <3>1
    <3>3. n # n + 1
      BY <1>4
    <3> QED
      BY <1>2, <1>6, <2>2, <3>1, <3>2, <3>3 DEF Placed
  <2>3. CASE i < n
    <3>1. i \in DOMAIN stack /\ i # n /\ i \in 1 .. n - 1 /\ i + 1 \in 1 .. n /\ i # n + 1
      BY <1>4, <2>3
    <3>2. stack'[i] = stack[i] /\ stack'[i + 1].prod = stack[i + 1].prod
      BY <1>6, <1>9, <3>1
    <3>3. Placed(i)
      BY <3>1 DEF PlaceInvariant, PlacesInBodies, Placed
    <3> QED
      BY <1>6, <3>1, <3>2, <3>3 DEF Placed, n
  <2> QED
    BY <1>4, <2>1, <2>2, <2>3
<1>12. PlacesInBodies'
  BY <1>8, <1>11 DEF PlacesInBodies, Placed
<1>13. OperandsResume'
  <2>1. Top' = Frame(q, read)
    <3>1. stack' # <<>>
      BY <1>4, <1>6, EmptySeq
    <3> QED
      BY <1>6, <3>1, Popped DEF Top
  <2> SUFFICES ASSUME q \in {"expr_", "simple_expr_"} PROVE la \in Labels(q)
    BY <1>1, <1>5, <2>1 DEF OperandsResume
  <2>2. a.body \in Seq(Step)
    BY <1>4, BodyIsSteps
  <2> DEFINE m == k + 1
  <2>3. m \in DOMAIN a.body /\ a.body[m] = Sub(q)
    BY <1>3, <2>2, LenProperties
  <2>4. m - 1 = k /\ (m > 1 => k > 0)
    BY <2>2, LenProperties
  <2>5. \A j \in DOMAIN a.body : \A p \in {"expr_", "simple_expr_"} : a.body[j] = Sub(p) =>
          j > 1 /\ \E o \in Operand : /\ a.body[j - 1] = Sub(o)
                                       /\ SynchSet(o) \subseteq Labels(p)
    BY <1>4, OperatorsAssumption
  <2> HIDE DEF m
  <2>6. m > 1 /\ \E o \in Operand : a.body[m - 1] = Sub(o) /\ SynchSet(o) \subseteq Labels(q)
    BY <2>3, <2>5
  <2>7. PICK o \in Operand : a.body[k] = Sub(o) /\ SynchSet(o) \subseteq Labels(q)
    BY <2>4, <2>6
  <2>8. la \in SynchSet(o)
    BY <2>4, <2>6, <2>7 DEF StandsBehind
  <2> QED
    BY <2>7, <2>8
<1> QED
  BY <1>10, <1>12, <1>13 DEF PlaceInvariant

\* A call returns.
LEMMA PopResumesLater ==
  ASSUME StackInvariant, stack # <<>>, stack' = Front(stack), UNCHANGED read
  PROVE  OperandsResume'
<1>1. /\ DOMAIN stack' = 1 .. Len(stack) - 1 /\ stack' \in Seq(FrameType)
      /\ \A i \in DOMAIN stack' : i \in DOMAIN stack /\ stack'[i] = stack[i]
  BY ReturnKeepsNesting
<1>2. CASE stack' # <<>>
  <2>1. Len(stack') \in DOMAIN stack' /\ Top' = stack'[Len(stack')]
    <3>1. Len(stack') \in Nat \ {0} /\ Last(stack') = stack'[Len(stack')]
      BY <1>1, <1>2, Popped
    <3>2. DOMAIN stack' = 1 .. Len(stack')
      BY <1>1, LenProperties
    <3> QED
      BY <3>1, <3>2 DEF Top
  <2>2. Len(stack') \in DOMAIN stack /\ Len(stack') < Len(stack) /\ Len(stack) \in DOMAIN stack
    BY <1>1, <2>1, TopIsFrame DEF StackInvariant
  <2>3. Top'.at = "body"
    BY <1>1, <2>1, <2>2 DEF StackInvariant, CallsNest
  <2> QED
    BY <2>3, ResumesLater
<1> QED
  BY <1>2, ResumesLater

LEMMA ReturnKeepsPlaces ==
  ASSUME StackInvariant, PlaceInvariant, Return
  PROVE  PlaceInvariant' /\ OperandsResume'
<1>1. /\ stack # <<>> /\ Top.at = "body" /\ Top.todo = <<>>
      /\ UNCHANGED <<read, la>> /\ stack' = Front(stack)
  BY DEF Return, InBody, Running, sourceVars
<1>2. Top.prod \in Operand => la \in SynchSet(Top.prod)
  BY <1>1, OperandEnds DEF StackInvariant, PlaceInvariant
<1> QED
  BY <1>1, <1>2, PopKeepsPlaces, PopResumesLater

LEMMA SynchKeepsPlaces ==
  ASSUME StackInvariant, PlaceInvariant, synch
  PROVE  PlaceInvariant' /\ OperandsResume'
<1>1. /\ stack # <<>> /\ Top.at = "synch"
  BY DEF synch, InSynch, Running
<1>2. CASE la \in SynchSet(Top.prod) /\ stack' = Front(stack) /\ UNCHANGED sourceVars
  <2>1. UNCHANGED <<read, la>>
    BY <1>2 DEF sourceVars
  <2> QED
    BY <1>1, <1>2, <2>1, PopKeepsPlaces, PopResumesLater
<1>3. CASE UNCHANGED stack
  <2>1. Len(stack) \in DOMAIN stack /\ Top = stack[Len(stack)]
    BY <1>1, TopIsFrame DEF StackInvariant
  <2>2. PlacesInBodies'
    <3> SUFFICES ASSUME NEW i \in DOMAIN stack PROVE Placed(i)'
      BY <1>3 DEF PlacesInBodies, Placed
    <3>1. stack[i].at = "body" => i # Len(stack)
      BY <1>1, <2>1
    <3> QED
      BY <1>3, <3>1 DEF PlaceInvariant, PlacesInBodies, Placed
  <2>3. Top'.at # "switch"
    BY <1>1, <1>3 DEF Top
  <2>4. OperandsResume'
    BY <2>3, ResumesLater
  <2> QED
    BY <1>3, <2>2, <2>4 DEF PlaceInvariant, ProgramIsOutermost
<1> QED
  BY <1>2, <1>3 DEF synch

\* With no call left there are no places.
LEMMA FinishKeepsPlaces ==
  ASSUME Finish
  PROVE  PlaceInvariant' /\ OperandsResume'
<1>1. stack' = <<>> /\ DOMAIN stack' = {}
  BY EmptySeq DEF Finish
<1>2. OperandsResume'
  BY <1>1, ResumesLater
<1> QED
  BY <1>1, <1>2 DEF PlaceInvariant, PlacesInBodies, ProgramIsOutermost

LEMMA InitPlaces == ParserInit => PlaceInvariant /\ OperandsResume
<1> SUFFICES ASSUME ParserInit PROVE PlaceInvariant /\ OperandsResume
  OBVIOUS
<1> DEFINE f == Frame("program", 0)
<1>1. f.at = "switch" /\ f.prod = "program" /\ f.todo = <<>>
  BY DEF Frame
<1>2. stack = <<f>>
  BY DEF ParserInit
<1> HIDE DEF f
<1>3. DOMAIN stack = {1} /\ stack[1] = f /\ Len(stack) = 1 /\ Top = f
  BY <1>2 DEF Top, Last
<1> QED
  BY <1>1, <1>3 DEF PlaceInvariant, PlacesInBodies, ProgramIsOutermost, OperandsResume

LEMMA InitSound == ParserInit => ParserInvariant
BY InitHolds, InitPlaces DEF ParserInvariant, PlaceInvariant

\* The invariant is inductive.
LEMMA NextSound == ParserInvariant /\ [ParserNext]_parserVars => ParserInvariant'
<1> SUFFICES ASSUME ParserInvariant, [ParserNext]_parserVars
             PROVE  ParserInvariant'
  OBVIOUS
<1>1. StackInvariant /\ PlaceInvariant /\ OperandsResume
  BY DEF ParserInvariant, PlaceInvariant
<1>2. StackInvariant'
  BY <1>1, NextKeeps
<1>3. PlaceInvariant' /\ OperandsResume'
  <2>1. CASE UNCHANGED parserVars
    BY <1>1, <2>1 DEF PlaceInvariant, PlacesInBodies, ProgramIsOutermost, StandsBehind,
                      OperandsResume, Running, Top, parserVars, sourceVars
  <2>2. CASE Switch
    BY <1>1, <2>2, SwitchKeepsPlaces
  <2>3. CASE match \/ TableCall
    BY <1>1, <2>3, StepKeepsPlaces
  <2>4. CASE Call
    BY <1>1, <2>4, CallKeepsPlaces
  <2>5. CASE Return
    BY <1>1, <2>5, ReturnKeepsPlaces
  <2>6. CASE synch
    BY <1>1, <2>6, SynchKeepsPlaces
  <2>7. CASE Finish
    BY <2>7, FinishKeepsPlaces
  <2> QED
    BY <2>1, <2>2, <2>3, <2>4, <2>5, <2>6, <2>7 DEF ParserNext
<1> QED
  BY <1>2, <1>3 DEF ParserInvariant, PlaceInvariant

-----------------------------------------------------------------------------
(* Errors reported are errors.                                             *)

\* The largest of some numbers up to n.
LEMMA LargestExists ==
  ASSUME NEW n \in Nat, NEW S \in SUBSET (0 .. n), S # {}
  PROVE  \E x \in S : \A y \in S : y <= x
<1> DEFINE R == OpToRel(<, Nat)
           T == {n - x : x \in S}
<1>1. IsWellFoundedOn(R, Nat)
  BY NatLessThanWellFounded
<1>2. \A x, y \in Nat : y < x => <<y, x>> \in R
  BY DEF OpToRel
<1> HIDE DEF R
<1>3. T \in SUBSET Nat /\ T # {}
  <2>1. \A x \in S : n - x \in Nat
    OBVIOUS
  <2> QED
    BY <2>1
<1> HIDE DEF T
<1>4. PICK x \in T : \A y \in T : ~(<<y, x>> \in R)
  BY <1>1, <1>3, WFMin, Zenon
<1>5. \A y \in T : x <= y
  <2>1. \A y \in T : ~(y < x)
    BY <1>2, <1>3, <1>4
  <2> QED
    BY <1>3, <2>1
<1>6. PICK z \in S : x = n - z
  BY DEF T
<1>7. \A y \in S : n - y \in T
  BY DEF T
<1> QED
  BY <1>5, <1>6, <1>7

\* What a token that steps can begin with comes from.
LEMMA BeginsWith ==
  ASSUME NEW steps, NEW first, NEW t \in FirstOf(steps, first)
  PROVE  \E i \in DOMAIN steps :
           /\ CanBeEmpty(SubSeq(steps, 1, i - 1))
           /\ \/ steps[i].op = "match" /\ t = steps[i].arg
              \/ steps[i].op = "parse" /\ t \in first[steps[i].arg]
<1>1. PICK i \in DOMAIN steps :
        /\ CanBeEmpty(SubSeq(steps, 1, i - 1))
        /\ t \in CASE steps[i].op = "match" -> {steps[i].arg}
                   [] steps[i].op = "parse" -> first[steps[i].arg]
                   [] OTHER -> {}
  BY DEF FirstOf
<1>2. CASE steps[i].op = "match"
  BY <1>1, <1>2
<1>3. CASE steps[i].op = "parse"
  BY <1>1, <1>3
<1>4. CASE steps[i].op # "match" /\ steps[i].op # "parse"
  BY <1>1, <1>4
<1> QED
  BY <1>1, <1>2, <1>3, <1>4

\* What follows a call follows the call that made it, where that has nothing
\* left that must come before.
LEMMA FollowsCaller ==
  ASSUME ParserTypeOK, CallsNest, PlacesInBodies, NEW i \in DOMAIN stack, i < Len(stack)
  PROVE  /\ FirstOf(Pending(i), First) \subseteq Follow(stack[i + 1].prod)
         /\ CanBeEmpty(Pending(i)) => Follow(stack[i].prod) \subseteq Follow(stack[i + 1].prod)
<1>1. stack # <<>>
  BY EmptySeq
<1>2. /\ Len(stack) \in DOMAIN stack /\ stack[i].at = "body"
      /\ stack[i].prod \in Production /\ i # Len(stack)
  BY <1>1, TopIsFrame DEF CallsNest, FrameType
<1>3. PICK a \in Rules[stack[i].prod] : \E k \in 0 .. Len(a.body) :
        /\ stack[i].todo = SubSeq(a.body, k + 1, Len(a.body))
        /\ k > 0 /\ a.body[k] = Sub(stack[i + 1].prod)
  BY <1>2 DEF PlacesInBodies
<1>4. PICK k \in 0 .. Len(a.body) :
        /\ stack[i].todo = SubSeq(a.body, k + 1, Len(a.body))
        /\ k > 0 /\ a.body[k] = Sub(stack[i + 1].prod)
  BY <1>3
<1>5. a.body \in Seq(Step)
  BY <1>2, BodyIsSteps
<1>6. k \in DOMAIN a.body
  BY <1>4, <1>5, LenProperties
<1>7. a.body[k].op = "parse" /\ a.body[k].arg = stack[i + 1].prod
  BY <1>4 DEF Sub
<1>8. Pending(i) = SubSeq(a.body, k + 1, Len(a.body))
  BY <1>2, <1>4 DEF Pending
<1>9. /\ FirstOf(SubSeq(a.body, k + 1, Len(a.body)), First) \subseteq Follow(a.body[k].arg)
      /\ CanBeEmpty(SubSeq(a.body, k + 1, Len(a.body))) =>
           Follow(stack[i].prod) \subseteq Follow(a.body[k].arg)
  BY <1>2, <1>6, <1>7, FollowAssumption
<1> QED
  BY <1>7, <1>8, <1>9

\* What follows the callee of a call that nothing has to come before follows
\* the running call.
LEMMA FollowsOutward ==
  ASSUME ParserTypeOK, CallsNest, PlacesInBodies, stack # <<>>,
         NEW i \in 0 .. Len(stack) - 1, Reached(i)
  PROVE  Follow(stack[i + 1].prod) \subseteq Follow(Top.prod)
<1> DEFINE n == Len(stack)
           m == n - 1
           Bad == {j \in 0 .. m : j >= i /\ ~(Follow(stack[j + 1].prod) \subseteq Follow(Top.prod))}
<1>1. n \in Nat \ {0} /\ DOMAIN stack = 1 .. n /\ Top = stack[n] /\ m \in Nat /\ m + 1 = n
  BY TopIsFrame
<1>2. SUFFICES ASSUME Bad # {} PROVE FALSE
  <2>1. i \in 0 .. m /\ i >= i
    BY <1>1
  <2> QED
    BY <2>1
<1>3. PICK x \in Bad : \A y \in Bad : y <= x
  <2>1. Bad \in SUBSET (0 .. m)
    OBVIOUS
  <2> HIDE DEF Bad, m
  <2> QED
    BY <1>1, <1>2, <2>1, LargestExists
<1>4. x \in 0 .. m /\ x >= i /\ ~(Follow(stack[x + 1].prod) \subseteq Follow(Top.prod))
  OBVIOUS
<1> DEFINE z == x + 1
<1>5. z # n
  BY <1>1, <1>4
<1>6. z \in 0 .. m /\ z >= i /\ ~(z <= x) /\ z \in DOMAIN stack /\ z < n /\ z \in i + 1 .. n
  <2>1. n \in Nat /\ m = n - 1 /\ i \in 0 .. n - 1
    BY <1>1
  <2> HIDE DEF Bad, n, m
  <2> QED
    BY <1>1, <1>4, <1>5, <2>1
<1>7. z \notin Bad
  BY <1>3, <1>6
<1> HIDE DEF z
<1>8. Follow(stack[z + 1].prod) \subseteq Follow(Top.prod)
  BY <1>6, <1>7
<1>9. CanBeEmpty(Pending(z))
  BY <1>6 DEF Reached
<1>10. Follow(stack[z].prod) \subseteq Follow(stack[z + 1].prod)
  BY <1>6, <1>9, FollowsCaller
<1> QED
  BY <1>4, <1>8, <1>10 DEF z

\* A production that is about to report the next token is in front of nothing
\* that begins with it.
LEMMA SwitchReportsErrors ==
  ASSUME ParserInvariant, Running, Top.at = "switch", la \notin Labels(Top.prod)
  PROVE  ~Viable(la)
<1> DEFINE n == Len(stack)
<1>1. /\ ParserTypeOK /\ CallsNest /\ PlacesInBodies /\ ProgramIsOutermost /\ stack # <<>>
  BY DEF ParserInvariant, StackInvariant, Running
<1>2. /\ n \in Nat \ {0} /\ DOMAIN stack = 1 .. n /\ Top = stack[n] /\ Top.prod \in Production
  BY <1>1, TopIsFrame DEF FrameType
<1>3. Pending(n) = <<Sub(Top.prod)>>
  BY <1>2 DEF Pending
<1>4. ~(la \in FirstOf(Pending(n), First))
  <2> SUFFICES ASSUME la \in FirstOf(Pending(n), First) PROVE FALSE
    OBVIOUS
  <2> DEFINE s == <<Sub(Top.prod)>>
  <2>1. la \in FirstOf(s, First) /\ DOMAIN s = {1} /\ s[1] = Sub(Top.prod)
    BY <1>3
  <2> HIDE DEF s
  <2>2. la \in First[Top.prod]
    BY <2>1, BeginsWith DEF Sub
  <2> QED
    BY <1>2, <2>2, FollowAssumption
<1>5. CanBeEmpty(Pending(n)) => Follow(Top.prod) \subseteq Labels(Top.prod)
  <2> SUFFICES ASSUME CanBeEmpty(Pending(n)) PROVE Follow(Top.prod) \subseteq Labels(Top.prod)
    OBVIOUS
  <2> DEFINE s == <<Sub(Top.prod)>>
  <2>1. CanBeEmpty(s) /\ 1 \in DOMAIN s /\ s[1] = Sub(Top.prod)
    BY <1>3
  <2> HIDE DEF s
  <2>2. Top.prod \in Nullable
    BY <2>1 DEF CanBeEmpty, Sub
  <2> QED
    BY <1>2, <2>2, FollowAssumption
<1>6. ASSUME NEW i \in 0 .. n - 1, Reached(i)
      PROVE  la \notin Follow(stack[i + 1].prod)
  <2>1. n \in i + 1 .. n
    BY <1>2
  <2>2. CanBeEmpty(Pending(n))
    BY <1>6, <2>1 DEF Reached
  <2>3. Follow(stack[i + 1].prod) \subseteq Follow(Top.prod)
    BY <1>1, <1>6, FollowsOutward
  <2> QED
    BY <1>5, <2>2, <2>3
<1>7. ASSUME NEW i \in DOMAIN stack, Reached(i), la \in FirstOf(Pending(i), First)
      PROVE  FALSE
  <2>1. i # n
    BY <1>4, <1>7
  <2>2. i \in 0 .. n - 1 /\ i < n
    BY <1>2, <2>1
  <2>3. la \in Follow(stack[i + 1].prod)
    BY <1>1, <1>7, <2>2, FollowsCaller
  <2> QED
    BY <1>6, <1>7, <2>2, <2>3
<1>8. ASSUME la = "EOF", Reached(0)
      PROVE  FALSE
  <2>1. stack[1].prod = "program"
    BY <1>1 DEF ProgramIsOutermost
  <2>2. "EOF" \in Follow(stack[1].prod)
    BY <2>1, RulesAssumption, FollowAssumption
  <2>3. 0 \in 0 .. n - 1 /\ 0 + 1 = 1
    BY <1>2
  <2> QED
    BY <1>6, <1>8, <2>2, <2>3
<1> QED
  BY <1>7, <1>8 DEF Viable

\* A match that is about to report the next token allows its own token only.
LEMMA MatchReportsErrors ==
  ASSUME ParserInvariant, NextIs("match"), la # Head(Top.todo).arg
  PROVE  ~Viable(la)
<1> DEFINE n == Len(stack)
           s == Top.todo
<1>1. /\ ParserTypeOK /\ stack # <<>> /\ Top.at = "body" /\ s # <<>> /\ Head(s).op = "match"
  BY HeadIsStep DEF ParserInvariant, StackInvariant
<1>2. /\ n \in Nat \ {0} /\ DOMAIN stack = 1 .. n /\ Top = stack[n] /\ s \in Seq(Step)
  BY <1>1, TopIsFrame DEF FrameType
<1>3. Pending(n) = s
  BY <1>1, <1>2 DEF Pending
<1> HIDE DEF s
<1>4. Head(s) = s[1] /\ Len(s) \in Nat \ {0} /\ DOMAIN s = 1 .. Len(s)
      /\ \A j \in 1 .. Len(s) : s[j] \in Step
  BY <1>1, <1>2, LenProperties, EmptySeq, ElementOfSeq, HeadTailProperties
<1>5. ~CanBeEmpty(s)
  BY <1>1, <1>4 DEF CanBeEmpty
<1>6. \A i \in 0 .. n - 1 : ~Reached(i)
  <2> TAKE i \in 0 .. n - 1
  <2>1. n \in i + 1 .. n
    BY <1>2
  <2> QED
    BY <1>3, <1>5, <2>1 DEF Reached
<1>7. la \notin FirstOf(s, First)
  <2> SUFFICES ASSUME la \in FirstOf(s, First) PROVE FALSE
    OBVIOUS
  <2>1. PICK i \in DOMAIN s :
           /\ CanBeEmpty(SubSeq(s, 1, i - 1))
           /\ \/ s[i].op = "match" /\ la = s[i].arg
              \/ s[i].op = "parse" /\ la \in First[s[i].arg]
    BY BeginsWith
  <2>2. i # 1
    BY <1>1, <1>4, <2>1 DEF s
  <2> DEFINE b == SubSeq(s, 1, i - 1)
             m == i - 1
  <2>3. m \in Nat \ {0} /\ m <= Len(s)
    BY <1>4, <2>2
  <2>4. 1 \in DOMAIN b /\ b[1] = s[1]
    <3> HIDE DEF m
    <3>1. \A j \in 1 .. m : s[j] \in Step
      BY <1>4, <2>3
    <3>2. /\ SubSeq(s, 1, m) \in Seq(Step) /\ Len(SubSeq(s, 1, m)) = m - 1 + 1
          /\ \A j \in 1 .. m - 1 + 1 : SubSeq(s, 1, m)[j] = s[1 + j - 1]
      BY <2>3, <3>1, SubSeqProperties
    <3>3. DOMAIN SubSeq(s, 1, m) = 1 .. Len(SubSeq(s, 1, m))
      BY <3>2, LenProperties
    <3> QED
      BY <2>3, <3>2, <3>3 DEF m
  <2> HIDE DEF b
  <2> QED
    BY <1>1, <1>4, <2>1, <2>4 DEF CanBeEmpty, b
<1>8. \A i \in DOMAIN stack : i # n => i \in 0 .. n - 1
  BY <1>2
<1>9. 0 \in 0 .. n - 1
  BY <1>2
<1> QED
  BY <1>3, <1>6, <1>7, <1>8, <1>9 DEF Viable

\* Behind the program comes the end of the source and nothing else.
LEMMA FinishReportsErrors ==
  ASSUME stack = <<>>, la # "EOF"
  PROVE  ~Viable(la)
<1>1. DOMAIN stack = {}
  BY EmptySeq
<1> QED
  BY <1>1 DEF Viable

LEMMA ReportsAreErrors == ParserInvariant => NoFalseAlarm
<1> SUFFICES ASSUME ParserInvariant, AboutToReport PROVE ~Viable(la)
  BY DEF NoFalseAlarm
<1> QED
  BY SwitchReportsErrors, MatchReportsErrors, FinishReportsErrors DEF AboutToReport

-----------------------------------------------------------------------------
(* The theorems, for all Beginnings and Alphabets and every MaxFree.       *)

\* The invariant of the parser holds on every source.
THEOREM ParserIsSound == ParserSpec => []ParserInvariant
  BY InitSound, NextSound, PTL DEF ParserSpec

\* Its part about the stack, which the theorems below rest on.
LEMMA StackIsSound == ParserSpec => []StackInvariant
<1>1. ParserInvariant => StackInvariant
  BY DEF ParserInvariant
<1> QED
  BY <1>1, ParserIsSound, PTL

\* Every call on the stack is one of a parse_ function, at a step of it.
THEOREM ParserTypeCorrect == ParserSpec => []ParserTypeOK
<1>1. StackInvariant => ParserTypeOK
  BY DEF StackInvariant
<1> QED
  BY <1>1, StackIsSound, PTL

\* Two calls of one production have the same rank, so that they cannot have
\* been made at one token.
LEMMA ConsumedBetween == StackInvariant => RecursionConsumes
<1> SUFFICES ASSUME StackInvariant, NEW i \in DOMAIN stack, NEW j \in DOMAIN stack,
                    i < j, stack[i].prod = stack[j].prod
             PROVE  stack[i].from < stack[j].from
  BY DEF RecursionConsumes
<1>1. /\ stack[i].from \in Nat /\ stack[j].from \in Nat
      /\ Rank[stack[i].prod] \in Nat
  BY TopIsFrame, EmptySeq, RankAssumption DEF StackInvariant, FrameType
<1>2. stack[i].from <= stack[j].from
  BY DEF StackInvariant, CallsNest
<1>3. stack[i].from # stack[j].from
  BY <1>1 DEF StackInvariant, RankFalls
<1> QED
  BY <1>1, <1>2, <1>3

\* Between two active calls of one production a token was consumed, in
\* recovery too: the depth of the C stack is bounded by the source.
THEOREM RecursionIsBounded == ParserSpec => []RecursionConsumes
BY ConsumedBetween, StackIsSound, PTL

\* The table is printed, with status 0, only after the whole source was
\* read, and the early exit is taken only after an error was reported.
THEOREM EndIsHonest == ParserSpec => []EndsHonestly
<1>1. StackInvariant => EndsHonestly
  BY DEF StackInvariant
<1> QED
  BY <1>1, StackIsSound, PTL

\* On every source a token reported as an error is one that the active calls
\* cannot go on with: no label is missing in front of what can be empty.
THEOREM NoReportIsFalse == ParserSpec => []NoFalseAlarm
BY ReportsAreErrors, ParserIsSound, PTL

\* On every source an operator's production finds a case group behind its left
\* operand, parsed or recovered from.
THEOREM OperandsAlwaysResume == ParserSpec => []OperandsResume
<1>1. ParserInvariant => OperandsResume
  BY DEF ParserInvariant
<1> QED
  BY <1>1, ParserIsSound, PTL
=============================================================================
