------------------------------- MODULE HandUp -------------------------------
(***************************************************************************)
(* How the parser gets the count of parameters that it passes to           *)
(* set_method_param_count: Attributes.c goes down from parse_param_list to *)
(* each parse_param_list_ with one more, and comes back up through         *)
(* parse_param_list, parse_arguments and parse_subprogram_head_, recovery  *)
(* or not.  Frontend.tla passes c, the number of parameters entered.       *)
(***************************************************************************)
EXTENDS Frontend

VARIABLE counts    \* Attributes.c of each active call, innermost last

handVars == <<allVars, counts>>

\* Mutant: parse_param_list_ passes down the count it was called with.
Passed_Same(prod) ==
  IF prod # "param_list_" THEN 0
  ELSE IF Top.prod = "param_list" THEN 1 ELSE Last(counts)

\* The c with which the running call calls the production: pl_.c and pl1_.c
\* are passed down, the others start as ATTRIBUTES_DEFAULT.
Passed(prod) ==
  IF prod # "param_list_" THEN 0
  ELSE IF Top.prod = "param_list" THEN 1 ELSE Last(counts) + 1

\* The productions whose c the caller takes over.
HandsUp == {"param_list_", "param_list", "arguments", "subprogram_head_"}

\* Mutant: parse_subprogram_head_ takes the count over only when the colon
\* behind the arguments was matched.
Handed_AfterColon ==
  IF Top.prod \in HandsUp /\ (Top.prod = "arguments" => la = "COLON")
  THEN Append(Front(Front(counts)), Last(counts))
  ELSE Front(counts)

\* The counts when the running call returns.
Handed ==
  IF Top.prod \in HandsUp THEN Append(Front(Front(counts)), Last(counts))
  ELSE Front(counts)

HandInit == FrontInit /\ counts = <<0>>

NextIsCount == Head(Top.todo) = Sym("set_method_param_count")

\* A call ends, by itself or by recovery.
Leave == (Return \/ synch) /\ stack' = Front(stack)

\* A step within a call that touches no attribute.
Go == Switch \/ match \/ (synch /\ UNCHANGED stack) \/ Finish

HandNext ==
  \/ Go /\ UNCHANGED <<tableVars, counts>>
  \/ Call /\ counts' = Append(counts, Passed(Head(Top.todo).arg)) /\ UNCHANGED tableVars
  \/ Leave /\ counts' = Handed /\ UNCHANGED tableVars
  \/ /\ TableCall /\ UNCHANGED counts
     /\ \/ /\ NextIsCount
           /\ set_method_param_count(Last(counts)) /\ UNCHANGED c
        \/ /\ ~NextIsCount
           /\ TableFunction(Head(Top.todo).arg)

HandSpec == HandInit /\ [][HandNext]_handVars

-----------------------------------------------------------------------------
(* Properties.                                                             *)

\* The calls that count the parameters of a function head.
Counters == HandsUp \cup {"subprogram_head"}

\* The call has entered a parameter that it did not pass down yet.
Uncounted(i) == IF stack[i].todo = <<Sub("param_list_")>> THEN 1 ELSE 0

\* A call that will take its c over from one still to be made has none so far.
TakesOverOnce ==
  \A i \in DOMAIN stack :
    /\ stack[i].prod \in Counters \ {"param_list_"}
    /\ \E p \in HandsUp : Ahead(i, Sub(p))
    => counts[i] = 0

\* While a head is entered, the call that counts and waits for no other that
\* does has counted all its parameters.
AllAreCounted ==
  HeadIsEntered =>
    \A i \in DOMAIN stack :
      /\ stack[i].prod \in Counters
      /\ i < Len(stack) => stack[i + 1].prod \notin HandsUp
      => c = counts[i] + Uncounted(i)

\* No parameter is lost or counted twice on the way up, whichever calls end in
\* recovery; this is inductive.
CountIsHandedUp ==
  /\ counts \in Seq(Nat) /\ Len(counts) = Len(stack)
  /\ TakesOverOnce /\ AllAreCounted

\* What parse_subprogram_head passes is the number of parameters entered: all
\* that is said of Frontend.tla is true of the parser with its attributes.
ImplementsFrontend == FrontSpec
=============================================================================
