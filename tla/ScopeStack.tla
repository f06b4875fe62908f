------------------------------ MODULE ScopeStack ------------------------------
(***************************************************************************)
(* What the symbol table promises to the parser: block-structured scopes.  *)
(* A stack of scopes, innermost last; a scope is the set of declarations   *)
(* made in it, numbered in their order.  The outermost scope holds the     *)
(* program name alone, the next one the globals.                           *)
(*                                                                         *)
(* There are no links, no eye and no turns here: Declarations.tla shows    *)
(* that symbol_table.c implements this module.                             *)
(***************************************************************************)
EXTENDS Integers, Sequences, FiniteSetsExt

CONSTANT Name

VARIABLES
  scopes,     \* Seq(SUBSET [name : Name, id : Nat])
  declared,   \* number of declarations made so far; the last one's id
  duplicate   \* has a duplicate declaration been reported?

scopeVars == <<scopes, declared, duplicate>>

DeclaredIn(scope, name) == {d.id : d \in {s \in scope : s.name = name}}

\* The latest declaration of the name in the innermost scope that has one;
\* 0 when it is not declared.
Lookup(name) ==
  LET levels == {i \in DOMAIN scopes : DeclaredIn(scopes[i], name) # {}}
  IN  IF levels = {} THEN 0 ELSE Max(DeclaredIn(scopes[Max(levels)], name))

Top == scopes[Len(scopes)]

\* The first program parameter may not have the name of the program: the one
\* declaration that is compared with an enclosing scope.
ProgramNameClash(name) ==
  Len(scopes) = 2 /\ Top = {} /\ DeclaredIn(scopes[1], name) # {}

Clash(name) == DeclaredIn(Top, name) # {} \/ ProgramNameClash(name)

\* The stack with one more declaration in the innermost scope.
Extended(name) ==
  [scopes EXCEPT ![Len(scopes)] = @ \cup {[name |-> name, id |-> declared + 1]}]

EnterProgram(name) ==
  /\ scopes = <<>>
  /\ scopes' = << {[name |-> name, id |-> declared + 1]}, {} >>
  /\ declared' = declared + 1
  /\ UNCHANGED duplicate

EnterMethod(name) ==
  /\ Len(scopes) >= 2
  /\ duplicate' = (duplicate \/ Lookup(name) # 0)
  /\ scopes' = Append(Extended(name), {})
  /\ declared' = declared + 1

Declare(name) ==
  /\ Len(scopes) >= 2
  /\ duplicate' = (duplicate \/ Clash(name))
  /\ scopes' = Extended(name)
  /\ declared' = declared + 1

Leave ==
  /\ Len(scopes) >= 2
  /\ scopes' = SubSeq(scopes, 1, Len(scopes) - 1)
  /\ UNCHANGED <<declared, duplicate>>

Init == scopes = <<>> /\ declared = 0 /\ duplicate = FALSE

Next ==
  \/ \E n \in Name : EnterProgram(n) \/ EnterMethod(n) \/ Declare(n)
  \/ Leave

Spec == Init /\ [][Next]_scopeVars
=============================================================================
