----------------------------- MODULE SymbolTable -----------------------------
(***************************************************************************)
(* The symbol table of the compiler front-end (src/symbol_table.c): a tree *)
(* of linked entries that is only ever extended next to, or below, the     *)
(* entry the "eye" (ParserData.sym_eye) is looking at.                     *)
(*                                                                         *)
(* Every C function of the file that changes the table is an action with   *)
(* the same name.  This module places no discipline on the order of the    *)
(* calls: the error recovery of the parser makes calls in orders that no   *)
(* correct source program leads to.  Declarations.tla adds the caller's    *)
(* discipline.                                                             *)
(*                                                                         *)
(* An entry is named by its allocation order 1, 2, ...; NULL is 0.  Memory *)
(* exhaustion is not modelled; MaxEntries bounds the model.                *)
(***************************************************************************)
EXTENDS Integers

CONSTANTS
  Name,        \* the lexemes of identifiers
  VarType,     \* the std_type values parse_type and parse_std_type return
  Count,       \* the parameter counts passed to set_method_param_count
  MaxEntries   \* bound: number of entries ever allocated

ASSUME MaxEntriesAssumption == MaxEntries \in Nat
ASSUME VarTypeAssumption == VarType \subseteq STRING
ASSUME CountAssumption == Count \subseteq Nat

NULL  == 0
Entry == 1 .. MaxEntries
Link  == Entry \cup {NULL}

StdType == VarType \cup {"NONE", "PGNAME", "PGPARAM"}

\* struct Symbol with struct Type inlined; array bounds do not matter here.
Symbol == [name : Name, std_type : StdType, fun : {0, 1},
           count : Nat, param : {0, 1}]

VARIABLES
  symbol,                            \* the Symbol of every allocated entry
  next, prev, parent, child, temp,   \* the links of struct SymbolTable
  size,                              \* number of entries allocated so far
  symbol_table,                      \* ParserData.symbol_table, the root
  sym_eye, sym_turn,                 \* ParserData.sym_eye and .sym_turn
  result                             \* the error bits of ParserData.result

links == <<next, prev, parent, child, temp>>
vars  == <<symbol, links, size, symbol_table, sym_eye, sym_turn, result>>

Allocated == 1 .. size

-----------------------------------------------------------------------------
(* Lookup.                                                                 *)

\* The loops "while (curr->next != NULL) curr = curr->next"; NULL, which they
\* are not entered with, stands for itself.
EndOfScope(e) ==
  LET end[x \in Link] == IF x = NULL \/ next[x] = NULL THEN x ELSE end[next[x]]
  IN  end[e]

\* Mutant: siblings are skipped.
Before_SkipsSiblings(c, stop) ==
  IF parent[c] \in {stop, NULL} THEN stop ELSE EndOfScope(parent[c])

\* Where get_symbol's walk goes from c: to the previous sibling, and from the
\* first sibling to the last one of the enclosing scope.
Before(c, stop) ==
  IF prev[c] # NULL THEN prev[c]
  ELSE IF parent[c] = stop THEN stop
  ELSE EndOfScope(parent[c])

SearchFrom(start, stop, name) ==
  LET walk[c \in Link] ==
        IF c \in {NULL, stop} THEN NULL
        ELSE IF symbol[c].name = name THEN c
        ELSE walk[Before(c, stop)]
  IN  walk[start]

\* Mutant: a method that has entries inside counts as childless.
ChildlessMethod_Any(e) == symbol[e].fun = 1

\* A method that was just entered, or just left, and has nothing inside.
ChildlessMethod(e) == symbol[e].fun = 1 /\ child[e] = NULL

\* Mutant: the local search stops at any entry without children.
StopCondition_AnyLeaf(global_scope) ==
  IF global_scope = 1 THEN NULL
  ELSE IF child[sym_eye] = NULL THEN sym_eye ELSE parent[sym_eye]

StopCondition(global_scope) ==
  IF global_scope = 1 THEN NULL
  ELSE IF ChildlessMethod(sym_eye) THEN sym_eye
  ELSE parent[sym_eye]

get_symbol(name, global_scope) ==
  IF sym_eye = NULL THEN NULL
  ELSE SearchFrom(EndOfScope(sym_eye), StopCondition(global_scope), name)

\* What the parser asks about the method a name denotes.
get_num_params(name) ==
  IF get_symbol(name, 1) = NULL THEN 0 ELSE symbol[get_symbol(name, 1)].count

\* The n-th entry (from zero) inside the method, if it is a parameter; any
\* other outcome is TYPE_DEFAULT, whose std_type is NONE.
get_param_type(name, n) ==
  LET method == get_symbol(name, 1)
      nth[i \in 0 .. n] == IF i = 0 THEN child[method]
                           ELSE IF nth[i - 1] = NULL THEN NULL ELSE next[nth[i - 1]]
  IN  IF method = NULL \/ nth[n] = NULL THEN "NONE"
      ELSE IF symbol[nth[n]].param = 1 THEN symbol[nth[n]].std_type ELSE "NONE"

-----------------------------------------------------------------------------
(* Construction.                                                           *)

semerr(condition) == result' = IF condition THEN result \cup {"SEMERR"} ELSE result

Nowhere == [e \in Entry |-> NULL]

\* Mutant: the child link points past the new entry.
HangBelow_Past(new) ==
  /\ child'  = [child EXCEPT ![sym_eye] = new + 1]
  /\ parent' = [parent EXCEPT ![new] = sym_eye]
  /\ UNCHANGED <<next, prev>>

\* After a turn a new entry hangs below the eye, otherwise after it.
HangBelow(new) ==
  /\ child'  = [child EXCEPT ![sym_eye] = new]
  /\ parent' = [parent EXCEPT ![new] = sym_eye]
  /\ UNCHANGED <<next, prev>>

\* Mutant: the link back is forgotten.
HangAfter_NoPrev(new) ==
  /\ next'   = [next EXCEPT ![sym_eye] = new]
  /\ parent' = [parent EXCEPT ![new] = parent[sym_eye]]
  /\ UNCHANGED <<child, prev>>

\* Mutant: a sibling takes the eye for its parent.
HangAfter_EyeAsParent(new) ==
  /\ next'   = [next EXCEPT ![sym_eye] = new]
  /\ prev'   = [prev EXCEPT ![new] = sym_eye]
  /\ parent' = [parent EXCEPT ![new] = sym_eye]
  /\ UNCHANGED child

HangAfter(new) ==
  /\ next'   = [next EXCEPT ![sym_eye] = new]
  /\ prev'   = [prev EXCEPT ![new] = sym_eye]
  /\ parent' = [parent EXCEPT ![new] = parent[sym_eye]]
  /\ UNCHANGED child

\* Mutant: the turn is not looked at.
Place_Below == "below"

Place == IF sym_turn = 1 THEN "below" ELSE "after"

\* new_symbol_table_entry, its links, and the move of the eye.
NewEntry(sym, where) ==
  LET new == size + 1
  IN  /\ size < MaxEntries
      /\ size' = new
      /\ symbol' = [e \in 1 .. new |-> IF e = new THEN sym ELSE symbol[e]]
      /\ sym_eye' = new
      /\ \/ where = "below" /\ HangBelow(new)
         \/ where = "after" /\ HangAfter(new)
         \/ where = "nowhere" /\ UNCHANGED <<next, prev, parent, child>>
      /\ UNCHANGED temp

\* The first entry, and any other one entered with the eye on NULL, is taken
\* for the program name.
MethodSymbol(name) ==
  [name     |-> name,
   std_type |-> IF sym_eye = NULL THEN "PGNAME" ELSE "NONE",
   fun      |-> IF sym_eye = NULL THEN 0 ELSE 1,
   count    |-> 0,
   param    |-> 0]

\* Mutant: a method is not entered when the eye is on NULL.
check_enter_method_Lost(name) ==
  /\ semerr(get_symbol(name, 1) # NULL)
  /\ IF symbol_table # NULL /\ sym_eye = NULL
     THEN UNCHANGED <<symbol, links, size, symbol_table, sym_eye, sym_turn>>
     ELSE /\ NewEntry(MethodSymbol(name), IF symbol_table # NULL THEN Place ELSE "nowhere")
          /\ symbol_table' = IF symbol_table = NULL THEN size + 1 ELSE symbol_table
          /\ sym_turn' = 1

check_enter_method(name) ==
  /\ semerr(get_symbol(name, 1) # NULL)
  /\ NewEntry(MethodSymbol(name),
              IF symbol_table # NULL /\ sym_eye # NULL THEN Place ELSE "nowhere")
  /\ symbol_table' = IF symbol_table = NULL THEN size + 1 ELSE symbol_table
  /\ sym_turn' = 1

\* Mutant: the eye moves to the parent at once, over a method without children.
Climb_Premature == sym_eye' = parent[sym_eye] /\ UNCHANGED temp

\* The first exit of a method without children leaves the eye on the method
\* and remembers in temp where a second exit has to go.
Climb ==
  \/ /\ ChildlessMethod(sym_eye) /\ temp[sym_eye] # NULL
     /\ sym_eye' = temp[sym_eye]
     /\ UNCHANGED temp
  \/ /\ ChildlessMethod(sym_eye) /\ temp[sym_eye] = NULL
     /\ temp' = [temp EXCEPT ![sym_eye] = parent[sym_eye]]
     /\ UNCHANGED sym_eye
  \/ /\ ~ChildlessMethod(sym_eye)
     /\ sym_eye' = parent[sym_eye]
     /\ UNCHANGED temp

check_exit_method ==
  \/ /\ sym_eye = NULL
     /\ semerr(TRUE)
     /\ UNCHANGED <<symbol, links, size, symbol_table, sym_eye, sym_turn>>
  \/ /\ sym_eye # NULL
     /\ Climb
     /\ sym_turn' = 0
     /\ UNCHANGED <<symbol, next, prev, parent, child, size, symbol_table, result>>

\* check_add_var, whose two callers differ in the type and the param flag.
AddEntry(name, type, param) ==
  /\ sym_eye # NULL
  /\ semerr(get_symbol(name, 0) # NULL)
  /\ NewEntry([name |-> name, std_type |-> type, fun |-> 0,
               count |-> 0, param |-> param], Place)
  /\ sym_turn' = 0
  /\ UNCHANGED symbol_table

check_add_var(name, type) ==
  \/ AddEntry(name, type, 0)
  \/ /\ sym_eye = NULL
     /\ semerr(TRUE)
     /\ UNCHANGED <<symbol, links, size, symbol_table, sym_eye, sym_turn>>

check_add_prog_param(name) == check_add_var(name, "PGPARAM")

\* Mutant: the parameter is not marked as one.
check_add_fun_param_Unmarked(name, type) == AddEntry(name, type, 0)

\* check_add_fun_param dereferences what check_add_var returns: with the eye
\* on NULL the call is not defined, so it is not enabled.
check_add_fun_param(name, type) == AddEntry(name, type, 1)

\* Mutants: the signature goes to the entry in view, or to the one around it.
MethodInView_Eye    == sym_eye
MethodInView_Parent == parent[sym_eye]

\* The method set_method_type and set_method_param_count write to.
MethodInView ==
  IF symbol[sym_eye].fun = 1 THEN sym_eye ELSE parent[sym_eye]

\* Both dereference the eye; a program name (parent NULL) is left alone.
UpdateMethod(sym) ==
  /\ sym_eye # NULL
  /\ symbol' = IF MethodInView = NULL THEN symbol
               ELSE [symbol EXCEPT ![MethodInView] = sym]
  /\ UNCHANGED <<links, size, symbol_table, sym_eye, sym_turn, result>>

set_method_type(type) ==
  UpdateMethod([symbol[MethodInView] EXCEPT !.std_type = type, !.fun = 1])

set_method_param_count(count) ==
  UpdateMethod([symbol[MethodInView] EXCEPT !.count = count])

-----------------------------------------------------------------------------
(* The table under an arbitrary caller.                                    *)

Init ==
  /\ symbol = <<>>
  /\ next = Nowhere /\ prev = Nowhere /\ parent = Nowhere
  /\ child = Nowhere /\ temp = Nowhere
  /\ size = 0
  /\ symbol_table = NULL
  /\ sym_eye = NULL
  /\ sym_turn \in {0, 1}      \* main leaves it uninitialised
  /\ result = {}

Next ==
  \/ \E n \in Name : check_enter_method(n)
  \/ check_exit_method
  \/ \E n \in Name, t \in VarType : check_add_var(n, t)
  \/ \E n \in Name : check_add_prog_param(n)
  \/ \E n \in Name, t \in VarType : check_add_fun_param(n, t)
  \/ \E t \in VarType : set_method_type(t)
  \/ \E c \in Count : set_method_param_count(c)

Spec == Init /\ [][Next]_vars

-----------------------------------------------------------------------------
(* Properties.                                                             *)

\* The links stay inside the table, which holds one symbol per entry.
TypeOK ==
  /\ size \in 0 .. MaxEntries
  /\ symbol \in [Allocated -> Symbol]
  /\ next \in [Entry -> Link] /\ prev \in [Entry -> Link]
  /\ parent \in [Entry -> Link] /\ child \in [Entry -> Link]
  /\ temp \in [Entry -> Link]
  /\ symbol_table \in Allocated \cup {NULL}
  /\ sym_eye \in Allocated \cup {NULL}
  /\ sym_turn \in {0, 1}
  /\ result \subseteq {"SEMERR"}

\* Links respect the order of allocation, so that every loop of
\* symbol_table.c that follows next, prev or parent comes to an end.
Ordered ==
  \A e \in Entry :
    /\ next[e] # NULL => e < next[e] /\ next[e] <= size
    /\ child[e] # NULL => e < child[e] /\ child[e] <= size
    /\ prev[e] < e /\ parent[e] < e

\* next and prev are inverse, siblings share their parent, and a first
\* sibling is the child of its parent: no entry that was hung into the table
\* is ever unhooked by the insertion of another one.
WellLinked ==
  \A e \in Entry :
    /\ next[e] # NULL => prev[next[e]] = e
    /\ prev[e] # NULL => next[prev[e]] = e /\ parent[prev[e]] = parent[e]
    /\ child[e] # NULL => parent[child[e]] = e /\ prev[child[e]] = NULL
    /\ parent[e] # NULL /\ prev[e] = NULL => child[parent[e]] = e

\* The entries of a scope are linked in the order of allocation, child is the
\* first one, and the links pass none over: walking back over prev, get_symbol
\* meets every earlier entry of the scope.
ScopesAreChains ==
  \A f \in Entry : parent[f] # NULL =>
    /\ child[parent[f]] \in 1 .. f
    /\ \A e \in 1 .. f - 1 : parent[e] = parent[f] =>
         next[e] \in 1 .. f /\ prev[f] \in e .. f

\* The entry an exit has to go to later is always the enclosing method.
TempIsParent == \A e \in Entry : temp[e] \in {NULL, parent[e]}

\* The eye and the methods around it are all last in their scope, so that
\* get_symbol sees the whole of every enclosing scope and check_add_var and
\* check_enter_method can append without a search.
EyeIsLast ==
  \E open \in SUBSET Allocated :
    /\ sym_eye # NULL => sym_eye \in open
    /\ \A e \in open : /\ next[e] = NULL
                       /\ e <= sym_eye
                       /\ parent[e] \in open \cup {NULL}

\* After a turn nothing is below the eye yet.
TurnIsFresh == sym_eye # NULL /\ sym_turn = 1 => child[sym_eye] = NULL

\* The inductive invariant of the table.
TableInvariant ==
  TypeOK /\ Ordered /\ WellLinked /\ ScopesAreChains /\ TempIsParent /\ EyeIsLast /\ TurnIsFresh

\* A link to a later entry is written at most once: insertion never
\* overwrites the place where another entry hangs.
LinksAreWrittenOnce ==
  [][\A e \in Entry : /\ next[e] # NULL => next'[e] = next[e]
                      /\ child[e] # NULL => child'[e] = child[e]]_vars
=============================================================================
