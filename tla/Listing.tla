------------------------------ MODULE Listing ------------------------------
(***************************************************************************)
(* The last step of parse: output_symbol_table of src/symbol_table.c walks *)
(* the table and computes the address of every variable, scope by scope.   *)
(* The table is any that calls of symbol_table.c can leave behind; the     *)
(* walk's activations are on a stack.                                      *)
(*                                                                         *)
(* Sizes and addresses are ints, up to INT_MAX; what the hardware does on  *)
(* overflow is to wrap around.                                             *)
(***************************************************************************)
EXTENDS SymbolTable, Sequences

CONSTANTS
  Declared,   \* what each VarType is in the source: see Declaration
  INT_MAX     \* the greatest int

Types == INSTANCE TypeRules

\* A scalar, or an array with the literals that bound it.
Declaration ==
  [elem : {"INT", "REAL"}, array : BOOLEAN, from : Nat, to : Nat]

ASSUME DeclaredAssumption == Declared \in [VarType -> Declaration]
ASSUME IntAssumption == INT_MAX \in Nat

\* The value that is left of x in an int: there are 2 * (INT_MAX + 1) of them.
int(x) == ((x + INT_MAX + 1) % (2 * (INT_MAX + 1))) - (INT_MAX + 1)

\* sscanf of a literal with more digits than an int holds keeps its low bits.
Bound(v) == [attribute |-> "INT", intval |-> int(v)]

\* The struct Type behind a std_type of SymbolTable.tla.
TypeOf(std) ==
  IF std \notin VarType THEN Types!Plain(std)
  ELSE LET d == Declared[std]
       IN  IF d.array
           THEN Types!ArrayRule(Bound(d.from), Bound(d.to), Types!Plain(d.elem)).t
           ELSE Types!Plain(d.elem)

UnitSize(t) == CASE t.std_type \in {"INT", "AINT"} -> 4
                 [] t.std_type \in {"REAL", "AREAL"} -> 8
                 [] OTHER -> 0

\* Mutant: the number of elements is one too small.
type_size_OffByOne(t) ==
  int(UnitSize(t) * (IF t.std_type \in Types!Arrays THEN int(t.end - t.start) ELSE 1))

type_size(t) ==
  int(UnitSize(t) * (IF t.std_type \in Types!Arrays THEN int(int(t.end - t.start) + 1) ELSE 1))

VARIABLES
  phase,      \* "parse", "list" or "end"
  walks,      \* activations of output_symbol_table, innermost first
  lines       \* what was written

listVars == <<phase, walks, lines>>

-----------------------------------------------------------------------------
\* An activation for the entries from s on, one level deeper than its caller.
Walk(s, level) == [s |-> s, level |-> level, offset |-> 0]

Innermost == walks[1]

\* Parameters, methods and the program's names have no address; the text
\* printed for them is whatever their buffer holds.
IsVariable(e) ==
  symbol[e].param = 0 /\ symbol[e].fun = 0 /\ symbol[e].std_type \notin {"PGNAME", "PGPARAM"}

Start ==
  /\ phase = "parse" /\ phase' = "list"
  /\ walks' = <<Walk(symbol_table, 0)>>
  /\ UNCHANGED lines

\* One turn of the loop, up to the recursive call for what is inside.
PrintEntry ==
  /\ phase = "list" /\ Innermost.s # NULL
  /\ LET s      == Innermost.s
         size_s == IF IsVariable(s) THEN type_size(TypeOf(symbol[s].std_type)) ELSE 0
     IN  /\ lines' = Append(lines, [entry |-> s, level |-> Innermost.level,
                                    offset |-> Innermost.offset])
         /\ walks' = <<Walk(child[s], Innermost.level + 1)>>
                     \o [walks EXCEPT ![1].offset = int(@ + size_s)]
  /\ UNCHANGED phase

\* Mutant: the loop goes back instead of on.
WalkEnds_Back ==
  /\ phase = "list" /\ Innermost.s = NULL
  /\ IF Len(walks) = 1 THEN walks' = <<>> /\ phase' = "end"
     ELSE /\ walks' = [Tail(walks) EXCEPT ![1].s = prev[@]]
          /\ UNCHANGED phase
  /\ UNCHANGED lines

\* The end of a scope: the caller goes on with s->next.
WalkEnds ==
  /\ phase = "list" /\ Innermost.s = NULL
  /\ IF Len(walks) = 1 THEN walks' = <<>> /\ phase' = "end"
     ELSE /\ walks' = [Tail(walks) EXCEPT ![1].s = next[@]]
          /\ UNCHANGED phase
  /\ UNCHANGED lines

ListInit == Init /\ phase = "parse" /\ walks = <<>> /\ lines = <<>>

ListNext ==
  \/ phase = "parse" /\ Next /\ UNCHANGED listVars
  \/ (Start \/ PrintEntry \/ WalkEnds) /\ UNCHANGED vars

ListSpec == ListInit /\ [][ListNext]_<<vars, listVars>>

-----------------------------------------------------------------------------
(* Properties.                                                             *)

\* The entries that hang below the root of the table, and how deep.
First(e) == LET back[x \in Entry] == IF prev[x] = NULL THEN x ELSE back[prev[x]] IN back[e]
Outermost(e) == LET up[x \in Entry] == IF parent[x] = NULL THEN First(x) ELSE up[parent[x]] IN up[e]
LevelOf(e) == LET up[x \in Link] == IF x = NULL THEN 0 ELSE 1 + up[parent[x]] IN up[parent[e]]

\* The listing is the program's outline: in whatever order methods were
\* entered and left, every declaration that hangs in the table is listed once,
\* in the order of the source, as deep as its scope.
ListingIsOutline ==
  phase = "end" =>
    /\ \A k, m \in DOMAIN lines : k < m => lines[k].entry < lines[m].entry
    /\ {lines[k].entry : k \in DOMAIN lines} = {e \in Allocated : Outermost(e) = symbol_table}
    /\ \A k \in DOMAIN lines : lines[k].level = LevelOf(lines[k].entry)

\* The bytes that a variable needs, by what the source declares.
Extent(e) ==
  LET d == Declared[symbol[e].std_type]
  IN  (IF d.elem = "INT" THEN 4 ELSE 8) *
      (IF ~d.array THEN 1 ELSE IF d.from > d.to THEN 0 ELSE d.to - d.from + 1)

\* The lines with the variables of a scope, what those among the first n need,
\* and whether all of it can be counted.
Variables(scope) ==
  {k \in DOMAIN lines : IsVariable(lines[k].entry) /\ parent[lines[k].entry] = scope
                        /\ symbol[lines[k].entry].std_type \in VarType}
BoundsFit(e) ==
  LET d == Declared[symbol[e].std_type] IN d.array => d.from <= INT_MAX /\ d.to <= INT_MAX
Needed(scope, n) ==
  LET sum[k \in 0 .. Len(lines)] ==
        IF k = 0 THEN 0
        ELSE sum[k - 1] + (IF k \in Variables(scope) THEN Extent(lines[k].entry) ELSE 0)
  IN  sum[n]
Fits(scope) ==
  /\ \A k \in Variables(scope) : BoundsFit(lines[k].entry)
  /\ Needed(scope, Len(lines)) <= INT_MAX

\* Memory addresses: in a scope whose variables fit, each has its own bytes,
\* none before the start of the scope.
StorageIsDisjoint ==
  \A scope \in Link : Fits(scope) =>
    \A k, m \in Variables(scope) :
      /\ lines[k].offset >= 0
      /\ k < m => lines[k].offset + Extent(lines[k].entry) <= lines[m].offset
-----------------------------------------------------------------------------
(* What makes these inductive.                                             *)

IsNewTree(e) == parent[e] = NULL /\ prev[e] = NULL

\* Entries are allocated in the order of the outline: those between an entry
\* and its next sibling, and between a method and any entry inside, are inside;
\* and a tree begun with the eye on NULL is never linked with an earlier one.
NextIsBehind ==
  \A e \in Entry : next[e] # NULL => \A x \in e + 1 .. next[e] - 1 : parent[x] >= e
ScopesAreIntervals ==
  \A y \in Entry : \A x \in parent[y] + 1 .. y : parent[x] >= parent[y]
TreesAreApart ==
  \A r \in Allocated : IsNewTree(r) =>
    \A x \in r + 1 .. size : /\ parent[x] = NULL \/ parent[x] >= r
                             /\ prev[x] = NULL \/ prev[x] >= r

\* The eye and the methods around it are the latest: what was entered after
\* one of them is inside it.
EyeIsLatest ==
  \E open \in SUBSET Allocated :
    /\ sym_eye # NULL => sym_eye \in open
    /\ \A e \in open : /\ parent[e] \in open \cup {NULL}
                       /\ \A x \in e + 1 .. size : parent[x] >= e

SourceOrder ==
  /\ symbol_table = IF size = 0 THEN NULL ELSE 1
  /\ NextIsBehind /\ ScopesAreIntervals /\ TreesAreApart /\ EyeIsLatest

\* The addresses that the loop advances by.
SizeOf(e) == IF IsVariable(e) THEN type_size(TypeOf(symbol[e].std_type)) ELSE 0
After(e)  == int(lines[e].offset + SizeOf(e))
Address(e) == IF prev[e] = NULL THEN 0 ELSE After(prev[e])

Line       == [entry : Entry, level : Nat, offset : Int]
Activation == [s : Link, level : Nat, offset : Int]

\* The k-th line is that of entry k, placed by those of its method and of the
\* sibling before it.
LinesFollow ==
  /\ lines \in Seq(Line)
  /\ Len(lines) <= size
  /\ \A k \in 1 .. Len(lines) :
       /\ lines[k].entry = k
       /\ lines[k].level = IF parent[k] = NULL THEN 0 ELSE lines[parent[k]].level + 1
       /\ lines[k].offset = Address(k)
       /\ k > 1 => ~IsNewTree(k)

\* Where the activations are: each but the innermost inside an entry that was
\* listed, with nothing behind it yet, and the innermost at the entry to be
\* listed next or at the end of its scope.
WalkFollows(i) ==
  LET w == walks[i]
  IN  /\ w.s # NULL => parent[w.s] = IF i = Len(walks) THEN NULL ELSE walks[i + 1].s
      /\ w.level = Len(walks) - i
      /\ i > 1 => /\ w.s \in 1 .. Len(lines)
                  /\ w.level = lines[w.s].level
                  /\ w.offset = After(w.s)
                  /\ \A x \in w.s + 1 .. Len(lines) : parent[x] >= w.s
                  /\ \A j \in 2 .. i : w.s <= walks[j].s

AtNext(e) ==
  /\ Innermost.s = e /\ e <= size
  /\ Innermost.offset = Address(e)
  /\ e > 1 => ~IsNewTree(e)

AtEnd(e) ==
  /\ Innermost.s = NULL
  /\ e <= size => /\ e > 1
                  /\ IF Len(walks) = 1 THEN IsNewTree(e) ELSE parent[e] < walks[2].s

WalksFollow ==
  /\ walks \in Seq(Activation) /\ walks # <<>>
  /\ \A i \in 1 .. Len(walks) : WalkFollows(i)
  /\ AtNext(Len(lines) + 1) \/ AtEnd(Len(lines) + 1)

ListInvariant ==
  /\ SourceOrder /\ LinesFollow
  /\ phase \in {"parse", "list", "end"}
  /\ phase = "parse" => lines = <<>>
  /\ phase = "list" => WalksFollow
  /\ phase = "end" /\ Len(lines) < size => Len(lines) > 0 /\ IsNewTree(Len(lines) + 1)
=============================================================================
