-------------------------- MODULE SymbolTableProofs --------------------------
(***************************************************************************)
(* Proofs about the symbol table under an arbitrary caller: the structure  *)
(* invariant is inductive, and insertion never overwrites a link.  There   *)
(* get_symbol stays folded: what it returns only decides whether an error  *)
(* is reported.                                                            *)
(*                                                                         *)
(* The last part unfolds the loops of symbol_table.c, which are recursive  *)
(* functions, with a lemma on recursions that descend in a measure.        *)
(***************************************************************************)
EXTENDS SymbolTable, WellFoundedInduction, TLAPS

USE MaxEntriesAssumption, VarTypeAssumption, CountAssumption

\* An entry that hangs somewhere was allocated.
LEMMA HungIsAllocated ==
  ASSUME TypeOK, Ordered, WellLinked, NEW e \in Entry, parent[e] # NULL \/ prev[e] # NULL
  PROVE  e \in Allocated
<1>1. size \in Nat /\ e \in Nat /\ 1 <= e
  BY DEF TypeOK, Entry
<1>2. CASE prev[e] # NULL
  <2>1. prev[e] \in Entry /\ next[prev[e]] = e
    BY <1>2 DEF TypeOK, WellLinked, Link
  <2> QED
    BY <1>1, <2>1 DEF Ordered, Allocated, Entry, NULL
<1>3. CASE prev[e] = NULL /\ parent[e] # NULL
  <2>1. parent[e] \in Entry /\ child[parent[e]] = e
    BY <1>3 DEF TypeOK, WellLinked, Link
  <2> QED
    BY <1>1, <2>1 DEF Ordered, Allocated, Entry, NULL
<1> QED
  BY <1>2, <1>3

\* Everything about an entry that was never allocated is NULL.
LEMMA FreshEntry ==
  ASSUME TypeOK, Ordered, WellLinked, TempIsParent, size < MaxEntries
  PROVE  LET new == size + 1
         IN  /\ new \in Entry
             /\ next[new] = NULL /\ prev[new] = NULL /\ parent[new] = NULL
             /\ child[new] = NULL /\ temp[new] = NULL
<1> DEFINE new == size + 1
<1>1. new \in Entry
  BY DEF TypeOK, Entry
<1>2. next[new] = NULL /\ child[new] = NULL
  BY <1>1 DEF TypeOK, Ordered, Link, Entry, NULL
<1>3. prev[new] = NULL
  <2> SUFFICES ASSUME prev[new] # NULL PROVE FALSE
    OBVIOUS
  <2>1. prev[new] \in Entry /\ next[prev[new]] = new
    BY <1>1 DEF TypeOK, WellLinked, Link
  <2> QED
    BY <2>1, <1>1 DEF Ordered, TypeOK, NULL, Entry
<1>4. parent[new] = NULL
  <2> SUFFICES ASSUME parent[new] # NULL PROVE FALSE
    OBVIOUS
  <2>1. parent[new] \in Entry /\ child[parent[new]] = new
    BY <1>1, <1>3 DEF TypeOK, WellLinked, Link
  <2> QED
    BY <2>1, <1>1 DEF Ordered, TypeOK, NULL, Entry
<1> QED
  BY <1>1, <1>2, <1>3, <1>4 DEF TempIsParent

\* Where an entry may be hung so that nothing is overwritten.
Hangable(where) ==
  /\ where \in {"below", "after", "nowhere"}
  /\ where = "below" => sym_eye # NULL /\ child[sym_eye] = NULL
  /\ where = "after" => sym_eye # NULL

\* In the states of the table every place the code chooses is such a place.
LEMMA PlaceIsHangable ==
  ASSUME TableInvariant, sym_eye # NULL
  PROVE  Hangable(Place)
BY DEF TableInvariant, TurnIsFresh, TypeOK, Place, Hangable

\* The eye has no later sibling.
LEMMA NothingAfterEye ==
  ASSUME EyeIsLast, sym_eye # NULL
  PROVE  next[sym_eye] = NULL
BY DEF EyeIsLast

\* A new entry keeps the types.
LEMMA NewEntryType ==
  ASSUME TypeOK, Ordered, WellLinked, TempIsParent,
         NEW sym \in Symbol, NEW where, Hangable(where),
         NewEntry(sym, where)
  PROVE  /\ size' \in 0 .. MaxEntries
         /\ symbol' \in [Allocated' -> Symbol]
         /\ next' \in [Entry -> Link] /\ prev' \in [Entry -> Link]
         /\ parent' \in [Entry -> Link] /\ child' \in [Entry -> Link]
         /\ temp' \in [Entry -> Link]
         /\ sym_eye' \in Allocated' \cup {NULL}
<1>1. size' \in 0 .. MaxEntries /\ sym_eye' \in Allocated'
  BY DEF TypeOK, NewEntry, Allocated
<1>2. symbol' \in [Allocated' -> Symbol]
  BY DEF TypeOK, NewEntry, Allocated
<1>3. size + 1 \in Link /\ sym_eye \in Link
  BY DEF TypeOK, NewEntry, Link, Entry, Allocated
<1>4. /\ next' \in [Entry -> Link] /\ prev' \in [Entry -> Link]
      /\ parent' \in [Entry -> Link] /\ child' \in [Entry -> Link]
  <2>1. sym_eye # NULL => parent[sym_eye] \in Link
    BY <1>3 DEF TypeOK, Link
  <2> QED
    BY <1>3, <2>1 DEF TypeOK, NewEntry, HangBelow, HangAfter, Hangable
<1> QED
  BY <1>1, <1>2, <1>4 DEF NewEntry, TypeOK

\* A new entry keeps the structure of the table.
LEMMA NewEntryStructure ==
  ASSUME TypeOK, Ordered, WellLinked, ScopesAreChains, TempIsParent, EyeIsLast,
         NEW sym \in Symbol, NEW where, Hangable(where),
         NewEntry(sym, where)
  PROVE  /\ Ordered' /\ WellLinked' /\ ScopesAreChains' /\ TempIsParent' /\ EyeIsLast'
         /\ child'[sym_eye'] = NULL
<1> DEFINE new == size + 1
<1>1. /\ new \in Entry /\ size < MaxEntries
      /\ next[new] = NULL /\ prev[new] = NULL /\ parent[new] = NULL
      /\ child[new] = NULL /\ temp[new] = NULL
  BY FreshEntry DEF NewEntry
<1>2. size' = new /\ sym_eye' = new /\ temp' = temp
  BY DEF NewEntry
<1>3. /\ sym_eye # NULL => sym_eye \in Entry /\ sym_eye <= size /\ parent[sym_eye] < sym_eye
      /\ size \in Nat
      /\ sym_eye \in Nat
  BY DEF TypeOK, Entry, Allocated, NULL, Ordered
<1>4. PICK open \in SUBSET Allocated :
        /\ sym_eye # NULL => sym_eye \in open
        /\ \A e \in open : /\ next[e] = NULL
                           /\ e <= sym_eye
                           /\ parent[e] \in open \cup {NULL}
  BY DEF EyeIsLast
<1>5. open \subseteq Entry
  BY DEF Allocated, Entry, TypeOK
<1>6. \A e \in Entry :
        /\ next[e] \in Nat /\ child[e] \in Nat /\ prev[e] \in Nat /\ parent[e] \in Nat
        /\ next[e] # NULL => e < next[e] /\ next[e] <= size
        /\ child[e] # NULL => e < child[e] /\ child[e] <= size
        /\ prev[e] < e /\ parent[e] < e
  BY DEF Ordered, TypeOK, Link, Entry, NULL
<1>10. /\ \A f \in Entry : parent[f] # NULL => parent[f] \in Entry /\ child[parent[f]] \in 1 .. f
       /\ \A e, f \in Entry :
            parent[f] # NULL /\ e < f /\ parent[e] = parent[f] =>
              next[e] \in 1 .. f /\ prev[f] \in e .. f
  BY DEF ScopesAreChains, TypeOK, Link, Entry
<1>7. CASE where = "below"
  <2>1. /\ sym_eye # NULL /\ child[sym_eye] = NULL
        /\ child' = [child EXCEPT ![sym_eye] = new]
        /\ parent' = [parent EXCEPT ![new] = sym_eye]
        /\ next' = next /\ prev' = prev
    BY <1>7 DEF NewEntry, HangBelow, Hangable
  <2>2. \A e \in Entry : parent'[e] = IF e = new THEN sym_eye ELSE parent[e]
    BY <2>1 DEF TypeOK
  <2>3. \A e \in Entry : child'[e] = IF e = sym_eye THEN new ELSE child[e]
    BY <2>1 DEF TypeOK
  <2>4. Ordered'
    <3> SUFFICES ASSUME NEW e \in Entry
                 PROVE  /\ next'[e] # NULL => e < next'[e] /\ next'[e] <= new
                        /\ child'[e] # NULL => e < child'[e] /\ child'[e] <= new
                        /\ prev'[e] < e /\ parent'[e] < e
      BY <1>2 DEF Ordered
    <3> QED
      BY <1>1, <1>3, <1>6, <2>1, <2>2, <2>3 DEF NULL, Entry
  <2>5. WellLinked'
    BY <1>1, <1>2, <1>3, <2>1, <2>2, <2>3 DEF WellLinked, Ordered, TypeOK, NULL, Entry, Link
  <2>6. TempIsParent'
    BY <1>1, <1>2, <2>2 DEF TempIsParent
  <2>7. EyeIsLast'
    <3> DEFINE open1 == open \cup {new}
    <3>1. open1 \in SUBSET Allocated' /\ new \in open1
      BY <1>2, <1>3 DEF Allocated
    <3>2. ASSUME NEW e \in open1
          PROVE  next'[e] = NULL /\ e <= new /\ parent'[e] \in open1 \cup {NULL}
      <4>1. CASE e = new
        BY <4>1, <1>1, <1>3, <1>4, <2>1, <2>2
      <4>2. CASE e \in open /\ e # new
        BY <4>2, <1>1, <1>3, <1>4, <1>5, <2>1, <2>2 DEF Entry
      <4> QED
        BY <4>1, <4>2
    <3> QED
      BY <3>1, <3>2, <1>2 DEF EyeIsLast
  <2>8. child'[new] = NULL
    BY <1>1, <1>3, <2>3
  <2>9. ScopesAreChains'
    <3> SUFFICES ASSUME NEW f \in Entry, parent'[f] # NULL
                 PROVE  /\ child'[parent'[f]] \in 1 .. f
                        /\ \A e \in 1 .. f - 1 : parent'[e] = parent'[f] =>
                             next'[e] \in 1 .. f /\ prev'[f] \in e .. f
      BY DEF ScopesAreChains
    <3>1. \A e \in Entry : parent[e] # sym_eye
      BY <1>3, <1>10, <2>1 DEF NULL
    <3>2. CASE f = new
      BY <3>1, <3>2, <1>1, <1>3, <2>2, <2>3 DEF Entry
    <3>3. CASE f # new
      <4>1. parent'[f] = parent[f] /\ child'[parent'[f]] = child[parent[f]]
        BY <3>1, <3>3, <1>10, <2>2, <2>3
      <4>2. ASSUME NEW e \in 1 .. f - 1, parent'[e] = parent'[f] PROVE e \in Entry /\ parent[e] = parent[f]
        BY <3>1, <4>1, <4>2, <1>1, <2>2 DEF Entry
      <4> QED
        BY <4>1, <4>2, <1>10, <2>1 DEF Entry
    <3> QED
      BY <3>2, <3>3
  <2> QED
    BY <2>4, <2>5, <2>6, <2>7, <2>8, <2>9, <1>2
<1>8. CASE where = "after"
  <2>1. /\ sym_eye # NULL
        /\ next' = [next EXCEPT ![sym_eye] = new]
        /\ prev' = [prev EXCEPT ![new] = sym_eye]
        /\ parent' = [parent EXCEPT ![new] = parent[sym_eye]]
        /\ child' = child
    BY <1>8 DEF NewEntry, HangAfter, Hangable
  <2>2. \A e \in Entry : parent'[e] = IF e = new THEN parent[sym_eye] ELSE parent[e]
    BY <2>1 DEF TypeOK
  <2>3. \A e \in Entry : next'[e] = IF e = sym_eye THEN new ELSE next[e]
    BY <2>1 DEF TypeOK
  <2>4. \A e \in Entry : prev'[e] = IF e = new THEN sym_eye ELSE prev[e]
    BY <2>1 DEF TypeOK
  <2>5. next[sym_eye] = NULL
    BY <2>1, NothingAfterEye
  <2>6. Ordered'
    <3> SUFFICES ASSUME NEW e \in Entry
                 PROVE  /\ next'[e] # NULL => e < next'[e] /\ next'[e] <= new
                        /\ child'[e] # NULL => e < child'[e] /\ child'[e] <= new
                        /\ prev'[e] < e /\ parent'[e] < e
      BY <1>2 DEF Ordered
    <3> QED
      BY <1>1, <1>3, <1>6, <2>1, <2>2, <2>3, <2>4 DEF NULL, Entry
  <2>7. WellLinked'
    BY <1>1, <1>2, <1>3, <2>1, <2>2, <2>3, <2>4, <2>5
    DEF WellLinked, Ordered, TypeOK, NULL, Entry, Link
  <2>8. TempIsParent'
    BY <1>1, <1>2, <2>2 DEF TempIsParent
  <2>9. EyeIsLast'
    <3> DEFINE open1 == (open \ {sym_eye}) \cup {new}
    <3>1. open1 \in SUBSET Allocated' /\ new \in open1
      BY <1>2, <1>3 DEF Allocated
    <3>2. ASSUME NEW e \in open1
          PROVE  next'[e] = NULL /\ e <= new /\ parent'[e] \in open1 \cup {NULL}
      <4>1. CASE e = new
        <5>1. parent[sym_eye] \in open \cup {NULL} /\ parent[sym_eye] # sym_eye
          BY <1>3, <1>4, <2>1
        <5> QED
          BY <4>1, <5>1, <1>1, <1>3, <2>1, <2>2, <2>3
      <4>2. CASE e \in open /\ e # new /\ e # sym_eye
        <5>1. e \in Entry /\ e <= sym_eye /\ next[e] = NULL /\ parent[e] \in open \cup {NULL}
          BY <4>2, <1>4, <1>5
        <5>2. parent[e] # sym_eye
          BY <5>1, <4>2, <1>3 DEF Ordered, TypeOK, Link, Entry, NULL
        <5> QED
          BY <4>2, <5>1, <5>2, <1>3, <2>1, <2>2, <2>3 DEF Entry
      <4> QED
        BY <4>1, <4>2
    <3> QED
      BY <3>1, <3>2, <1>2 DEF EyeIsLast
  <2>10. child'[new] = NULL
    BY <1>1, <2>1
  <2>11. ScopesAreChains'
    <3> SUFFICES ASSUME NEW f \in Entry, parent'[f] # NULL
                 PROVE  /\ child'[parent'[f]] \in 1 .. f
                        /\ \A e \in 1 .. f - 1 : parent'[e] = parent'[f] =>
                             next'[e] \in 1 .. f /\ prev'[f] \in e .. f
      BY DEF ScopesAreChains
    <3>1. \A e \in Entry : parent[e] = parent[sym_eye] /\ parent[e] # NULL => e <= sym_eye
      BY <1>3, <1>10, <2>1, <2>5 DEF NULL, Entry
    <3>2. \A e \in Entry : parent[e] # NULL => e <= size
      BY HungIsAllocated DEF Allocated
    <3>3. CASE f = new
      <4>1. parent'[f] = parent[sym_eye] /\ prev'[f] = sym_eye
        BY <3>3, <1>1, <2>2, <2>4
      <4>2. child'[parent'[f]] \in 1 .. f
        BY <3>3, <4>1, <1>1, <1>3, <1>10, <2>1 DEF Entry
      <4>3. ASSUME NEW e \in 1 .. f - 1, parent'[e] = parent'[f]
            PROVE  next'[e] \in 1 .. f /\ prev'[f] \in e .. f
        <5>1. e \in Entry /\ e # new /\ parent[e] = parent[sym_eye] /\ parent[e] # NULL
          BY <3>3, <4>1, <4>3, <1>1, <2>2 DEF Entry
        <5>2. e <= sym_eye
          BY <3>1, <5>1
        <5>3. CASE e = sym_eye
          BY <5>3, <3>3, <4>1, <1>1, <1>3, <2>1, <2>3 DEF Entry
        <5>4. CASE e # sym_eye
          <6>1. next[e] \in 1 .. sym_eye
            BY <5>1, <5>2, <5>4, <1>3, <1>10, <2>1 DEF Entry
          <6> QED
            BY <6>1, <5>1, <5>2, <5>4, <3>3, <4>1, <1>1, <1>3, <2>1, <2>3 DEF Entry
        <5> QED
          BY <5>3, <5>4
      <4> QED
        BY <4>2, <4>3
    <3>4. CASE f # new
      <4>1. parent'[f] = parent[f] /\ child' = child /\ prev'[f] = prev[f]
        BY <3>4, <2>1, <2>2, <2>4
      <4>2. f <= size
        BY <3>2, <4>1
      <4>3. ASSUME NEW e \in 1 .. f - 1, parent'[e] = parent'[f]
            PROVE  next'[e] \in 1 .. f /\ prev'[f] \in e .. f
        <5>1. e \in Entry /\ e # new /\ parent[e] = parent[f] /\ parent[f] # NULL
          BY <4>1, <4>2, <4>3, <1>1, <1>3, <2>2 DEF Entry
        <5>2. next[e] \in 1 .. f /\ prev[f] \in e .. f
          BY <5>1, <4>3, <1>10 DEF Entry
        <5>3. e # sym_eye
          BY <5>2, <2>5 DEF NULL, Entry
        <5> QED
          BY <5>1, <5>2, <5>3, <4>1, <2>3
      <4> QED
        BY <4>1, <4>3, <1>10
    <3> QED
      BY <3>3, <3>4
  <2> QED
    BY <2>6, <2>7, <2>8, <2>9, <2>10, <2>11, <1>2
<1>9. CASE where = "nowhere"
  <2>1. next' = next /\ prev' = prev /\ parent' = parent /\ child' = child
    BY <1>9 DEF NewEntry
  <2>2. Ordered' /\ WellLinked' /\ ScopesAreChains' /\ TempIsParent'
    BY <1>2, <1>3, <2>1
    DEF Ordered, WellLinked, ScopesAreChains, TempIsParent, TypeOK, NULL, Entry, Link
  <2>3. EyeIsLast'
    <3> DEFINE open1 == {new}
    <3>1. open1 \in SUBSET Allocated' /\ new \in open1
      BY <1>2, <1>3 DEF Allocated
    <3>2. ASSUME NEW e \in open1
          PROVE  next'[e] = NULL /\ e <= new /\ parent'[e] \in open1 \cup {NULL}
      BY <1>1, <1>3, <2>1
    <3> HIDE DEF open1
    <3> QED
      BY <3>1, <3>2, <1>2 DEF EyeIsLast
  <2> QED
    BY <2>1, <2>2, <2>3, <1>1, <1>2
<1> QED
  BY <1>7, <1>8, <1>9 DEF Hangable

\* An action that hangs one new entry keeps the whole invariant.
LEMMA NewEntryKeepsTable ==
  ASSUME TableInvariant, NEW sym \in Symbol, NEW where, Hangable(where),
         NewEntry(sym, where),
         result' \subseteq {"SEMERR"}, sym_turn' \in {0, 1},
         symbol_table' \in Allocated' \cup {NULL}
  PROVE  TableInvariant'
<1>1. TypeOK /\ Ordered /\ WellLinked /\ ScopesAreChains /\ TempIsParent /\ EyeIsLast
  BY DEF TableInvariant
<1>2. TypeOK'
  BY <1>1, NewEntryType DEF TypeOK
<1>3. /\ Ordered' /\ WellLinked' /\ ScopesAreChains' /\ TempIsParent' /\ EyeIsLast'
      /\ child'[sym_eye'] = NULL
  BY <1>1, NewEntryStructure
<1> QED
  BY <1>2, <1>3 DEF TableInvariant, TurnIsFresh

\* A report of an error keeps the type of the result.
LEMMA SemerrType ==
  ASSUME NEW condition, result \subseteq {"SEMERR"}, semerr(condition)
  PROVE  result' \subseteq {"SEMERR"}
BY DEF semerr

\* The empty table main hands to parse satisfies the invariant.
LEMMA InitTable == Init => TableInvariant
<1> SUFFICES ASSUME Init PROVE TableInvariant
  OBVIOUS
<1> USE DEF Init, Nowhere
<1>1. TypeOK
  BY DEF TypeOK, Link, Allocated, NULL
<1>2. Ordered /\ WellLinked /\ ScopesAreChains /\ TempIsParent /\ TurnIsFresh
  BY DEF Ordered, WellLinked, ScopesAreChains, TempIsParent, TurnIsFresh, Entry, NULL
<1>3. EyeIsLast
  <2> DEFINE open == {}
  <2>1. /\ open \in SUBSET Allocated
        /\ sym_eye # NULL => sym_eye \in open
        /\ \A e \in open : next[e] = NULL /\ e <= sym_eye /\ parent[e] \in open \cup {NULL}
    OBVIOUS
  <2> QED
    BY <2>1 DEF EyeIsLast
<1> QED
  BY <1>1, <1>2, <1>3 DEF TableInvariant

\* check_enter_method keeps the invariant, with the eye on NULL or not.
LEMMA EnterMethodKeepsTable ==
  ASSUME TableInvariant, NEW n \in Name, check_enter_method(n)
  PROVE  TableInvariant'
<1> DEFINE sym   == MethodSymbol(n)
           where == IF symbol_table # NULL /\ sym_eye # NULL THEN Place ELSE "nowhere"
<1>1. sym \in Symbol
  BY DEF Symbol, StdType, MethodSymbol
<1>2. Hangable(where)
  BY PlaceIsHangable DEF Hangable
<1>3. NewEntry(sym, where)
  BY DEF check_enter_method
<1>4. result' \subseteq {"SEMERR"} /\ sym_turn' \in {0, 1}
  BY SemerrType DEF check_enter_method, TableInvariant, TypeOK
<1>5. symbol_table' \in Allocated' \cup {NULL}
  <2>1. size' = size + 1 /\ size \in Nat /\ symbol_table \in 1 .. size \cup {NULL}
    BY <1>3 DEF NewEntry, TableInvariant, TypeOK, Allocated
  <2>2. symbol_table' = IF symbol_table = NULL THEN size + 1 ELSE symbol_table
    BY DEF check_enter_method
  <2> QED
    BY <2>1, <2>2 DEF Allocated
<1> HIDE DEF sym, where
<1> QED
  BY <1>1, <1>2, <1>3, <1>4, <1>5, NewEntryKeepsTable

\* A variable or parameter that is entered keeps the invariant.
LEMMA AddEntryKeepsTable ==
  ASSUME TableInvariant, NEW n \in Name, NEW t \in StdType, NEW p \in {0, 1},
         AddEntry(n, t, p)
  PROVE  TableInvariant'
<1> DEFINE sym == [name |-> n, std_type |-> t, fun |-> 0, count |-> 0, param |-> p]
<1>1. sym \in Symbol
  BY DEF Symbol
<1>2. Hangable(Place)
  BY PlaceIsHangable DEF AddEntry
<1>3. NewEntry(sym, Place)
  BY DEF AddEntry
<1>4. result' \subseteq {"SEMERR"} /\ sym_turn' \in {0, 1}
  BY SemerrType DEF AddEntry, TableInvariant, TypeOK
<1>5. symbol_table' \in Allocated' \cup {NULL}
  <2>1. size' = size + 1 /\ size \in Nat /\ symbol_table \in 1 .. size \cup {NULL}
    BY <1>3 DEF NewEntry, TableInvariant, TypeOK, Allocated
  <2> QED
    BY <2>1 DEF Allocated, AddEntry
<1> HIDE DEF sym
<1> QED
  BY <1>1, <1>2, <1>3, <1>4, <1>5, NewEntryKeepsTable

\* A step that leaves the links and the eye alone keeps the structure.
LEMMA SameShapeKeepsTable ==
  ASSUME TableInvariant, UNCHANGED <<links, size, symbol_table, sym_eye, sym_turn>>,
         symbol' \in [Allocated -> Symbol], result' \subseteq {"SEMERR"}
  PROVE  TableInvariant'
<1> USE DEF links, TableInvariant
<1>1. TypeOK'
  BY DEF TypeOK, Allocated
<1>2. Ordered' /\ WellLinked' /\ ScopesAreChains' /\ TempIsParent' /\ TurnIsFresh'
  BY DEF Ordered, WellLinked, ScopesAreChains, TempIsParent, TurnIsFresh
<1>3. EyeIsLast'
  BY DEF EyeIsLast, Allocated
<1> QED
  BY <1>1, <1>2, <1>3

\* check_add_var keeps it, also when it only reports an error.
LEMMA AddVarKeepsTable ==
  ASSUME TableInvariant, NEW n \in Name, NEW t \in StdType, check_add_var(n, t)
  PROVE  TableInvariant'
<1>1. CASE AddEntry(n, t, 0)
  BY <1>1, AddEntryKeepsTable
<1>2. CASE /\ semerr(TRUE)
           /\ UNCHANGED <<symbol, links, size, symbol_table, sym_eye, sym_turn>>
  <2>1. symbol' \in [Allocated -> Symbol] /\ result' \subseteq {"SEMERR"}
    BY <1>2, SemerrType DEF TableInvariant, TypeOK
  <2> QED
    BY <1>2, <2>1, SameShapeKeepsTable
<1> QED
  BY <1>1, <1>2 DEF check_add_var

\* An exit moves the eye to a method that is last in its scope, or nowhere:
\* through the parent as through temp.
LEMMA ExitMethodKeepsTable ==
  ASSUME TableInvariant, check_exit_method
  PROVE  TableInvariant'
<1> USE DEF TableInvariant
<1>1. CASE sym_eye = NULL
  <2>1. symbol' \in [Allocated -> Symbol] /\ result' \subseteq {"SEMERR"}
    BY <1>1, SemerrType DEF check_exit_method, TypeOK
  <2>2. UNCHANGED <<links, size, symbol_table, sym_eye, sym_turn>>
    BY <1>1 DEF check_exit_method
  <2> QED
    BY <2>1, <2>2, SameShapeKeepsTable
<1>2. CASE sym_eye # NULL
  <2>1. /\ UNCHANGED <<symbol, next, prev, parent, child, size, symbol_table, result>>
        /\ sym_turn' = 0
        /\ sym_eye \in Entry /\ sym_eye \in Allocated
    <3>1. sym_eye \in Entry /\ sym_eye \in Allocated
      BY <1>2 DEF TypeOK, Allocated, Entry
    <3>2. /\ UNCHANGED <<symbol, next, prev, parent, child, size, symbol_table, result>>
          /\ sym_turn' = 0
      BY <1>2 DEF check_exit_method
    <3> QED
      BY <3>1, <3>2
  <2>2. PICK open \in SUBSET Allocated :
          /\ sym_eye \in open
          /\ \A e \in open : /\ next[e] = NULL
                             /\ e <= sym_eye
                             /\ parent[e] \in open \cup {NULL}
    BY <1>2 DEF EyeIsLast
  <2>3. sym_eye' \in {sym_eye, parent[sym_eye]}
    BY <1>2, <2>1 DEF check_exit_method, Climb, TempIsParent
  <2>4. sym_eye' \in open \cup {NULL}
    BY <2>2, <2>3
  <2>5. temp' \in [Entry -> Link] /\ TempIsParent'
    <3>1. CASE temp' = temp
      BY <3>1, <2>1 DEF TempIsParent, TypeOK
    <3>2. CASE temp' = [temp EXCEPT ![sym_eye] = parent[sym_eye]]
      BY <3>2, <2>1 DEF TempIsParent, TypeOK
    <3> QED
      BY <1>2, <3>1, <3>2 DEF check_exit_method, Climb
  <2>6. TypeOK'
    BY <2>1, <2>2, <2>4, <2>5 DEF TypeOK, Allocated
  <2>7. Ordered' /\ WellLinked' /\ ScopesAreChains' /\ TurnIsFresh'
    BY <2>1 DEF Ordered, WellLinked, ScopesAreChains, TurnIsFresh
  <2>8. EyeIsLast'
    <3> DEFINE open1 == {e \in open : e <= sym_eye'}
    <3>1. open1 \in SUBSET Allocated'
      BY <2>1 DEF Allocated
    <3>2. sym_eye' # NULL => sym_eye' \in open1
      BY <2>4, <2>2 DEF Allocated
    <3>3. ASSUME NEW e \in open1
          PROVE  next'[e] = NULL /\ e <= sym_eye' /\ parent'[e] \in open1 \cup {NULL}
      <4>1. e \in open /\ e \in Entry /\ e <= sym_eye' /\ sym_eye' \in Nat
        BY <2>4 DEF Allocated, Entry, TypeOK, NULL
      <4>2. parent[e] \in open \cup {NULL} /\ parent[e] < e /\ parent[e] \in Nat
        BY <4>1, <2>2 DEF Ordered, Link, TypeOK, NULL, Entry
      <4>3. parent[e] <= sym_eye'
        BY <4>1, <4>2 DEF Entry
      <4> QED
        BY <4>1, <4>2, <4>3, <2>1, <2>2
    <3> HIDE DEF open1
    <3> QED
      BY <3>1, <3>2, <3>3 DEF EyeIsLast
  <2> QED
    BY <2>5, <2>6, <2>7, <2>8
<1> QED
  BY <1>1, <1>2

\* The two set_method_ functions write to an entry that exists.
LEMMA UpdateKeepsTable ==
  ASSUME TableInvariant, NEW sym, sym_eye # NULL,
         MethodInView # NULL => sym \in Symbol, UpdateMethod(sym)
  PROVE  TableInvariant'
<1>1. symbol' \in [Allocated -> Symbol] /\ result' \subseteq {"SEMERR"}
  BY DEF UpdateMethod, TableInvariant, TypeOK
<1>2. UNCHANGED <<links, size, symbol_table, sym_eye, sym_turn>>
  BY DEF UpdateMethod
<1> QED
  BY <1>1, <1>2, SameShapeKeepsTable

\* The method whose signature is set is an entry of the table, or NULL.
LEMMA MethodInViewIsAllocated ==
  ASSUME TableInvariant, sym_eye # NULL, MethodInView # NULL
  PROVE  symbol[MethodInView] \in Symbol
<1>1. sym_eye \in Allocated /\ sym_eye \in Entry /\ parent[sym_eye] < sym_eye
  BY DEF TableInvariant, TypeOK, Allocated, Entry, Ordered
<1>2. MethodInView \in Allocated
  BY <1>1 DEF MethodInView, TableInvariant, TypeOK, Allocated, Entry, Link, NULL
<1> QED
  BY <1>2 DEF TableInvariant, TypeOK

\* Every call of symbol_table.c keeps the invariant.
LEMMA NextKeepsTable ==
  ASSUME TableInvariant, [Next]_vars
  PROVE  TableInvariant'
<1>1. ASSUME NEW n \in Name, check_enter_method(n) PROVE TableInvariant'
  BY <1>1, EnterMethodKeepsTable
<1>2. CASE check_exit_method
  BY <1>2, ExitMethodKeepsTable
<1>3. ASSUME NEW n \in Name, NEW t \in VarType, check_add_var(n, t)
      PROVE  TableInvariant'
  BY <1>3, AddVarKeepsTable DEF StdType
<1>4. ASSUME NEW n \in Name, check_add_prog_param(n) PROVE TableInvariant'
  BY <1>4, AddVarKeepsTable DEF StdType, check_add_prog_param
<1>5. ASSUME NEW n \in Name, NEW t \in VarType, check_add_fun_param(n, t)
      PROVE  TableInvariant'
  BY <1>5, AddEntryKeepsTable DEF StdType, check_add_fun_param
<1>6. ASSUME NEW t \in VarType, set_method_type(t) PROVE TableInvariant'
  <2> DEFINE sym == [symbol[MethodInView] EXCEPT !.std_type = t, !.fun = 1]
  <2>1. sym_eye # NULL /\ UpdateMethod(sym)
    BY <1>6 DEF set_method_type, UpdateMethod
  <2>2. MethodInView # NULL => sym \in Symbol
    BY <2>1, MethodInViewIsAllocated DEF Symbol, StdType
  <2> HIDE DEF sym
  <2> QED
    BY <2>1, <2>2, UpdateKeepsTable
<1>7. ASSUME NEW c \in Count, set_method_param_count(c) PROVE TableInvariant'
  <2> DEFINE sym == [symbol[MethodInView] EXCEPT !.count = c]
  <2>1. sym_eye # NULL /\ UpdateMethod(sym)
    BY <1>7 DEF set_method_param_count, UpdateMethod
  <2>2. MethodInView # NULL => sym \in Symbol
    BY <2>1, MethodInViewIsAllocated DEF Symbol
  <2> HIDE DEF sym
  <2> QED
    BY <2>1, <2>2, UpdateKeepsTable
<1>8. CASE UNCHANGED vars
  <2>1. symbol' \in [Allocated -> Symbol] /\ result' \subseteq {"SEMERR"}
    BY <1>8 DEF vars, TableInvariant, TypeOK
  <2> QED
    BY <1>8, <2>1, SameShapeKeepsTable DEF vars
<1> QED
  BY <1>1, <1>2, <1>3, <1>4, <1>5, <1>6, <1>7, <1>8 DEF Next

\* Whatever the parser calls, in whatever order, the links of the table form
\* one consistent tree and the eye looks at an entry that is last in its
\* scope, as are all the methods around it.
THEOREM TableIsSound == Spec => []TableInvariant
<1>1. Init => TableInvariant
  BY InitTable
<1>2. TableInvariant /\ [Next]_vars => TableInvariant'
  BY NextKeepsTable
<1> QED
  BY <1>1, <1>2, PTL DEF Spec

\* The links stay inside the table.
THEOREM TypeCorrect == Spec => []TypeOK
<1>1. TableInvariant => TypeOK
  BY DEF TableInvariant
<1> QED
  BY <1>1, TableIsSound, PTL

\* next and prev stay inverse and a scope hangs from exactly one method.
THEOREM TableIsWellLinked == Spec => []WellLinked
<1>1. TableInvariant => WellLinked
  BY DEF TableInvariant
<1> QED
  BY <1>1, TableIsSound, PTL

\* The eye is where the next entry can be appended.
THEOREM EyeStaysLast == Spec => []EyeIsLast
<1>1. TableInvariant => EyeIsLast
  BY DEF TableInvariant
<1> QED
  BY <1>1, TableIsSound, PTL

-----------------------------------------------------------------------------
(* Insertion never unhooks an entry.                                       *)

\* No link to a later entry changes in this step.
KeepsLinks ==
  \A e \in Entry : /\ next[e] # NULL => next'[e] = next[e]
                   /\ child[e] # NULL => child'[e] = child[e]

\* A new entry is hung where no other one hangs.
LEMMA NewEntryKeepsLinks ==
  ASSUME TypeOK, EyeIsLast, NEW sym, NEW where, Hangable(where), NewEntry(sym, where)
  PROVE  KeepsLinks
<1>1. sym_eye # NULL => next[sym_eye] = NULL
  BY NothingAfterEye
<1>2. where = "below" => child[sym_eye] = NULL
  BY DEF Hangable
<1> QED
  BY <1>1, <1>2 DEF NewEntry, HangBelow, HangAfter, Hangable, KeepsLinks, TypeOK

\* No call of symbol_table.c changes a link to a later entry.
LEMMA NextKeepsLinks ==
  ASSUME TableInvariant, [Next]_vars
  PROVE  KeepsLinks
<1>1. ASSUME NEW n \in Name, check_enter_method(n) PROVE KeepsLinks
  <2> DEFINE where == IF symbol_table # NULL /\ sym_eye # NULL THEN Place ELSE "nowhere"
  <2>1. Hangable(where)
    BY PlaceIsHangable DEF Hangable
  <2>2. \E sym : NewEntry(sym, where)
    BY <1>1 DEF check_enter_method
  <2> HIDE DEF where
  <2> QED
    BY <2>1, <2>2, NewEntryKeepsLinks DEF TableInvariant
<1>2. ASSUME NEW n, NEW t, NEW p, AddEntry(n, t, p) PROVE KeepsLinks
  <2>1. Hangable(Place)
    BY <1>2, PlaceIsHangable DEF AddEntry
  <2>2. \E sym : NewEntry(sym, Place)
    BY <1>2 DEF AddEntry
  <2> QED
    BY <2>1, <2>2, NewEntryKeepsLinks DEF TableInvariant
<1>3. CASE UNCHANGED <<next, child>>
  BY <1>3 DEF KeepsLinks
<1>4. ASSUME NEW n, NEW t, check_add_var(n, t) PROVE KeepsLinks
  BY <1>2, <1>3, <1>4 DEF check_add_var, links
<1>5. CASE check_exit_method
  BY <1>3, <1>5 DEF check_exit_method, links
<1>6. ASSUME NEW sym, UpdateMethod(sym) PROVE KeepsLinks
  BY <1>3, <1>6 DEF UpdateMethod, links
<1> QED
  BY <1>1, <1>2, <1>3, <1>4, <1>5, <1>6
  DEF Next, vars, links, check_add_prog_param, check_add_fun_param,
      set_method_type, set_method_param_count

\* No entry that was hung into the table is ever lost by a later insertion.
THEOREM LinksAreNeverOverwritten == Spec => LinksAreWrittenOnce
<1>1. TableInvariant /\ [Next]_vars => [KeepsLinks]_vars
  BY NextKeepsLinks
<1> QED
  BY <1>1, TableIsSound, PTL DEF Spec, LinksAreWrittenOnce, KeepsLinks

-----------------------------------------------------------------------------
(* Recursions that descend in a measure.                                   *)

\* The least element principle, from the well-foundedness of < on Nat.
LEMMA LeastExists ==
  ASSUME NEW S \in SUBSET Nat, S # {}
  PROVE  \E x \in S : \A y \in S : x <= y
<1> DEFINE R == OpToRel(<, Nat)
<1>1. IsWellFoundedOn(R, Nat)
  BY NatLessThanWellFounded
<1>2. \A x, y \in Nat : y < x => <<y, x>> \in R
  BY DEF OpToRel
<1> HIDE DEF R
<1>3. PICK x \in S : \A y \in S : ~(<<y, x>> \in R)
  BY <1>1, WFMin, Zenon
<1>4. \A y \in S : ~(y < x)
  BY <1>2, <1>3
<1> QED
  BY <1>4

\* An element of least measure.
LEMMA LeastMeasure ==
  ASSUME NEW D, NEW mu \in [D -> Nat], NEW S \in SUBSET D, S # {}
  PROVE  \E x \in S : \A y \in D : mu[y] < mu[x] => y \notin S
<1> DEFINE M == {mu[x] : x \in S}
<1>1. M \in SUBSET Nat /\ M # {}
  OBVIOUS
<1>2. PICK n \in M : \A k \in M : n <= k
  BY <1>1, LeastExists
<1>3. PICK x \in S : n = mu[x]
  BY <1>2
<1>4. \A y \in S : mu[x] <= mu[y] /\ mu[x] \in Nat /\ mu[y] \in Nat
  BY <1>2, <1>3
<1> QED
  BY <1>4

\* f is the function of D that the recursion defines: given on B, and elsewhere
\* computed by h from what it is for g of the argument.  B, b, g and h are data
\* and not operators, so that the lemmas below can be used with any.
Recursion(f, D, B, b, g, h) ==
  f = [x \in D |-> IF x \in B THEN b[x] ELSE h[<<x, f[g[x]]>>]]

\* A recursion that descends in a measure defines a function.  With it the
\* CHOOSE that a recursive function definition stands for can be unfolded.
LEMMA RecursionExists ==
  ASSUME NEW D, NEW mu \in [D -> Nat], NEW B, NEW b, NEW g, NEW h,
         \A x \in D \ B : g[x] \in D /\ mu[g[x]] < mu[x]
  PROVE  \E f : Recursion(f, D, B, b, g, h)
<1> DEFINE Part(n)  == {x \in D : mu[x] < n}
           Fun(f, n)  == DOMAIN f = Part(n) /\ \A x \in Part(n) : f[x] = IF x \in B THEN b[x] ELSE h[<<x, f[g[x]]>>]
           Bad  == {n \in Nat : ~ \E f : Fun(f, n)}
<1>0. \A x \in D : mu[x] \in Nat
  OBVIOUS
<1>1. Bad = {}
  <2> SUFFICES ASSUME Bad # {} PROVE FALSE
    OBVIOUS
  <2>1. PICK n \in Bad : \A k \in Bad : n <= k
    <3> HIDE DEF Bad
    <3>1. Bad \in SUBSET Nat
      BY DEF Bad
    <3> QED
      BY <3>1, LeastExists
  <2>2. n \in Nat /\ ~ \E f : Fun(f, n)
    BY <2>1
  <2>3. CASE n = 0
    <3> DEFINE f == [x \in Part(0) |-> 0]
    <3>1. Part(0) = {}
      BY <1>0
    <3>2. Fun(f, 0)
      BY <3>1
    <3> HIDE DEF Fun
    <3> QED
      BY <2>2, <2>3, <3>2
  <2>4. CASE n # 0
    <3>1. n - 1 \in Nat /\ n - 1 \notin Bad
      <4> HIDE DEF Bad
      <4> QED
        BY <2>1, <2>2, <2>4
    <3>2. PICK f : Fun(f, n - 1)
      BY <3>1
    <3> DEFINE f1 == [x \in Part(n) |-> IF x \in B THEN b[x] ELSE h[<<x, f[g[x]]>>]]
    <3>3. ASSUME NEW x \in Part(n), x \notin B PROVE g[x] \in Part(n - 1) /\ g[x] \in Part(n)
      BY <1>0, <3>3, <2>2
    <3>4. ASSUME NEW x \in Part(n), x \notin B PROVE f1[g[x]] = f[g[x]]
      <4>1. g[x] \in Part(n) /\ g[x] \in Part(n-1)
        BY <3>3, <3>4
      <4> QED
        BY <4>1, <3>2
    <3>5. Fun(f1, n)
      <4>1. DOMAIN f1 = Part(n)
        OBVIOUS
      <4>2. ASSUME NEW x \in Part(n) PROVE f1[x] = IF x \in B THEN b[x] ELSE h[<<x, f1[g[x]]>>]
        <5>1. f1[x] = IF x \in B THEN b[x] ELSE h[<<x, f[g[x]]>>]
          OBVIOUS
        <5> HIDE DEF f1
        <5> QED
          BY <5>1, <3>4
      <4> HIDE DEF f1
      <4> QED
        BY <4>1, <4>2
    <3> HIDE DEF Fun
    <3> QED
      BY <2>2, <3>5
  <2> QED
    BY <2>3, <2>4
<1> DEFINE fun == [n \in Nat |-> CHOOSE f : Fun(f, n)]
<1>2. ASSUME NEW n \in Nat PROVE Fun(fun[n], n)
  <2>1. \E f : Fun(f, n)
    BY <1>1
  <2>2. fun[n] = CHOOSE f : Fun(f, n)
    OBVIOUS
  <2> HIDE DEF Fun, fun
  <2> QED
    BY <2>1, <2>2
<1> HIDE DEF fun
<1> DEFINE all == [x \in D |-> fun[mu[x] + 1][x]]
\* Two of the parts agree where both are defined.
<1>3. ASSUME NEW m \in Nat, NEW n \in Nat, NEW x \in Part(m) \cap Part(n) PROVE fun[m][x] = fun[n][x]
  <2> DEFINE Odd == {y \in Part(m) \cap Part(n) : fun[m][y] # fun[n][y]}
  <2> SUFFICES ASSUME Odd # {} PROVE FALSE
    OBVIOUS
  <2>1. Odd \in SUBSET D
    OBVIOUS
  <2>2. PICK y \in Odd : \A z \in D : mu[z] < mu[y] => z \notin Odd
    <3> HIDE DEF Odd
    <3> QED
      BY <2>1, LeastMeasure
  <2>3. /\ fun[m][y] = IF y \in B THEN b[y] ELSE h[<<y, fun[m][g[y]]>>]
        /\ fun[n][y] = IF y \in B THEN b[y] ELSE h[<<y, fun[n][g[y]]>>]
    BY <1>2, <2>2
  <2>4. y \notin B /\ fun[m][g[y]] # fun[n][g[y]]
    BY <2>2, <2>3
  <2>5. y \in D /\ g[y] \in D /\ mu[g[y]] < mu[y] /\ mu[y] \in Nat /\ mu[g[y]] \in Nat /\ mu[y] < m /\ mu[y] < n
    BY <2>2, <2>4
  <2>6. g[y] \in Part(m) \cap Part(n)
    BY <2>5
  <2> QED
    BY <2>2, <2>4, <2>5, <2>6
<1>4. ASSUME NEW x \in D PROVE all[x] = IF x \in B THEN b[x] ELSE h[<<x, all[g[x]]>>]
  <2>0. mu[x] \in Nat /\ mu[x] + 1 \in Nat /\ x \in Part(mu[x] + 1)
    BY <1>0
  <2>1. fun[mu[x] + 1][x] = IF x \in B THEN b[x] ELSE h[<<x, fun[mu[x] + 1][g[x]]>>]
    BY <1>2, <2>0
  <2>2. CASE x \in B
    BY <2>1, <2>2
  <2>3. CASE x \notin B
    <3>1. g[x] \in D /\ mu[g[x]] < mu[x] /\ mu[g[x]] \in Nat
      BY <2>3, <1>0
    <3>2. g[x] \in Part(mu[x] + 1) \cap Part(mu[g[x]] + 1)
      BY <3>1, <2>0
    <3>3. fun[mu[x] + 1][g[x]] = all[g[x]]
      BY <3>1, <3>2, <2>0, <1>3
    <3>4. all[x] = fun[mu[x] + 1][x]
      OBVIOUS
    <3> HIDE DEF all
    <3> QED
      BY <2>1, <2>3, <3>3, <3>4
  <2> QED
    BY <2>2, <2>3
<1>5. all = [x \in D |-> IF x \in B THEN b[x] ELSE h[<<x, all[g[x]]>>]]
  <2>1. all = [x \in D |-> all[x]]
    OBVIOUS
  <2> HIDE DEF all
  <2> QED
    BY <2>1, <1>4
<1> QED
  BY <1>5 DEF Recursion

\* What such a recursion computes is in R, when every step stays in R.
LEMMA RecursionType ==
  ASSUME NEW D, NEW mu \in [D -> Nat], NEW B, NEW b, NEW g, NEW h, NEW f, NEW R,
         \A x \in D \ B : g[x] \in D /\ mu[g[x]] < mu[x],
         \A x \in D \cap B : b[x] \in R,
         \A x \in D \ B : \A r \in R : h[<<x, r>>] \in R,
         Recursion(f, D, B, b, g, h)
  PROVE  f \in [D -> R]
<1> DEFINE Odd == {x \in D : f[x] \notin R}
<1>1. f = [x \in D |-> IF x \in B THEN b[x] ELSE h[<<x, f[g[x]]>>]]
  BY DEF Recursion
<1>2. ASSUME Odd # {} PROVE FALSE
  <2>1. PICK x \in Odd : \A y \in D : mu[y] < mu[x] => y \notin Odd
    <3>1. Odd \in SUBSET D
      OBVIOUS
    <3> HIDE DEF Odd
    <3> QED
      BY <1>2, <3>1, LeastMeasure
  <2>2. f[x] = IF x \in B THEN b[x] ELSE h[<<x, f[g[x]]>>]
    BY <1>1
  <2>3. x \notin B /\ g[x] \in D /\ mu[g[x]] < mu[x]
    BY <2>2
  <2>4. f[g[x]] \in R
    BY <2>1, <2>3
  <2> QED
    BY <2>2, <2>3, <2>4
<1> QED
  BY <1>1, <1>2

-----------------------------------------------------------------------------
(* The loops of symbol_table.c.                                            *)

\* The loop to the end of a scope, unfolded: it follows next, which grows.
LEMMA EndOfScopeDef ==
  ASSUME TypeOK, Ordered
  PROVE  \A e \in Link :
           EndOfScope(e) = IF e = NULL \/ next[e] = NULL THEN e ELSE EndOfScope(next[e])
<1> DEFINE mu == [x \in Link |-> MaxEntries - x]
           B  == {x \in Link : x = NULL \/ next[x] = NULL}
           b  == [x \in Link |-> x]
           h  == [p \in Link \X Link |-> p[2]]
           Eq(f) == f = [x \in Link |-> IF x = NULL \/ next[x] = NULL THEN x ELSE f[next[x]]]
<1>0. \A x \in Link : x \in Nat /\ x <= MaxEntries
  BY MaxEntriesAssumption DEF Link, Entry, NULL
<1>1. mu \in [Link -> Nat]
  BY <1>0, MaxEntriesAssumption
<1>2. ASSUME NEW x \in Link \ B PROVE next[x] \in Link /\ mu[next[x]] < mu[x]
  <2>1. x \in Entry /\ next[x] # NULL
    BY DEF Link
  <2>2. next[x] \in Link /\ x < next[x]
    BY <2>1 DEF TypeOK, Ordered
  <2> QED
    BY <2>2, <1>0, MaxEntriesAssumption
<1>3. \A x \in Link, r \in Link : h[<<x, r>>] = r
  OBVIOUS
<1>4. \A x \in Link : b[x] = x /\ (x \in B <=> x = NULL \/ next[x] = NULL)
  OBVIOUS
<1> HIDE DEF mu, B, b, h
<1>5. PICK f : Recursion(f, Link, B, b, next, h)
  BY <1>1, <1>2, RecursionExists
<1>6. f \in [Link -> Link]
  <2>1. \A x \in Link \cap B : b[x] \in Link
    BY <1>4
  <2>2. \A x \in Link \ B : \A r \in Link : h[<<x, r>>] \in Link
    BY <1>3
  <2> QED
    BY <1>1, <1>2, <2>1, <2>2, <1>5, RecursionType
<1>7. Eq(f)
  <2>1. f = [x \in Link |-> IF x \in B THEN b[x] ELSE h[<<x, f[next[x]]>>]]
    BY <1>5 DEF Recursion
  <2> QED
    BY <2>1, <1>2, <1>3, <1>4, <1>6
<1> DEFINE end == CHOOSE f1 : Eq(f1)
<1>8. Eq(end)
  <2> HIDE DEF Eq
  <2> QED
    BY <1>7
<1>9. \A e : EndOfScope(e) = end[e]
  BY DEF EndOfScope
<1> HIDE DEF end
<1> QED
  BY <1>8, <1>9

\* The last sibling is a sibling.
LEMMA EndOfScopeIsSibling ==
  ASSUME TypeOK, Ordered, WellLinked
  PROVE  \A e \in Entry : EndOfScope(e) \in Entry /\ parent[EndOfScope(e)] = parent[e]
<1> DEFINE mu  == [e \in Entry |-> MaxEntries - e]
           Odd == {e \in Entry : ~(EndOfScope(e) \in Entry /\ parent[EndOfScope(e)] = parent[e])}
<1>1. mu \in [Entry -> Nat] /\ Odd \in SUBSET Entry
  BY DEF Entry
<1> SUFFICES ASSUME Odd # {} PROVE FALSE
  OBVIOUS
<1>2. PICK e \in Odd : \A f \in Entry : mu[f] < mu[e] => f \notin Odd
  <2> HIDE DEF mu, Odd
  <2> QED
    BY <1>1, LeastMeasure
<1>3. e \in Entry /\ e # NULL /\ e \in Link
  BY DEF Entry, Link, NULL
<1>4. EndOfScope(e) = IF next[e] = NULL THEN e ELSE EndOfScope(next[e])
  BY <1>3, EndOfScopeDef
<1>5. next[e] # NULL
  BY <1>3, <1>4
<1>6. next[e] \in Entry /\ e < next[e] /\ parent[next[e]] = parent[e]
  BY <1>3, <1>5 DEF TypeOK, Ordered, WellLinked, Link
<1>7. next[e] \notin Odd
  BY <1>2, <1>6 DEF Entry
<1> QED
  BY <1>3, <1>4, <1>5, <1>6, <1>7

\* The loop of get_symbol, unfolded: a step goes to an earlier sibling or, at a
\* first one, into the scope around it, whose owner is smaller.
LEMMA SearchFromDef ==
  ASSUME TypeOK, Ordered, WellLinked, NEW stop \in Link, NEW name
  PROVE  \A e \in Link :
           SearchFrom(e, stop, name) =
             IF e \in {NULL, stop} THEN NULL
             ELSE IF symbol[e].name = name THEN e
             ELSE SearchFrom(Before(e, stop), stop, name)
<1> DEFINE K  == MaxEntries + 1
           scaled == [n \in Nat |-> n * K]
           mu == [e \in Link |-> IF e \in {NULL, stop} THEN 0 ELSE scaled[parent[e]] + e]
           B  == {e \in Link : e \in {NULL, stop} \/ symbol[e].name = name}
           b  == [e \in Link |-> IF e \in {NULL, stop} THEN NULL ELSE e]
           g  == [e \in Link |-> Before(e, stop)]
           h  == [p \in Link \X Link |-> p[2]]
           Eq(f) == f = [e \in Link |->
                          IF e \in {NULL, stop} THEN NULL
                          ELSE IF symbol[e].name = name THEN e
                          ELSE f[Before(e, stop)]]
<1>0. /\ \A e \in Link : e \in Nat /\ e <= MaxEntries
      /\ \A e \in Link \ {NULL} : e \in Entry /\ e >= 1 /\ parent[e] \in Link /\ parent[e] \in Nat
      /\ NULL \in Link /\ NULL = 0
  BY DEF Link, Entry, NULL, TypeOK
<1>s. /\ \A n \in Nat : scaled[n] \in Nat
      /\ \A m, n \in Nat : m < n => scaled[m] + K <= scaled[n]
  <2>1. \A m, n \in Nat : m * n \in Nat
    OBVIOUS
  <2>2. \A m, n, w \in Nat : m <= n => m * w <= n * w
    OBVIOUS
  <2>3. \A m, w \in Nat : (m + 1) * w = m * w + w
    OBVIOUS
  <2>4. K \in Nat /\ \A n \in Nat : scaled[n] = n * K
    OBVIOUS
  <2> HIDE DEF K, scaled
  <2>5. ASSUME NEW m \in Nat, NEW n \in Nat, m < n PROVE scaled[m] + K <= scaled[n]
    <3>1. (m + 1) * K <= n * K
      BY <2>2, <2>4, <2>5
    <3> QED
      BY <3>1, <2>3, <2>4
  <2> QED
    BY <2>1, <2>4, <2>5
<1>k. K = MaxEntries + 1
  OBVIOUS
<1> HIDE DEF scaled, K
<1>1. mu \in [Link -> Nat]
  <2>1. ASSUME NEW e \in Link PROVE (IF e \in {NULL, stop} THEN 0 ELSE scaled[parent[e]] + e) \in Nat
    <3>1. CASE e \in {NULL, stop}
      BY <3>1
    <3>2. CASE e \notin {NULL, stop}
      <4>1. parent[e] \in Nat /\ e \in Nat
        BY <3>2, <1>0
      <4>2. scaled[parent[e]] \in Nat
        BY <4>1, <1>s
      <4> QED
        BY <4>1, <4>2
    <3> QED
      BY <3>1, <3>2
  <2> QED
    BY <2>1
<1>2. ASSUME NEW e \in Link \ B PROVE g[e] \in Link /\ mu[g[e]] < mu[e]
  <2>0. e \in Link /\ e # stop /\ e # NULL /\ g[e] = Before(e, stop)
    OBVIOUS
  <2>1. /\ e \in Link /\ e \in Entry /\ e # stop /\ e # NULL /\ g[e] = Before(e, stop)
        /\ \A x \in Link : mu[x] = IF x \in {NULL, stop} THEN 0 ELSE scaled[parent[x]] + x
    BY <2>0, <1>0
  <2>2. /\ mu[e] = scaled[parent[e]] + e
        /\ scaled[parent[e]] \in Nat /\ parent[e] \in Nat
        /\ e \in Nat /\ e > 0 /\ mu[e] > 0
    <3> HIDE DEF mu, g, B
    <3>1. parent[e] \in Nat /\ e \in Nat /\ e > 0
      BY <1>0, <2>1
    <3>2. scaled[parent[e]] \in Nat
      BY <1>s, <3>1
    <3>3. mu[e] = scaled[parent[e]] + e
      BY <2>1
    <3> QED
      BY <3>1, <3>2, <3>3
  <2> HIDE DEF mu, g, B
  <2>3. CASE prev[e] # NULL
    <3>1. prev[e] \in Link /\ prev[e] < e /\ parent[prev[e]] = parent[e]
      BY <2>1, <2>3 DEF TypeOK, Ordered, WellLinked
    <3>2. g[e] = prev[e]
      BY <2>1, <2>3 DEF Before
    <3>3. mu[prev[e]] \in {0, scaled[parent[e]] + prev[e]}
      BY <2>1, <3>1
    <3>4. prev[e] \in Nat
      BY <1>0, <3>1
    <3> QED
      BY <2>2, <3>1, <3>2, <3>3, <3>4
  <2>4. CASE prev[e] = NULL /\ parent[e] = stop
    BY <1>0, <2>1, <2>2, <2>4 DEF Before
  <2>5. CASE prev[e] = NULL /\ parent[e] # stop
    <3>1. g[e] = EndOfScope(parent[e]) /\ parent[e] \in Link
      BY <2>1, <2>5, <1>0 DEF Before
    <3>2. CASE parent[e] = NULL
      <4>1. EndOfScope(parent[e]) = NULL
        BY <3>2, <1>0, EndOfScopeDef
      <4> QED
        BY <2>1, <2>2, <3>1, <4>1, <1>0
    <3>3. CASE parent[e] # NULL
      <4>1. /\ g[e] \in Entry /\ parent[g[e]] = parent[parent[e]]
            /\ parent[parent[e]] < parent[e] /\ parent[parent[e]] \in Nat
        BY <3>1, <3>3, <1>0, EndOfScopeIsSibling DEF Ordered
      <4>2. g[e] \in Link /\ g[e] <= MaxEntries /\ g[e] \in Nat
        BY <4>1, <1>0 DEF Link
      <4>3. mu[g[e]] \in {0, scaled[parent[parent[e]]] + g[e]}
        BY <2>1, <4>1, <4>2
      <4>4. scaled[parent[parent[e]]] + K <= scaled[parent[e]] /\ scaled[parent[parent[e]]] \in Nat
        BY <1>s, <2>2, <4>1
      <4> QED
        BY <1>k, <2>2, <4>2, <4>3, <4>4
    <3> QED
      BY <3>2, <3>3
  <2> QED
    BY <2>3, <2>4, <2>5
<1>3. \A e \in Link, r \in Link : h[<<e, r>>] = r
  OBVIOUS
<1>4. /\ \A e \in Link : e \in B <=> e \in {NULL, stop} \/ symbol[e].name = name
      /\ \A e \in Link : b[e] = IF e \in {NULL, stop} THEN NULL ELSE e
      /\ \A e \in Link : g[e] = Before(e, stop)
      /\ \A e \in Link : b[e] \in Link
  BY <1>0
<1> HIDE DEF mu, B, b, g, h
<1>5. PICK f : Recursion(f, Link, B, b, g, h)
  BY <1>1, <1>2, RecursionExists
<1>6. f \in [Link -> Link]
  <2>1. \A e \in Link \cap B : b[e] \in Link
    BY <1>4
  <2>2. \A e \in Link \ B : \A r \in Link : h[<<e, r>>] \in Link
    BY <1>3
  <2> QED
    BY <1>1, <1>2, <2>1, <2>2, <1>5, RecursionType
<1>7. Eq(f)
  <2>1. f = [e \in Link |-> IF e \in B THEN b[e] ELSE h[<<e, f[g[e]]>>]]
    BY <1>5 DEF Recursion
  <2>2. ASSUME NEW e \in Link
        PROVE  f[e] = IF e \in {NULL, stop} THEN NULL
                      ELSE IF symbol[e].name = name THEN e
                      ELSE f[Before(e, stop)]
    <3>1. f[e] = IF e \in B THEN b[e] ELSE h[<<e, f[g[e]]>>]
      BY <2>1
    <3>2. CASE e \in B
      BY <3>1, <3>2, <1>4
    <3>3. CASE e \notin B
      BY <3>1, <3>3, <1>2, <1>3, <1>4, <1>6
    <3> QED
      BY <3>2, <3>3
  <2> QED
    BY <2>1, <2>2
<1> DEFINE walk == CHOOSE f1 : Eq(f1)
<1>8. Eq(walk)
  <2> HIDE DEF Eq
  <2> QED
    BY <1>7
<1>9. \A e : SearchFrom(e, stop, name) = walk[e]
  BY DEF SearchFrom
<1>10. \A e \in Link : Before(e, stop) = g[e]
  BY <1>4
<1>11. \A e \in Link : walk[e] = IF e \in {NULL, stop} THEN NULL
                                ELSE IF symbol[e].name = name THEN e
                                ELSE walk[Before(e, stop)]
  <2> HIDE DEF walk
  <2> QED
    BY <1>8
<1> HIDE DEF walk
<1> QED
  BY <1>9, <1>11

\* A walk that steps through V in decreasing order finds the latest entry of
\* V with the name, at or before the place it starts from.
LEMMA WalkFinds ==
  ASSUME TypeOK, Ordered, WellLinked, NEW stop \in Link, NEW name,
         NEW V \in SUBSET Entry, stop \notin V,
         \A e \in V : \/ Before(e, stop) \in {NULL, stop} /\ \A f \in V : e <= f
                      \/ /\ Before(e, stop) \in V /\ Before(e, stop) < e
                         /\ \A f \in V : f < e => f <= Before(e, stop)
  PROVE  \A e \in V : LET found == SearchFrom(e, stop, name)
                      IN  \/ found = NULL /\ \A f \in V : f <= e => symbol[f].name # name
                          \/ /\ found \in V /\ found <= e /\ symbol[found].name = name
                             /\ \A f \in V : f <= e /\ symbol[f].name = name => f <= found
<1> DEFINE mu  == [e \in V |-> e]
           Right(e, found) ==
             \/ found = NULL /\ \A f \in V : f <= e => symbol[f].name # name
             \/ /\ found \in V /\ found <= e /\ symbol[found].name = name
                /\ \A f \in V : f <= e /\ symbol[f].name = name => f <= found
           Odd == {e \in V : ~Right(e, SearchFrom(e, stop, name))}
<1>1. mu \in [V -> Nat] /\ Odd \in SUBSET V /\ \A e \in V : e \in Nat /\ e # NULL /\ e # stop /\ e \in Link
  BY DEF Entry, Link, NULL
<1> SUFFICES ASSUME Odd # {} PROVE FALSE
  OBVIOUS
<1>2. PICK e \in Odd : \A f \in V : mu[f] < mu[e] => f \notin Odd
  <2> HIDE DEF mu, Odd
  <2> QED
    BY <1>1, LeastMeasure
<1>3. e \in V /\ ~Right(e, SearchFrom(e, stop, name))
  OBVIOUS
<1>4. SearchFrom(e, stop, name) = IF symbol[e].name = name THEN e ELSE SearchFrom(Before(e, stop), stop, name)
  BY <1>1, <1>3, SearchFromDef
<1>5. symbol[e].name # name
  <2> SUFFICES ASSUME symbol[e].name = name PROVE FALSE
    OBVIOUS
  <2>1. SearchFrom(e, stop, name) = e
    BY <1>4
  <2>2. Right(e, e)
    BY <1>1, <1>3
  <2> QED
    BY <1>3, <2>1, <2>2
<1>6. SearchFrom(e, stop, name) = SearchFrom(Before(e, stop), stop, name)
  BY <1>4, <1>5
<1>7. CASE Before(e, stop) \in {NULL, stop} /\ \A f \in V : e <= f
  <2>1. SearchFrom(e, stop, name) = NULL
    BY <1>6, <1>7, SearchFromDef DEF Link
  <2>2. Right(e, NULL)
    BY <1>1, <1>3, <1>5, <1>7
  <2> QED
    BY <1>3, <2>1, <2>2
<1>8. CASE /\ Before(e, stop) \in V /\ Before(e, stop) < e
           /\ \A f \in V : f < e => f <= Before(e, stop)
  <2> DEFINE d == Before(e, stop)
             found == SearchFrom(d, stop, name)
  <2>1. d \in V /\ d < e
    BY <1>8
  <2>2. Right(d, found)
    BY <1>1, <1>2, <1>3, <2>1
  <2>3. \A f \in V : f <= e => f = e \/ f <= d
    BY <1>1, <1>3, <1>8
  <2> HIDE DEF d, found
  <2>4. Right(e, found)
    BY <1>1, <1>3, <1>5, <2>1, <2>2, <2>3
  <2> QED
    BY <1>3, <1>6, <2>4 DEF found, d
<1> QED
  BY <1>3, <1>7, <1>8
=============================================================================
