----------------------------- MODULE TableProofs -----------------------------
(***************************************************************************)
(* Proofs about the two that use the symbol table: the parser that fills   *)
(* it (Declarations) and the listing that is made of it (Listing).         *)
(*                                                                         *)
(* First the parser's calls: the scopes around the parser and what a       *)
(* lookup sees of them; the inductive invariant DeclInvariant; the         *)
(* lookups; the refinement of ScopeStack; and the signatures that calls of *)
(* a function are checked against.                                         *)
(*                                                                         *)
(* Then the listing, for every table that calls of symbol_table.c can      *)
(* leave behind, every set of declared types and every greatest int.  The  *)
(* entries of the table are allocated in the order of the outline,         *)
(* whatever calls were made.  Hence the walk prints entry 1, 2, 3 and so   *)
(* on, until it meets the end or a tree that does not hang below the root; *)
(* ListInvariant says where its activations are then, and what place,      *)
(* depth and address the lines have.  The two theorems at the end sum this *)
(* up: levels by induction over parent, addresses by induction over the    *)
(* lines.                                                                  *)
(***************************************************************************)
EXTENDS Declarations, Listing, SymbolTableProofs, SequenceTheorems

USE MaxEntriesAssumption, VarTypeAssumption, CountAssumption

-----------------------------------------------------------------------------
(* The scopes around the parser.                                           *)

\* The way to a method, unfolded: it follows parent, which shrinks.
LEMMA PathToDef ==
  ASSUME TypeOK, Ordered
  PROVE  /\ PathTo(NULL) = <<NULL>>
         /\ \A m \in Entry : PathTo(m) = Append(PathTo(parent[m]), m)
<1> DEFINE mu == [m \in Link |-> m]
           B  == {NULL}
           b  == [m \in Link |-> <<NULL>>]
           h  == [p \in Link \X Seq(Link) |-> Append(p[2], p[1])]
           Eq(f) == f = [m \in Link |-> IF m = NULL THEN <<NULL>> ELSE Append(f[parent[m]], m)]
<1>1. mu \in [Link -> Nat]
  BY DEF Link, Entry, NULL
<1>2. ASSUME NEW m \in Link \ B PROVE parent[m] \in Link /\ mu[parent[m]] < mu[m]
  <2>1. m \in Entry
    BY DEF Link
  <2> QED
    BY <2>1 DEF TypeOK, Ordered
<1>3. \A m \in Link, r \in Seq(Link) : h[<<m, r>>] = Append(r, m) /\ Append(r, m) \in Seq(Link)
  OBVIOUS
<1>4. /\ \A m \in Link : m \in B <=> m = NULL
      /\ \A m \in Link : b[m] = <<NULL>>
      /\ <<NULL>> \in Seq(Link)
  BY DEF Link
<1> HIDE DEF mu, B, b, h
<1>5. PICK f : Recursion(f, Link, B, b, parent, h)
  BY <1>1, <1>2, RecursionExists
<1>6. f \in [Link -> Seq(Link)]
  <2> DEFINE R == Seq(Link)
  <2>1. \A m \in Link \cap B : b[m] \in R
    BY <1>4
  <2>2. \A m \in Link \ B : \A r \in R : h[<<m, r>>] \in R
    BY <1>3
  <2> HIDE DEF R
  <2>3. f \in [Link -> R]
    BY <1>1, <1>2, <2>1, <2>2, <1>5, RecursionType
  <2> QED
    BY <2>3 DEF R
<1>7. Eq(f)
  <2>1. f = [m \in Link |-> IF m \in B THEN b[m] ELSE h[<<m, f[parent[m]]>>]]
    BY <1>5 DEF Recursion
  <2>2. ASSUME NEW m \in Link
        PROVE  f[m] = IF m = NULL THEN <<NULL>> ELSE Append(f[parent[m]], m)
    <3>1. f[m] = IF m \in B THEN b[m] ELSE h[<<m, f[parent[m]]>>]
      BY <2>1
    <3>2. CASE m \in B
      BY <3>1, <3>2, <1>4
    <3>3. CASE m \notin B
      <4>1. f[parent[m]] \in Seq(Link)
        BY <3>3, <1>2, <1>6
      <4> QED
        BY <3>1, <3>3, <4>1, <1>3, <1>4
    <3> QED
      BY <3>2, <3>3
  <2> QED
    BY <2>1, <2>2
<1> DEFINE path == CHOOSE f1 : Eq(f1)
<1>8. Eq(path)
  <2> HIDE DEF Eq
  <2> QED
    BY <1>7
<1>9. \A m : PathTo(m) = path[m]
  BY DEF PathTo
<1>10. \A m \in Link : path[m] = IF m = NULL THEN <<NULL>> ELSE Append(path[parent[m]], m)
  <2> HIDE DEF path
  <2> QED
    BY <1>8
<1> HIDE DEF path
<1>11. \A m \in Link : PathTo(m) = IF m = NULL THEN <<NULL>> ELSE Append(PathTo(parent[m]), m)
  BY <1>9, <1>10
<1>12. NULL \in Link /\ \A m \in Entry : m \in Link /\ m # NULL
  BY DEF Link, Entry, NULL
<1> QED
  BY <1>11, <1>12

\* A way through the methods, from outside the program into m.
IsPath(o, m) ==
  /\ o \in Seq(Link) /\ Len(o) >= 1 /\ o[1] = NULL /\ o[Len(o)] = m
  /\ \A i \in 2 .. Len(o) : o[i] \in Entry /\ parent[o[i]] = o[i - 1]
  /\ \A i, j \in 1 .. Len(o) : i < j => o[i] < o[j]

\* The way through the links parent leads from outside the program to m.
LEMMA PathToIsPath ==
  ASSUME TypeOK, Ordered
  PROVE  \A m \in Link : IsPath(PathTo(m), m)
<1> DEFINE mu  == [m \in Link |-> m]
           Odd == {m \in Link : ~IsPath(PathTo(m), m)}
<1>1. mu \in [Link -> Nat] /\ Odd \in SUBSET Link
  BY DEF Link, Entry, NULL
<1> SUFFICES ASSUME Odd # {} PROVE FALSE
  OBVIOUS
<1>2. PICK m \in Odd : \A k \in Link : mu[k] < mu[m] => k \notin Odd
  <2> HIDE DEF mu, Odd
  <2> QED
    BY <1>1, LeastMeasure
<1>3. m \in Link /\ ~IsPath(PathTo(m), m)
  OBVIOUS
<1>4. m # NULL
  <2>1. IsPath(<<NULL>>, NULL)
    BY DEF IsPath, Link
  <2> QED
    BY <1>3, <2>1, PathToDef
<1>5. m \in Entry /\ parent[m] \in Link /\ parent[m] < m /\ m \in Nat /\ parent[m] \in Nat
  BY <1>3, <1>4 DEF TypeOK, Ordered, Link, Entry, NULL
<1>6. IsPath(PathTo(parent[m]), parent[m])
  BY <1>2, <1>3, <1>5
<1>7. PathTo(m) = Append(PathTo(parent[m]), m)
  BY <1>5, PathToDef
<1> DEFINE q == PathTo(parent[m])
           o == Append(q, m)
<1> HIDE DEF q
<1>8. IsPath(q, parent[m])
  BY <1>6 DEF q
<1>9. q \in Seq(Link) /\ Len(q) >= 1 /\ Len(q) \in Nat
  BY <1>8 DEF IsPath
<1>10. /\ o \in Seq(Link) /\ Len(o) = Len(q) + 1
       /\ \A i \in 1 .. Len(q) : o[i] = q[i] /\ q[i] \in Nat
       /\ o[Len(q) + 1] = m
  BY <1>3, <1>9 DEF Link, Entry, NULL
<1> HIDE DEF o
<1>11. \A i \in 2 .. Len(o) : o[i] \in Entry /\ parent[o[i]] = o[i - 1]
  <2> TAKE i \in 2 .. Len(o)
  <2>1. CASE i = Len(q) + 1
    BY <2>1, <1>5, <1>8, <1>9, <1>10 DEF IsPath
  <2>2. CASE i \in 2 .. Len(q)
    <3>1. i \in 1 .. Len(q) /\ i - 1 \in 1 .. Len(q)
      BY <2>2, <1>9
    <3>2. o[i] = q[i] /\ o[i - 1] = q[i - 1]
      BY <3>1, <1>10
    <3>3. q[i] \in Entry /\ parent[q[i]] = q[i - 1]
      BY <2>2, <1>8 DEF IsPath
    <3> QED
      BY <3>2, <3>3
  <2> QED
    BY <2>1, <2>2, <1>9, <1>10
<1>12. \A i \in 1 .. Len(q) : q[i] < m
  <2> TAKE i \in 1 .. Len(q)
  <2>1. q[i] <= q[Len(q)]
    BY <1>8, <1>9, <1>10 DEF IsPath
  <2> QED
    BY <2>1, <1>5, <1>8, <1>9, <1>10 DEF IsPath
<1>13. \A i, j \in 1 .. Len(o) : i < j => o[i] < o[j]
  <2> SUFFICES ASSUME NEW i \in 1 .. Len(o), NEW j \in 1 .. Len(o), i < j PROVE o[i] < o[j]
    OBVIOUS
  <2>1. i \in 1 .. Len(q)
    BY <1>9, <1>10
  <2>2. CASE j = Len(q) + 1
    BY <2>1, <2>2, <1>10, <1>12
  <2>3. CASE j \in 1 .. Len(q)
    BY <2>1, <2>3, <1>8, <1>10 DEF IsPath
  <2> QED
    BY <2>2, <2>3, <1>9, <1>10
<1>14. IsPath(o, m)
  BY <1>8, <1>9, <1>10, <1>11, <1>13 DEF IsPath
<1> QED
  BY <1>3, <1>7, <1>14 DEF o, q

\* The table as the proofs use it.
LEMMA Basics ==
  ASSUME TableInvariant
  PROVE  /\ TypeOK /\ Ordered /\ WellLinked /\ ScopesAreChains
         /\ size \in Nat /\ size <= MaxEntries /\ sym_eye \in Link /\ Owner \in Link
         /\ sym_eye # NULL => sym_eye \in Entry /\ sym_eye \in Allocated
         /\ \A e \in Allocated : e \in Entry
         /\ \A e \in Link : e \in Nat
         /\ \A e \in Entry : /\ e \in Link /\ e # NULL /\ e >= 1
                             /\ parent[e] \in Link /\ parent[e] < e
                             /\ next[e] \in Link /\ prev[e] \in Link /\ child[e] \in Link
<1>1. TypeOK /\ Ordered /\ WellLinked /\ ScopesAreChains
  BY DEF TableInvariant
<1>2. /\ size \in Nat /\ size <= MaxEntries /\ sym_eye \in Link
      /\ sym_eye # NULL => sym_eye \in Entry /\ sym_eye \in Allocated
      /\ \A e \in Allocated : e \in Entry
      /\ \A e \in Link : e \in Nat
  BY <1>1 DEF TypeOK, Allocated, Entry, Link, NULL
<1>3. \A e \in Entry : /\ e \in Link /\ e # NULL /\ e >= 1
                       /\ parent[e] \in Link /\ parent[e] < e
                       /\ next[e] \in Link /\ prev[e] \in Link /\ child[e] \in Link
  BY <1>1 DEF TypeOK, Ordered, Entry, Link, NULL
<1>4. Owner \in Link
  BY <1>2, <1>3 DEF Owner, Link
<1> QED
  BY <1>1, <1>2, <1>3, <1>4

\* The methods around the current scope are last in their scopes.
LEMMA EnclosingIsOpen ==
  ASSUME TableInvariant
  PROVE  /\ IsPath(Enclosing, Owner)
         /\ \A i \in 2 .. Len(Enclosing) : next[Enclosing[i]] = NULL /\ Enclosing[i] \in Allocated
<1> DEFINE o == Enclosing
<1>1. IsPath(o, Owner)
  BY Basics, PathToIsPath DEF Enclosing
<1>2. PICK open \in SUBSET Allocated :
        /\ sym_eye # NULL => sym_eye \in open
        /\ \A e \in open : /\ next[e] = NULL
                           /\ e <= sym_eye
                           /\ parent[e] \in open \cup {NULL}
  BY DEF TableInvariant, EyeIsLast
<1>3. Owner \in open \cup {NULL}
  BY <1>2 DEF Owner
<1> HIDE DEF o
<1>4. o \in Seq(Link) /\ Len(o) \in Nat /\ Len(o) >= 1
  BY <1>1 DEF IsPath
<1> DEFINE I   == 1 .. Len(o)
           mu  == [i \in I |-> Len(o) - i]
           Odd == {i \in I : o[i] \notin open \cup {NULL}}
<1>5. Odd = {}
  <2> SUFFICES ASSUME Odd # {} PROVE FALSE
    OBVIOUS
  <2>1. mu \in [I -> Nat] /\ Odd \in SUBSET I
    BY <1>4
  <2>2. PICK i \in Odd : \A j \in I : mu[j] < mu[i] => j \notin Odd
    <3> HIDE DEF mu, Odd, I
    <3> QED
      BY <2>1, LeastMeasure
  <2>3. i \in I /\ o[i] \notin open \cup {NULL}
    OBVIOUS
  <2>4. i # Len(o)
    BY <1>1, <1>3, <2>3 DEF IsPath
  <2>5. i + 1 \in I /\ mu[i + 1] < mu[i]
    BY <1>4, <2>3, <2>4
  <2>6. o[i + 1] \in open \cup {NULL}
    BY <2>2, <2>5
  <2>7. o[i + 1] \in Entry /\ parent[o[i + 1]] = o[i]
    BY <1>1, <1>4, <2>3, <2>5 DEF IsPath
  <2>8. o[i + 1] \in open
    BY <2>6, <2>7, Basics
  <2> QED
    BY <1>2, <2>3, <2>7, <2>8
<1>6. ASSUME NEW i \in 2 .. Len(o) PROVE next[o[i]] = NULL /\ o[i] \in Allocated
  <2>1. o[i] \in Entry /\ i \in I
    BY <1>1, <1>4 DEF IsPath
  <2>2. o[i] \in open
    BY <1>5, <2>1, Basics
  <2> QED
    BY <1>2, <2>2
<1> QED
  BY <1>1, <1>6 DEF o

\* Scope by scope, everything in view is older than what is further inside.
LEMMA ScopesAreNested ==
  ASSUME TableInvariant, OneProgram
  PROVE  /\ \A i \in 1 .. Len(Enclosing) : \A e \in Inside(Enclosing[i]) :
              /\ Enclosing[i] < e
              /\ \A j \in i + 1 .. Len(Enclosing) : e <= Enclosing[j]
         /\ \A e \in Inside(Owner) : e <= sym_eye
<1> DEFINE o == Enclosing
<1>1. /\ IsPath(o, Owner)
      /\ \A i \in 2 .. Len(o) : next[o[i]] = NULL /\ o[i] \in Allocated
  BY EnclosingIsOpen
<1> HIDE DEF o
<1>2. o \in Seq(Link) /\ Len(o) \in Nat /\ Len(o) >= 1
  BY <1>1 DEF IsPath
<1>3. \A i \in 1 .. Len(o) : o[i] \in Link /\ o[i] \in Nat
  BY <1>2, Basics
\* An entry that is last in its scope is the latest.
<1>4. ASSUME NEW f \in Allocated, NEW e \in Allocated, next[f] = NULL, parent[e] = parent[f]
      PROVE  e <= f
  <2>1. e \in Entry /\ f \in Entry /\ e \in Nat /\ f \in Nat
    BY Basics
  <2>2. CASE parent[f] = NULL
    BY <1>4, <2>1, <2>2 DEF OneProgram
  <2>3. CASE parent[f] # NULL
    <3>1. f < e => next[f] \in 1 .. e
      BY <1>4, <2>1, <2>3, Basics DEF ScopesAreChains
    <3> QED
      BY <1>4, <2>1, <3>1 DEF NULL
  <2> QED
    BY <2>2, <2>3
<1>5. ASSUME NEW i \in 1 .. Len(o), NEW e \in Inside(o[i])
      PROVE  /\ o[i] < e
             /\ \A j \in i + 1 .. Len(o) : e <= o[j]
  <2>1. e \in Allocated /\ e \in Entry /\ e \in Nat /\ parent[e] = o[i]
    BY <1>5, Basics DEF Inside
  <2>2. o[i] < e
    BY <2>1, Basics
  <2>3. ASSUME NEW j \in i + 1 .. Len(o) PROVE e <= o[j]
    <3>1. i + 1 \in 2 .. Len(o) /\ i + 1 - 1 = i
      BY <1>2
    <3>2. /\ next[o[i + 1]] = NULL /\ o[i + 1] \in Allocated
          /\ parent[o[i + 1]] = o[i]
      BY <1>1, <3>1 DEF IsPath
    <3>3. e <= o[i + 1]
      BY <1>4, <2>1, <3>2
    <3>4. i + 1 \in 1 .. Len(o) /\ j \in 1 .. Len(o)
      BY <1>2
    <3>5. o[i + 1] <= o[j] /\ o[i + 1] \in Nat /\ o[j] \in Nat
      BY <1>1, <1>2, <1>3, <3>4 DEF IsPath
    <3> QED
      BY <2>1, <3>3, <3>5
  <2> QED
    BY <2>2, <2>3
<1>6. ASSUME NEW e \in Inside(Owner) PROVE e <= sym_eye
  <2>1. e \in Allocated /\ e \in Entry /\ parent[e] = Owner /\ e \in Nat
    BY Basics DEF Inside
  <2>2. CASE sym_eye = NULL
    BY <2>1, <2>2, Basics DEF OneProgram, Owner, Allocated
  <2>3. CASE sym_eye # NULL /\ sym_turn = 1
    <3>1. child[sym_eye] = NULL /\ Owner = sym_eye
      BY <2>3 DEF TableInvariant, TurnIsFresh, Owner
    <3>2. child[parent[e]] \in 1 .. e
      BY <2>1, <2>3, <3>1, Basics DEF ScopesAreChains
    <3> QED
      BY <2>1, <3>1, <3>2 DEF NULL
  <2>4. CASE sym_eye # NULL /\ sym_turn # 1
    <3>1. parent[e] = parent[sym_eye] /\ next[sym_eye] = NULL /\ sym_eye \in Allocated
      BY <2>1, <2>4, Basics, NothingAfterEye DEF Owner, TableInvariant
    <3> QED
      BY <1>4, <2>1, <3>1
  <2> QED
    BY <2>2, <2>3, <2>4
<1> QED
  BY <1>5, <1>6 DEF o

-----------------------------------------------------------------------------
(* What a lookup finds.                                                    *)

\* What get_symbol can see: the entries of the enclosing scopes.
InView == {e \in Allocated : \E i \in 1 .. Len(Enclosing) : parent[e] = Enclosing[i]}

\* The latest entry of V with the name, or NULL.
IsLatest(found, V, name) ==
  \/ found = NULL /\ \A e \in V : symbol[e].name # name
  \/ /\ found \in V /\ symbol[found].name = name
     /\ \A e \in V : symbol[e].name = name => e <= found

\* The walk of a global search goes through everything in view, backwards.
LEMMA WalkBackwards ==
  ASSUME TableInvariant, OneProgram, NEW e \in InView
  PROVE  \/ Before(e, NULL) = NULL /\ \A f \in InView : e <= f
         \/ /\ Before(e, NULL) \in InView /\ Before(e, NULL) < e
            /\ \A f \in InView : f < e => f <= Before(e, NULL)
<1> DEFINE o == Enclosing
<1>1. /\ IsPath(o, Owner)
      /\ \A i \in 2 .. Len(o) : next[o[i]] = NULL /\ o[i] \in Allocated
  BY EnclosingIsOpen
<1>2. \A i \in 1 .. Len(o) : \A f \in Inside(o[i]) :
        o[i] < f /\ \A j \in i + 1 .. Len(o) : f <= o[j]
  BY ScopesAreNested
<1>3. InView = {f \in Allocated : \E i \in 1 .. Len(o) : parent[f] = o[i]}
  BY DEF InView
<1> HIDE DEF o
<1>4. o \in Seq(Link) /\ Len(o) \in Nat /\ Len(o) >= 1 /\ o[1] = NULL
  BY <1>1 DEF IsPath
<1>5. PICK i \in 1 .. Len(o) : parent[e] = o[i]
  BY <1>3
<1>6. /\ e \in Allocated /\ e \in Entry /\ e \in Nat /\ parent[e] \in Link
      /\ prev[e] \in Link /\ e \in Inside(o[i])
  BY <1>3, <1>5, Basics DEF Inside
\* What is in view before e is in e's scope, or e's method or older.
<1>7. ASSUME NEW f \in InView, f < e
      PROVE  f \in Entry /\ f \in Nat /\ (parent[f] = parent[e] \/ (i > 1 /\ f <= o[i]))
  <2>1. f \in Allocated /\ f \in Entry /\ f \in Nat
    BY <1>3, Basics
  <2>2. PICK j \in 1 .. Len(o) : parent[f] = o[j]
    BY <1>3
  <2>3. f \in Inside(o[j])
    BY <2>1, <2>2 DEF Inside
  <2>4. CASE j = i
    <3>1. parent[f] = parent[e]
      BY <1>5, <2>2, <2>4
    <3> QED
      BY <2>1, <3>1
  <2>5. CASE j < i
    <3>1. i \in j + 1 .. Len(o)
      BY <2>5
    <3>2. f <= o[i]
      BY <1>2, <2>3, <3>1
    <3> QED
      BY <2>1, <2>5, <3>2
  <2>6. CASE j > i
    <3>1. j \in i + 1 .. Len(o)
      BY <2>6
    <3>2. e <= o[j] /\ o[j] < f /\ o[j] \in Nat
      BY <1>2, <1>4, <1>6, <2>3, <3>1, Basics
    <3> QED
      BY <1>6, <1>7, <2>1, <3>2
  <2> QED
    BY <2>4, <2>5, <2>6
<1>8. CASE prev[e] # NULL
  <2>1. Before(e, NULL) = prev[e]
    BY <1>8 DEF Before
  <2>2. prev[e] \in Entry /\ prev[e] < e /\ parent[prev[e]] = parent[e] /\ prev[e] \in Nat
    BY <1>6, <1>8, Basics DEF WellLinked, Ordered, Link
  <2>3. prev[e] \in Allocated
    BY <1>6, <2>2, Basics DEF Allocated, Entry
  <2>4. prev[e] \in InView /\ prev[e] \in Inside(o[i])
    BY <1>3, <1>5, <2>2, <2>3 DEF Inside
  <2>5. o[i] < prev[e] /\ o[i] \in Nat
    BY <1>2, <2>4, <1>4, Basics
  <2>6. parent[e] # NULL
    <3> SUFFICES ASSUME parent[e] = NULL PROVE FALSE
      OBVIOUS
    <3>1. e = 1 /\ prev[e] = 1
      BY <1>6, <2>2, <2>3 DEF OneProgram
    <3> QED
      BY <3>1, <2>2
  <2>7. ASSUME NEW f \in InView, f < e PROVE f <= prev[e]
    <3>1. CASE parent[f] = parent[e]
      <4>1. f \in Entry /\ f \in Nat /\ f \in 1 .. e - 1
        BY <1>6, <1>7, <2>7 DEF Entry
      <4>2. prev[e] \in f .. e
        BY <1>6, <2>6, <3>1, <4>1, Basics DEF ScopesAreChains
      <4> QED
        BY <4>2
    <3>2. CASE f <= o[i]
      BY <1>7, <2>2, <2>5, <2>7, <3>2
    <3> QED
      BY <1>7, <2>7, <3>1, <3>2
  <2> QED
    BY <2>1, <2>2, <2>4, <2>7
<1>9. CASE prev[e] = NULL
  <2>1. ASSUME NEW f \in InView, f < e PROVE i > 1 /\ f <= o[i]
    <3> SUFFICES ASSUME parent[f] = parent[e] PROVE FALSE
      BY <1>7, <2>1
    <3>1. f \in Entry /\ f \in Nat /\ f \in 1 .. e - 1 /\ f \in Allocated
      BY <1>3, <1>6, <1>7, <2>1 DEF Entry
    <3>2. CASE parent[e] = NULL
      BY <1>6, <2>1, <3>1, <3>2 DEF OneProgram
    <3>3. CASE parent[e] # NULL
      <4>1. prev[e] \in f .. e
        BY <1>6, <3>1, <3>3, Basics DEF ScopesAreChains
      <4> QED
        BY <1>9, <3>1, <4>1, Basics DEF NULL
    <3> QED
      BY <3>2, <3>3
  <2>2. CASE i = 1
    <3>1. Before(e, NULL) = NULL
      BY <1>4, <1>5, <1>9, <2>2 DEF Before
    <3>2. \A f \in InView : ~(f < e) /\ f \in Nat
      BY <1>3, <2>1, <2>2, Basics
    <3> QED
      BY <1>6, <3>1, <3>2
  <2>3. CASE i > 1
    <3>1. i \in 2 .. Len(o) /\ i - 1 \in 1 .. Len(o)
      BY <2>3
    <3>2. next[o[i]] = NULL /\ o[i] \in Allocated /\ o[i] \in Entry /\ parent[o[i]] = o[i - 1]
      BY <1>1, <3>1 DEF IsPath
    <3>3. o[i] # NULL /\ o[i] \in Link
      BY <3>2, Basics
    <3>4. EndOfScope(o[i]) = o[i]
      BY <3>2, <3>3, Basics, EndOfScopeDef
    <3>5. Before(e, NULL) = o[i]
      BY <1>5, <1>9, <3>3, <3>4 DEF Before
    <3>6. o[i] \in InView
      BY <1>3, <3>1, <3>2
    <3>7. o[i] < e
      BY <1>2, <1>6
    <3> QED
      BY <2>1, <3>5, <3>6, <3>7
  <2> QED
    BY <2>2, <2>3
<1> QED
  BY <1>8, <1>9

\* A global search finds the latest entry in view with the name.
LEMMA GlobalSearch ==
  ASSUME TableInvariant, OneProgram, NEW name
  PROVE  IsLatest(get_symbol(name, 1), InView, name)
<1>1. CASE sym_eye = NULL
  <2>1. InView = {}
    BY <1>1, Basics DEF InView, OneProgram, Allocated
  <2> QED
    BY <1>1, <2>1 DEF get_symbol, IsLatest
<1>2. CASE sym_eye # NULL
  <2>1. get_symbol(name, 1) = SearchFrom(sym_eye, NULL, name)
    <3>1. EndOfScope(sym_eye) = sym_eye
      BY <1>2, Basics, NothingAfterEye, EndOfScopeDef DEF TableInvariant
    <3> QED
      BY <1>2, <3>1 DEF get_symbol, StopCondition
  <2>2. sym_eye \in InView /\ \A e \in InView : e <= sym_eye
    <3> DEFINE o == Enclosing
    <3>1. IsPath(o, Owner)
      BY EnclosingIsOpen
    <3>2. InView = {f \in Allocated : \E i \in 1 .. Len(o) : parent[f] = o[i]}
      BY DEF InView
    <3>3. \A i \in 1 .. Len(o) : \A f \in Inside(o[i]) :
            o[i] < f /\ \A j \in i + 1 .. Len(o) : f <= o[j]
      BY ScopesAreNested
    <3> HIDE DEF o
    <3>4. o \in Seq(Link) /\ Len(o) \in Nat /\ Len(o) >= 1 /\ o[Len(o)] = Owner /\ o[1] = NULL
      BY <3>1 DEF IsPath
    <3>5. Owner <= sym_eye /\ Owner \in Nat /\ sym_eye \in Nat
      BY <1>2, Basics DEF Owner
    <3>6. ASSUME NEW e \in InView PROVE e <= sym_eye
      <4>1. PICK i \in 1 .. Len(o) : parent[e] = o[i]
        BY <3>2
      <4>2. e \in Inside(o[i]) /\ e \in Nat
        BY <3>2, <4>1, Basics DEF Inside
      <4>3. CASE i = Len(o)
        BY <3>4, <4>2, <4>3, ScopesAreNested
      <4>4. CASE i # Len(o)
        <5>1. Len(o) \in i + 1 .. Len(o)
          BY <3>4, <4>4
        <5>2. e <= Owner
          BY <3>3, <3>4, <4>2, <5>1
        <5> QED
          BY <3>5, <4>2, <5>2
      <4> QED
        BY <4>3, <4>4
    <3>7. \E i \in 1 .. Len(o) : parent[sym_eye] = o[i]
      <4>1. CASE sym_turn = 1
        <5>1. Owner = sym_eye /\ Owner # NULL
          BY <1>2, <4>1 DEF Owner
        <5>2. Len(o) \in 2 .. Len(o) /\ Len(o) - 1 \in 1 .. Len(o)
          BY <3>4, <5>1
        <5> QED
          BY <3>1, <3>4, <5>1, <5>2 DEF IsPath
      <4>2. CASE sym_turn # 1
        <5>1. Owner = parent[sym_eye] /\ Len(o) \in 1 .. Len(o)
          BY <1>2, <3>4, <4>2 DEF Owner
        <5> QED
          BY <3>4, <5>1
      <4> QED
        BY <4>1, <4>2
    <3> QED
      BY <1>2, <3>2, <3>6, <3>7, Basics
  <2>3. InView \in SUBSET Entry /\ NULL \notin InView /\ NULL \in Link
    BY Basics DEF InView, Link
  <2>4. LET found == SearchFrom(sym_eye, NULL, name)
        IN  \/ found = NULL /\ \A f \in InView : f <= sym_eye => symbol[f].name # name
            \/ /\ found \in InView /\ found <= sym_eye /\ symbol[found].name = name
               /\ \A f \in InView : f <= sym_eye /\ symbol[f].name = name => f <= found
    <3>1. \A e \in InView :
            \/ Before(e, NULL) \in {NULL, NULL} /\ \A f \in InView : e <= f
            \/ /\ Before(e, NULL) \in InView /\ Before(e, NULL) < e
               /\ \A f \in InView : f < e => f <= Before(e, NULL)
      BY WalkBackwards
    <3> QED
      BY <2>2, <2>3, <3>1, Basics, WalkFinds
  <2> QED
    BY <2>1, <2>2, <2>4 DEF IsLatest
<1> QED
  BY <1>1, <1>2

\* A local search stops short of the enclosing scopes, except that it meets
\* the program name before the first program parameter.
LEMMA LocalSearch ==
  ASSUME TableInvariant, OneProgram, LeftOnce, NEW name,
         sym_eye # NULL, Owner # NULL, \A e \in Inside(Owner) : symbol[e].fun = 0
  PROVE  get_symbol(name, 0) # NULL <=>
           \/ \E e \in Inside(Owner) : symbol[e].name = name
           \/ Owner = 1 /\ Inside(Owner) = {} /\ symbol[1].name = name
<1>1. get_symbol(name, 0) = SearchFrom(sym_eye, StopCondition(0), name)
  <2>1. EndOfScope(sym_eye) = sym_eye
    BY Basics, NothingAfterEye, EndOfScopeDef DEF TableInvariant
  <2> QED
    BY <2>1 DEF get_symbol
<1>2. sym_eye \in Entry /\ sym_eye \in Link /\ sym_eye \in Allocated /\ parent[sym_eye] \in Link
  BY Basics
<1>3. StopCondition(0) = IF ChildlessMethod(sym_eye) THEN sym_eye ELSE parent[sym_eye]
  BY DEF StopCondition
<1>4. CASE sym_turn = 1
  <2>1. Owner = sym_eye /\ child[sym_eye] = NULL
    BY <1>4 DEF Owner, TableInvariant, TurnIsFresh
  <2>2. Inside(Owner) = {}
    <3> SUFFICES ASSUME NEW e \in Inside(Owner) PROVE FALSE
      OBVIOUS
    <3>1. e \in Entry /\ parent[e] = sym_eye
      BY <2>1, Basics DEF Inside
    <3>2. child[sym_eye] \in 1 .. e
      BY <3>1, Basics DEF ScopesAreChains
    <3> QED
      BY <2>1, <3>2 DEF NULL
  <2>3. CASE symbol[sym_eye].fun = 1
    <3>1. sym_eye # 1
      BY <2>3 DEF OneProgram
    <3>2. SearchFrom(sym_eye, sym_eye, name) = NULL
      BY <1>2, Basics, SearchFromDef
    <3> QED
      BY <1>1, <1>3, <2>1, <2>2, <2>3, <3>1, <3>2 DEF ChildlessMethod
  <2>4. CASE symbol[sym_eye].fun # 1
    <3>1. sym_eye = 1 /\ parent[1] = NULL /\ StopCondition(0) = NULL
      BY <1>2, <1>3, <1>4, <2>4 DEF LeftOnce, ChildlessMethod, OneProgram
    <3>2. prev[1] = NULL
      <4>1. 1 \in Entry /\ prev[1] \in Link
        BY <1>2, <3>1, Basics DEF TypeOK
      <4>2. prev[1] < 1
        BY <4>1, Basics DEF Ordered
      <4> QED
        BY <4>1, <4>2 DEF Link, Entry, NULL
    <3>3. Before(1, NULL) = NULL /\ NULL \in Link
      BY <3>1, <3>2 DEF Before, Link
    <3>4. SearchFrom(NULL, NULL, name) = NULL
      BY <3>3, Basics, SearchFromDef
    <3>5. SearchFrom(1, NULL, name) = IF symbol[1].name = name THEN 1 ELSE NULL
      <4>1. 1 \in Link /\ 1 # NULL
        BY <1>2, <3>1 DEF NULL
      <4> QED
        BY <3>3, <3>4, <4>1, Basics, SearchFromDef
    <3> QED
      BY <1>1, <2>1, <2>2, <3>1, <3>5 DEF NULL
  <2> QED
    BY <2>3, <2>4
<1>5. CASE sym_turn # 1
  <2> DEFINE V == Inside(Owner)
  <2>1. Owner = parent[sym_eye] /\ sym_eye \in V
    BY <1>2, <1>5 DEF Owner, Inside
  <2>2. StopCondition(0) = Owner
    BY <1>3, <2>1 DEF ChildlessMethod
  <2>3. \A e \in V : e \in Entry /\ e \in Nat /\ parent[e] = Owner /\ e <= sym_eye /\ Owner < e
    <3>1. \A e \in V : e \in Entry /\ e \in Nat /\ parent[e] = Owner
      BY Basics DEF Inside
    <3>2. \A e \in V : e <= sym_eye
      BY ScopesAreNested
    <3> QED
      BY <3>1, <3>2, Basics
  <2>4. ASSUME NEW e \in V
        PROVE  \/ Before(e, Owner) \in {NULL, Owner} /\ \A f \in V : e <= f
               \/ /\ Before(e, Owner) \in V /\ Before(e, Owner) < e
                  /\ \A f \in V : f < e => f <= Before(e, Owner)
    <3>1. \A f \in V : f < e => prev[e] \in f .. e
      <4>1. \A f \in V : f < e => f \in 1 .. e - 1
        BY <2>3 DEF Entry
      <4> QED
        BY <2>3, <4>1, Basics DEF ScopesAreChains
    <3>2. CASE prev[e] = NULL
      <4>1. Before(e, Owner) = Owner
        BY <2>3, <3>2 DEF Before
      <4>2. \A f \in V : ~(f < e)
        BY <2>3, <3>1, <3>2 DEF NULL, Entry
      <4> QED
        BY <2>3, <4>1, <4>2
    <3>3. CASE prev[e] # NULL
      <4>1. prev[e] \in Entry /\ prev[e] < e /\ parent[prev[e]] = parent[e]
        BY <2>3, <3>3, Basics DEF WellLinked, Ordered, Link
      <4>2. prev[e] \in V
        <5>1. e \in 1 .. size
          BY DEF Inside, Allocated
        <5>2. prev[e] \in 1 .. size
          BY <4>1, <5>1, Basics DEF Entry
        <5> QED
          BY <2>3, <4>1, <5>2 DEF Inside, Allocated
      <4>3. Before(e, Owner) = prev[e]
        BY <3>3 DEF Before
      <4> QED
        BY <2>3, <3>1, <4>1, <4>2, <4>3
    <3> QED
      BY <3>2, <3>3
  <2>5. V \in SUBSET Entry /\ Owner \notin V /\ Owner \in Link
    BY <2>3, Basics
  <2> HIDE DEF V
  <2>6. LET found == SearchFrom(sym_eye, Owner, name)
        IN  \/ found = NULL /\ \A f \in V : f <= sym_eye => symbol[f].name # name
            \/ /\ found \in V /\ found <= sym_eye /\ symbol[found].name = name
               /\ \A f \in V : f <= sym_eye /\ symbol[f].name = name => f <= found
    <3>1. \A e \in V :
            \/ Before(e, Owner) \in {NULL, Owner} /\ \A f \in V : e <= f
            \/ /\ Before(e, Owner) \in V /\ Before(e, Owner) < e
               /\ \A f \in V : f < e => f <= Before(e, Owner)
      BY <2>4
    <3>2. TypeOK /\ Ordered /\ WellLinked
      BY Basics
    <3> QED
      <4> DEFINE stop == Owner
      <4> HIDE DEF stop
      <4>1. /\ stop \in Link /\ stop \notin V
            /\ \A e \in V :
                 \/ Before(e, stop) \in {NULL, stop} /\ \A f \in V : e <= f
                 \/ /\ Before(e, stop) \in V /\ Before(e, stop) < e
                    /\ \A f \in V : f < e => f <= Before(e, stop)
        BY <2>5, <3>1 DEF stop
      <4>2. \A e \in V : 
               LET found == SearchFrom(e, stop, name)
               IN  \/ found = NULL /\ \A f \in V : f <= e => symbol[f].name # name
                   \/ /\ found \in V /\ found <= e /\ symbol[found].name = name
                      /\ \A f \in V : f <= e /\ symbol[f].name = name => f <= found
        BY <2>5, <3>2, <4>1, WalkFinds
      <4> QED
        BY <2>1, <4>2 DEF stop
  <2>7. NULL \notin V /\ V # {}
    BY <2>1, <2>5, Basics
  <2>8. SearchFrom(sym_eye, Owner, name) # NULL <=> \E e \in V : symbol[e].name = name
    BY <2>3, <2>6, <2>7
  <2>9. get_symbol(name, 0) = SearchFrom(sym_eye, Owner, name)
    BY <1>1, <2>2
  <2>10. get_symbol(name, 0) # NULL <=> \E e \in Inside(Owner) : symbol[e].name = name
    BY <2>8, <2>9 DEF V
  <2>11. Inside(Owner) # {}
    BY <2>7 DEF V
  <2> QED
    BY <2>10, <2>11
<1> QED
  BY <1>4, <1>5

-----------------------------------------------------------------------------
(* The inductive invariant, action by action.                              *)

\* The effect of one more declaration in the current scope.
LEMMA NewDeclaration ==
  ASSUME TableInvariant, sym_eye # NULL, NEW sym, NewEntry(sym, Place)
  PROVE  /\ size' = size + 1 /\ sym_eye' = size + 1 /\ temp' = temp
         /\ size + 1 \in Entry /\ size + 1 \notin Allocated
         /\ Owner # size + 1 /\ temp[size + 1] = NULL
         /\ Allocated' = Allocated \cup {size + 1}
         /\ symbol'[size + 1] = sym /\ \A e \in Allocated : symbol'[e] = symbol[e]
         /\ parent'[size + 1] = Owner /\ \A e \in Entry \ {size + 1} : parent'[e] = parent[e]
         /\ \A m : Inside(m)' = IF m = Owner THEN Inside(m) \cup {size + 1} ELSE Inside(m)
<1>1. size + 1 \in Entry /\ temp[size + 1] = NULL
  BY FreshEntry DEF NewEntry, TableInvariant
<1>2. /\ size' = size + 1 /\ sym_eye' = size + 1 /\ temp' = temp
      /\ symbol' = [e \in 1 .. size + 1 |-> IF e = size + 1 THEN sym ELSE symbol[e]]
  BY DEF NewEntry
<1>3. size + 1 \notin Allocated /\ Allocated' = Allocated \cup {size + 1}
  BY <1>2, Basics DEF Allocated
<1>4. symbol'[size + 1] = sym /\ \A e \in Allocated : symbol'[e] = symbol[e]
  BY <1>2, Basics DEF Allocated
<1>5. Owner # size + 1
  BY Basics DEF Owner, Allocated
<1>6. parent' = [parent EXCEPT ![size + 1] = Owner]
  BY DEF NewEntry, Place, HangBelow, HangAfter, Owner
<1>7. parent'[size + 1] = Owner /\ \A e \in Entry \ {size + 1} : parent'[e] = parent[e]
  BY <1>1, <1>6, Basics DEF TypeOK
<1>8. ASSUME NEW m
      PROVE  Inside(m)' = IF m = Owner THEN Inside(m) \cup {size + 1} ELSE Inside(m)
  <2>1. \A e \in Allocated : e \in Entry \ {size + 1}
    BY <1>3, Basics
  <2>2. Inside(m)' = {e \in Allocated' : parent'[e] = m}
    BY DEF Inside
  <2> QED
    BY <1>3, <1>7, <2>1, <2>2 DEF Inside
<1> QED
  BY <1>1, <1>2, <1>3, <1>4, <1>5, <1>7, <1>8

\* A declaration that is entered without a report is the first of its name.
LEMMA DistinctKept ==
  ASSUME TableInvariant, OneProgram, SiblingsAreDistinct, sym_eye # NULL,
         NEW sym, NewEntry(sym, Place), "SEMERR" \in result => "SEMERR" \in result',
         (\E e \in Inside(Owner) : symbol[e].name = sym.name) => "SEMERR" \in result'
  PROVE  SiblingsAreDistinct'
<1> SUFFICES ASSUME NEW e \in Allocated', NEW f \in Allocated',
                    e < f, parent'[e] = parent'[f], symbol'[e].name = symbol'[f].name
             PROVE  "SEMERR" \in result'
  BY DEF SiblingsAreDistinct
<1>1. \A x \in Allocated : x \in Entry \ {size + 1} /\ x \in Nat /\ x < size + 1
  BY Basics DEF Allocated
<1>2. e \in Allocated
  BY <1>1, NewDeclaration, Basics
<1>3. parent'[e] = parent[e] /\ symbol'[e] = symbol[e]
  BY <1>1, <1>2, NewDeclaration
<1>4. CASE f \in Allocated
  <2>1. parent'[f] = parent[f] /\ symbol'[f] = symbol[f]
    BY <1>1, <1>4, NewDeclaration
  <2> QED
    BY <1>2, <1>3, <1>4, <2>1 DEF SiblingsAreDistinct
<1>5. CASE f = size + 1
  <2>1. parent'[f] = Owner /\ symbol'[f] = sym
    BY <1>5, NewDeclaration
  <2>2. e \in Inside(Owner)
    BY <1>2, <1>3, <2>1 DEF Inside
  <2> QED
    BY <1>3, <2>1, <2>2
<1> QED
  BY <1>4, <1>5, NewDeclaration

\* The parts of the inductive invariant that a declaration in the current scope
\* keeps whatever phase the parser is in.
LEMMA OneProgramKept ==
  ASSUME TableInvariant, OneProgram, pc # "start", pc' # "start", Owner # NULL,
         NEW sym, NewEntry(sym, Place), UNCHANGED symbol_table
  PROVE  OneProgram'
<1>1. sym_eye # NULL /\ size # 0 /\ symbol_table = 1 /\ symbol[1].fun = 0
  BY DEF OneProgram
<1>2. 1 \in Allocated /\ size \in Nat /\ 1 \in Nat
  BY <1>1, Basics DEF Allocated
<1>3. size' = size + 1 /\ sym_eye' = size + 1 /\ symbol'[1] = symbol[1]
  BY <1>1, <1>2, NewDeclaration
<1>4. ASSUME NEW e \in Allocated' PROVE parent'[e] = NULL <=> e = 1
  <2>1. CASE e \in Allocated
    <3>1. e \in Entry \ {size + 1}
      BY <1>1, <2>1, NewDeclaration, Basics
    <3>2. parent'[e] = parent[e]
      BY <1>1, <3>1, NewDeclaration
    <3> QED
      BY <2>1, <3>2 DEF OneProgram
  <2>2. CASE e = size + 1
    BY <1>1, <1>2, <2>2, NewDeclaration
  <2> QED
    BY <1>1, <2>1, <2>2, NewDeclaration
<1>5. size' # 0 /\ sym_eye' # NULL
  BY <1>2, <1>3 DEF NULL
<1> QED
  BY <1>1, <1>3, <1>4, <1>5 DEF OneProgram

\* Nothing is inside an entry that was just made.
LEMMA NothingInsideNew ==
  ASSUME TableInvariant, sym_eye # NULL, NEW sym, NewEntry(sym, Place),
         NEW new, new = size + 1
  PROVE  Inside(new)' = {}
<1>1. Inside(new)' = Inside(new)
  BY NewDeclaration
<1>2. \A e \in Allocated : parent[e] # new
  BY Basics DEF Allocated
<1> QED
  BY <1>1, <1>2 DEF Inside

\* A declaration that is no parameter leaves the parameters of the methods
\* where they are.
LEMMA ParametersKept ==
  ASSUME TableInvariant, ParametersFollow, sym_eye # NULL,
         NEW sym, NewEntry(sym, Place), sym.param = 0,
         \A m : m = size + 1 => Counted(m)' = 0, \A m \in Allocated : Counted(m)' = Counted(m)
  PROVE  ParametersFollow'
<1>0. \A e \in Allocated : e \in Entry /\ e \in Nat /\ e # size + 1
  BY Basics, NewDeclaration DEF Allocated
<1>1. ASSUME NEW m \in Allocated', symbol'[m].fun = 1
      PROVE  {e \in Inside(m)' : symbol'[e].param = 1} = m + 1 .. m + Counted(m)'
  <2>1. CASE m = size + 1
    <3>1. Inside(m)' = {}
      BY <2>1, NothingInsideNew
    <3>2. Counted(m)' = 0 /\ m \in Nat
      BY <2>1, Basics
    <3> QED
      BY <3>1, <3>2
  <2>2. CASE m \in Allocated
    <3>1. symbol'[m] = symbol[m] /\ Counted(m)' = Counted(m)
      BY <2>2, NewDeclaration
    <3>2. {e \in Inside(m) : symbol[e].param = 1} = m + 1 .. m + Counted(m)
      BY <1>1, <2>2, <3>1 DEF ParametersFollow
    <3>3. {e \in Inside(m)' : symbol'[e].param = 1} = {e \in Inside(m) : symbol[e].param = 1}
      <4>1. Inside(m) \subseteq Allocated
        BY DEF Inside
      <4>2. symbol'[size + 1].param = 0 /\ \A e \in Allocated : symbol'[e] = symbol[e]
        BY NewDeclaration
      <4>3. Inside(m)' = Inside(m) \/ Inside(m)' = Inside(m) \cup {size + 1}
        BY NewDeclaration
      <4> QED
        BY <4>1, <4>2, <4>3
    <3> QED
      BY <3>1, <3>2, <3>3
  <2> QED
    BY <2>1, <2>2, NewDeclaration
<1>2. ASSUME NEW e \in Allocated', symbol'[e].param = 1
      PROVE  symbol'[e].fun = 0 /\ symbol'[e].std_type \in VarType
  <2>1. e \in Allocated
    BY <1>2, NewDeclaration
  <2>2. symbol'[e] = symbol[e]
    BY <2>1, NewDeclaration
  <2> QED
    BY <1>2, <2>1, <2>2 DEF ParametersFollow
<1> QED
  BY <1>1, <1>2 DEF ParametersFollow

\* A report is never taken back.
LEMMA SemerrFact ==
  ASSUME NEW condition \in BOOLEAN, semerr(condition)
  PROVE  /\ "SEMERR" \in result => "SEMERR" \in result'
         /\ condition => "SEMERR" \in result'
         /\ ("SEMERR" \in result') = ("SEMERR" \in result \/ condition)
BY DEF semerr

\* In a state where an action other than the first is possible.
LEMMA Inner ==
  ASSUME DeclInvariant, pc # "start"
  PROVE  /\ TableInvariant /\ OneProgram /\ sym_eye # NULL /\ size >= 1 /\ 1 \in Allocated
         /\ sym_eye # 1 => Owner # NULL
         /\ symbol \in [Allocated -> Symbol] /\ c \in Nat
<1>1. TableInvariant /\ OneProgram /\ sym_eye # NULL
  BY DEF DeclInvariant, OneProgram
<1>2. size >= 1 /\ 1 \in Allocated
  BY <1>1, Basics DEF Allocated
<1>3. sym_eye # 1 => Owner # NULL
  BY <1>1, Basics DEF OneProgram, Owner
<1>4. symbol \in [Allocated -> Symbol] /\ c \in Nat
  BY DEF DeclInvariant, DeclTypeOK, TypeOK
<1> QED
  BY <1>1, <1>2, <1>3, <1>4

\* A declaration of anything but a parameter or a method.
LEMMA AddPlainKeepsDecl ==
  ASSUME DeclInvariant, NEW n \in Name, NEW t \in StdType,
         pc \in {"ids", "body"}, pc' \in {"ids", "body"}, UNCHANGED c,
         pc' = "ids" => pc = "ids", Owner # NULL,
         \A e \in Inside(Owner) : symbol[e].fun = 0,
         check_add_var(n, t)
  PROVE  DeclInvariant'
<1>0. /\ TableInvariant /\ OneProgram /\ sym_eye # NULL /\ LeftOnce
      /\ DeclTypeOK /\ NoMethodBeforeBody /\ ParametersFollow /\ SiblingsAreDistinct
      /\ pc # "start" /\ pc' # "start"
  BY Inner DEF DeclInvariant
<1> DEFINE sym == [name |-> n, std_type |-> t, fun |-> 0, count |-> 0, param |-> 0]
<1>1. /\ semerr(get_symbol(n, 0) # NULL) /\ NewEntry(sym, Place)
      /\ sym_turn' = 0 /\ UNCHANGED symbol_table
  BY <1>0 DEF check_add_var, AddEntry
<1>2. sym.name = n /\ sym.fun = 0 /\ sym.param = 0
  OBVIOUS
<1> HIDE DEF sym
<1>3. TableInvariant'
  BY <1>0, AddVarKeepsTable
<1>4. DeclTypeOK'
  BY <1>0, <1>1, <1>3, NewDeclaration, Basics DEF DeclTypeOK, TableInvariant
<1>5. OneProgram'
  BY <1>0, <1>1, OneProgramKept
<1>6. symbol'[sym_eye'] = sym
  BY <1>0, <1>1, NewDeclaration
<1>7. LeftOnce'
  BY <1>1, <1>2, <1>6 DEF LeftOnce, ChildlessMethod
<1>8. NoMethodBeforeBody'
  <2>1. Owner' = Owner
    <3>1. Owner' = parent'[sym_eye'] /\ sym_eye' # NULL
      BY <1>0, <1>1, NewDeclaration, Basics DEF Owner
    <3> QED
      BY <3>1, <1>0, <1>1, NewDeclaration
  <2> QED
    BY <2>1, <1>0, <1>1, <1>2, NewDeclaration DEF NoMethodBeforeBody
<1>9. HeadIsLatest'
  BY DEF HeadIsLatest
<1>10. ParametersFollow'
  <2>1. \A m \in Allocated' : Counted(m)' = symbol'[m].count
    BY DEF Counted
  <2>2. \A m \in Allocated : Counted(m) = symbol[m].count
    BY DEF Counted
  <2>3. \A m \in Allocated : Counted(m)' = Counted(m)
    BY <2>1, <2>2, <1>0, <1>1, NewDeclaration
  <2>4. \A m : m = size + 1 => Counted(m)' = 0
    <3>1. size + 1 \in Allocated' /\ symbol'[size + 1] = sym
      BY <1>0, <1>1, NewDeclaration
    <3> QED
      BY <2>1, <3>1 DEF sym
  <2> QED
    BY <2>3, <2>4, <1>0, <1>1, <1>2, ParametersKept
<1>11. SiblingsAreDistinct'
  <2>1. (\E e \in Inside(Owner) : symbol[e].name = n) => get_symbol(n, 0) # NULL
    BY <1>0, LocalSearch
  <2> QED
    BY <2>1, <1>0, <1>1, <1>2, SemerrFact, DistinctKept
<1> QED
  BY <1>3, <1>4, <1>5, <1>7, <1>8, <1>9, <1>10, <1>11 DEF DeclInvariant

\* While a head is read, its method is the owner of the current scope, and
\* what was entered since are its parameters.
LEMMA HeadFacts ==
  ASSUME DeclInvariant, pc \in {"head", "typed"}
  PROVE  /\ Owner = size - c /\ size - c \in Allocated /\ size - c > 1
         /\ symbol[size - c].fun = 1 /\ symbol[size - c].param = 0
         /\ Owner # NULL /\ sym_eye = size /\ (sym_turn = 1 <=> c = 0)
         /\ Inside(Owner) = size - c + 1 .. size
         /\ \A e \in Inside(Owner) : symbol[e].fun = 0
         /\ MethodInView = Owner
<1>1. /\ TableInvariant /\ sym_eye # NULL /\ size >= 1 /\ c \in Nat
      /\ symbol \in [Allocated -> Symbol] /\ size \in Nat
  BY Inner, Basics
<1>2. /\ symbol[size - c].fun = 1 /\ size - c > 1 /\ size - c \in Allocated
      /\ sym_eye = size /\ (sym_turn = 1 <=> c = 0)
      /\ Inside(size - c) = size - c + 1 .. size
  BY <1>1 DEF DeclInvariant, HeadIsLatest, Allocated
<1>3. symbol[size - c].param = 0
  BY <1>1, <1>2 DEF DeclInvariant, ParametersFollow, Symbol
<1>4. Owner = size - c /\ size - c # NULL
  <2>1. CASE c = 0
    BY <1>1, <1>2, <2>1 DEF Owner, NULL
  <2>2. CASE c # 0
    <3>1. size \in Inside(size - c)
      BY <1>1, <1>2, <2>2
    <3> QED
      BY <1>1, <1>2, <2>2, <3>1 DEF Owner, Inside, NULL
  <2> QED
    BY <2>1, <2>2
<1>5. \A e \in Inside(Owner) : symbol[e].fun = 0
  <2>1. Counted(size - c) = c
    BY DEF Counted
  <2>2. {e \in Inside(size - c) : symbol[e].param = 1} = size - c + 1 .. size - c + c
    BY <1>2, <2>1 DEF DeclInvariant, ParametersFollow
  <2>3. size - c + c = size
    BY <1>1
  <2>4. \A e \in Inside(size - c) : symbol[e].param = 1
    BY <1>2, <2>2, <2>3
  <2>5. Inside(size - c) \subseteq Allocated
    BY DEF Inside
  <2> QED
    BY <1>4, <2>4, <2>5 DEF DeclInvariant, ParametersFollow
<1>6. MethodInView = Owner
  <2>1. CASE c = 0
    BY <1>1, <1>2, <1>4, <2>1 DEF MethodInView
  <2>2. CASE c # 0
    <3>1. Owner = parent[sym_eye] /\ sym_eye \in Inside(Owner)
      BY <1>1, <1>2, <1>4, <2>2 DEF Owner
    <3> QED
      BY <1>5, <3>1 DEF MethodInView
  <2> QED
    BY <2>1, <2>2
<1> QED
  BY <1>2, <1>3, <1>4, <1>5, <1>6

\* One more parameter of the head that is read.
LEMMA AddFunParamKeepsDecl ==
  ASSUME DeclInvariant, NEW n \in Name, NEW t \in VarType, AddFunParam(n, t)
  PROVE  DeclInvariant'
<1>0. /\ pc = "head" /\ pc' = "head" /\ c' = c + 1 /\ check_add_fun_param(n, t)
      /\ TableInvariant /\ OneProgram /\ sym_eye # NULL /\ LeftOnce /\ size \in Nat /\ c \in Nat
      /\ DeclTypeOK /\ ParametersFollow /\ SiblingsAreDistinct
  BY Inner, Basics DEF DeclInvariant, AddFunParam
<1>h. /\ Owner = size - c /\ size - c \in Allocated /\ size - c > 1
      /\ symbol[size - c].fun = 1 /\ Owner # NULL
      /\ Inside(Owner) = size - c + 1 .. size
      /\ \A e \in Inside(Owner) : symbol[e].fun = 0
  BY <1>0, HeadFacts
<1> DEFINE sym == [name |-> n, std_type |-> t, fun |-> 0, count |-> 0, param |-> 1]
<1>1. /\ semerr(get_symbol(n, 0) # NULL) /\ NewEntry(sym, Place)
      /\ sym_turn' = 0 /\ UNCHANGED symbol_table
  BY <1>0 DEF check_add_fun_param, AddEntry
<1>2. sym.name = n /\ sym.fun = 0 /\ sym.param = 1 /\ sym.std_type = t
  OBVIOUS
<1> HIDE DEF sym
<1>3. TableInvariant'
  BY <1>0, AddEntryKeepsTable DEF check_add_fun_param, StdType
<1>4. DeclTypeOK'
  <2>1. size' = size + 1 /\ c \in 0 .. size
    BY <1>0, <1>1, NewDeclaration DEF DeclTypeOK
  <2> QED
    BY <1>0, <1>3, <2>1 DEF DeclTypeOK, TableInvariant
<1>5. OneProgram'
  BY <1>0, <1>h, <1>1, OneProgramKept
<1>6. /\ symbol'[size + 1] = sym /\ sym_eye' = size + 1 /\ size' = size + 1
      /\ size' - c' = size - c /\ symbol'[size - c] = symbol[size - c]
  BY <1>0, <1>h, <1>1, NewDeclaration
<1>7. LeftOnce'
  BY <1>1, <1>2, <1>6 DEF LeftOnce, ChildlessMethod
<1>8. NoMethodBeforeBody'
  BY <1>0 DEF NoMethodBeforeBody
<1>9. \A m : m = size - c => Inside(m)' = m + 1 .. size + 1
  <2>1. \A m : m = size - c => Inside(m)' = Inside(m) \cup {size + 1}
    BY <1>0, <1>h, <1>1, NewDeclaration
  <2>2. (size - c + 1 .. size) \cup {size + 1} = size - c + 1 .. size + 1
    BY <1>0, <1>h
  <2> QED
    BY <1>h, <2>1, <2>2
<1>10. HeadIsLatest'
  <2>1. Inside(size - c)' = (size - c + 1 .. size)'
    <3>1. PICK m : m = size - c
      OBVIOUS
    <3>2. m = size' - c' /\ Inside(m)' = m + 1 .. size + 1
      BY <1>6, <1>9, <3>1
    <3> QED
      BY <1>6, <3>2
  <2> QED
    BY <1>0, <1>h, <1>1, <1>6, <2>1 DEF HeadIsLatest
<1>11. ParametersFollow'
  <2>1. ASSUME NEW m \in Allocated', symbol'[m].fun = 1
        PROVE  {e \in Inside(m)' : symbol'[e].param = 1} = m + 1 .. m + Counted(m)'
    <3>1. m \in Allocated /\ symbol'[m] = symbol[m] /\ m \in Nat
      BY <2>1, <1>0, <1>1, <1>2, NewDeclaration, Basics DEF Allocated
    <3>2. {e \in Inside(m) : symbol[e].param = 1} = m + 1 .. m + Counted(m)
      BY <2>1, <3>1, <1>0 DEF ParametersFollow
    <3>3. Inside(m) \subseteq Allocated /\ \A e \in Allocated : symbol'[e] = symbol[e]
      BY <1>0, <1>1, NewDeclaration DEF Inside
    <3>4. CASE m = size - c
      <4>1. Counted(m) = c /\ Counted(m)' = c + 1
        BY <1>0, <1>6, <3>4 DEF Counted
      <4>2. Inside(m)' = Inside(m) \cup {size + 1}
        BY <1>0, <1>h, <1>1, <3>4, NewDeclaration
      <4>3. {e \in Inside(m)' : symbol'[e].param = 1} =
              {e \in Inside(m) : symbol[e].param = 1} \cup {size + 1}
        BY <1>2, <1>6, <3>3, <4>2
      <4>4. (m + 1 .. m + c) \cup {size + 1} = m + 1 .. m + (c + 1)
        BY <1>0, <3>1, <3>4
      <4> QED
        BY <3>2, <4>1, <4>3, <4>4
    <3>5. CASE m # size - c
      <4>1. Counted(m)' = Counted(m)
        BY <1>0, <1>6, <3>1, <3>5 DEF Counted
      <4>2. Inside(m)' = Inside(m)
        BY <1>0, <1>h, <1>1, <3>5, NewDeclaration
      <4> QED
        BY <3>2, <3>3, <4>1, <4>2
    <3> QED
      BY <3>4, <3>5
  <2>2. ASSUME NEW e \in Allocated', symbol'[e].param = 1
        PROVE  symbol'[e].fun = 0 /\ symbol'[e].std_type \in VarType
    <3>1. CASE e = size + 1
      BY <1>2, <1>6, <3>1
    <3>2. CASE e \in Allocated
      <4>1. symbol'[e] = symbol[e]
        BY <3>2, <1>0, <1>1, NewDeclaration
      <4> QED
        BY <2>2, <3>2, <4>1, <1>0 DEF ParametersFollow
    <3> QED
      BY <3>1, <3>2, <1>0, <1>1, NewDeclaration
  <2> QED
    BY <2>1, <2>2 DEF ParametersFollow
<1>12. SiblingsAreDistinct'
  <2>1. (\E e \in Inside(Owner) : symbol[e].name = n) => get_symbol(n, 0) # NULL
    BY <1>0, <1>h, LocalSearch
  <2> QED
    BY <2>1, <1>0, <1>1, <1>2, SemerrFact, DistinctKept
<1> QED
  BY <1>3, <1>4, <1>5, <1>7, <1>8, <1>10, <1>11, <1>12 DEF DeclInvariant

\* A function is entered: a global search looks at the current scope too.
LEMMA EnterFunctionKeepsDecl ==
  ASSUME DeclInvariant, NEW n \in Name, EnterFunction(n)
  PROVE  DeclInvariant'
<1>0. /\ pc \in {"ids", "body"} /\ Owner # NULL /\ pc' = "head" /\ c' = 0 /\ check_enter_method(n)
      /\ TableInvariant /\ OneProgram /\ sym_eye # NULL /\ LeftOnce /\ size \in Nat /\ size >= 1
      /\ DeclTypeOK /\ ParametersFollow /\ SiblingsAreDistinct /\ symbol_table = 1
  <2>1. pc \in {"ids", "body"} /\ Owner # NULL /\ pc' = "head" /\ c' = 0 /\ check_enter_method(n)
    BY DEF EnterFunction, InBody
  <2> QED
    BY <2>1, Inner, Basics DEF DeclInvariant, OneProgram
<1> DEFINE sym == [name |-> n, std_type |-> "NONE", fun |-> 1, count |-> 0, param |-> 0]
<1>1. /\ semerr(get_symbol(n, 1) # NULL) /\ NewEntry(sym, Place)
      /\ sym_turn' = 1 /\ UNCHANGED symbol_table
  <2>1. symbol_table # NULL
    BY <1>0 DEF NULL
  <2>2. MethodSymbol(n) = sym
    BY <1>0 DEF MethodSymbol
  <2> HIDE DEF sym
  <2> QED
    BY <1>0, <2>1, <2>2 DEF check_enter_method
<1>2. sym.name = n /\ sym.fun = 1 /\ sym.param = 0 /\ sym.count = 0
  OBVIOUS
<1> HIDE DEF sym
<1>3. TableInvariant'
  BY <1>0, EnterMethodKeepsTable
<1>6. /\ symbol'[size + 1] = sym /\ sym_eye' = size + 1 /\ size' = size + 1
      /\ temp'[size + 1] = NULL
  BY <1>0, <1>1, NewDeclaration
<1>4. DeclTypeOK'
  BY <1>0, <1>3, <1>6 DEF DeclTypeOK, TableInvariant
<1>5. OneProgram'
  BY <1>0, <1>1, OneProgramKept
<1>7. LeftOnce'
  BY <1>1, <1>2, <1>6 DEF LeftOnce
<1>8. NoMethodBeforeBody'
  BY <1>0 DEF NoMethodBeforeBody
<1>10. HeadIsLatest'
  <2>1. Inside(size - c)' = (size - c + 1 .. size)'
    <3>1. PICK m : m = size + 1
      OBVIOUS
    <3>2. m = size' - c' /\ Inside(m)' = {}
      BY <1>0, <1>1, <1>6, <3>1, NothingInsideNew
    <3>3. Inside(size - c)' = {}
      BY <3>2
    <3>4. (size - c + 1 .. size)' = {}
      BY <1>0, <1>6
    <3> QED
      BY <3>3, <3>4
  <2> QED
    BY <1>0, <1>1, <1>2, <1>6, <2>1 DEF HeadIsLatest
<1>11. ParametersFollow'
  <2>1. \A m : m = size + 1 => Counted(m)' = 0
    BY <1>0, <1>6 DEF Counted
  <2>2. \A m \in Allocated : m # size' - c'
    BY <1>0, <1>6, Basics DEF Allocated
  <2>3. \A m \in Allocated : Counted(m)' = symbol'[m].count
    BY <2>2 DEF Counted
  <2>4. \A m \in Allocated : Counted(m) = symbol[m].count
    BY <1>0 DEF Counted
  <2>5. \A m \in Allocated : Counted(m)' = Counted(m)
    BY <2>3, <2>4, <1>0, <1>1, NewDeclaration
  <2> QED
    BY <2>1, <2>5, <1>0, <1>1, <1>2, ParametersKept
<1>12. SiblingsAreDistinct'
  <2>1. Inside(Owner) \subseteq InView
    <3>1. Owner \in {Enclosing[i] : i \in 1 .. Len(Enclosing)}
      BY <1>0, EnclosingIsOpen DEF IsPath
    <3> QED
      BY <3>1 DEF Inside, InView
  <2>2. (\E e \in Inside(Owner) : symbol[e].name = n) => get_symbol(n, 1) # NULL
    <3>1. IsLatest(get_symbol(n, 1), InView, n)
      BY <1>0, GlobalSearch
    <3> QED
      BY <2>1, <3>1, Basics, <1>0 DEF IsLatest, InView
  <2> QED
    BY <2>2, <1>0, <1>1, <1>2, SemerrFact, DistinctKept
<1> QED
  BY <1>3, <1>4, <1>5, <1>7, <1>8, <1>10, <1>11, <1>12 DEF DeclInvariant

\* The program name is the first entry.
LEMMA EnterProgramKeepsDecl ==
  ASSUME DeclInvariant, NEW n \in Name, EnterProgram(n)
  PROVE  DeclInvariant'
<1>0. /\ pc' = "ids" /\ c' = c /\ check_enter_method(n)
      /\ TableInvariant /\ size = 0 /\ symbol_table = NULL /\ sym_eye = NULL /\ DeclTypeOK
  BY DEF DeclInvariant, OneProgram, EnterProgram
<1> DEFINE sym == [name |-> n, std_type |-> "PGNAME", fun |-> 0, count |-> 0, param |-> 0]
<1>1. NewEntry(sym, "nowhere") /\ sym_turn' = 1 /\ symbol_table' = 1
  <2>1. MethodSymbol(n) = sym
    BY <1>0 DEF MethodSymbol
  <2> HIDE DEF sym
  <2> QED
    BY <1>0, <2>1 DEF check_enter_method
<1>2. sym.fun = 0 /\ sym.param = 0
  OBVIOUS
<1> HIDE DEF sym
<1>3. TableInvariant'
  BY <1>0, EnterMethodKeepsTable
<1>4. /\ size' = 1 /\ sym_eye' = 1 /\ Allocated' = {1} /\ symbol'[1] = sym /\ temp' = temp
      /\ parent' = parent /\ 1 \in Entry /\ parent[1] = NULL /\ temp[1] = NULL
  <2>1. /\ size + 1 = 1 /\ size + 1 \in Entry /\ parent[size + 1] = NULL /\ temp[size + 1] = NULL
    BY <1>0, <1>1, FreshEntry DEF NewEntry, TableInvariant
  <2>2. /\ size' = 1 /\ sym_eye' = 1 /\ temp' = temp /\ parent' = parent
        /\ symbol' = [e \in 1 .. 1 |-> IF e = 1 THEN sym ELSE symbol[e]]
    BY <2>1, <1>1 DEF NewEntry
  <2> QED
    BY <2>1, <2>2 DEF Allocated
<1>5. DeclTypeOK'
  BY <1>0, <1>3, <1>4 DEF DeclTypeOK, TableInvariant
<1>6. OneProgram' /\ LeftOnce' /\ NoMethodBeforeBody' /\ HeadIsLatest' /\ SiblingsAreDistinct'
  <2>2. Owner' # NULL
    BY <1>1, <1>4 DEF Owner, NULL
  <2>1. sym_eye' # NULL /\ NULL' = NULL
    BY <1>4 DEF NULL
  <2> QED
    BY <2>1, <2>2, <1>0, <1>1, <1>2, <1>4
    DEF OneProgram, LeftOnce, NoMethodBeforeBody, HeadIsLatest, SiblingsAreDistinct, ChildlessMethod
<1>7. ParametersFollow'
  BY <1>2, <1>4 DEF ParametersFollow
<1> QED
  BY <1>3, <1>5, <1>6, <1>7 DEF DeclInvariant

\* A signature is written to the method whose head is read and changes neither
\* names nor what is a method or a parameter.
LEMMA SignatureKeepsDecl ==
  ASSUME DeclInvariant, pc \in {"head", "typed"}, pc' \in {"typed", "body"}, UNCHANGED c,
         NEW sym \in Symbol, UpdateMethod(sym),
         sym.name = symbol[Owner].name, sym.fun = 1, sym.param = symbol[Owner].param,
         pc' = "body" => sym.count = c
  PROVE  DeclInvariant'
<1>0. /\ TableInvariant /\ OneProgram /\ sym_eye # NULL /\ LeftOnce /\ size \in Nat /\ c \in Nat
      /\ DeclTypeOK /\ ParametersFollow /\ SiblingsAreDistinct /\ HeadIsLatest
      /\ symbol \in [Allocated -> Symbol]
  BY Inner, Basics DEF DeclInvariant
<1>1. /\ Owner = size - c /\ Owner \in Allocated /\ Owner > 1 /\ Owner # NULL
      /\ symbol[Owner].fun = 1 /\ symbol[Owner].param = 0 /\ MethodInView = Owner
      /\ sym_turn = 1 => c = 0
      /\ sym_eye = size
  BY HeadFacts
<1>2. /\ UNCHANGED <<next, prev, parent, child, temp, size, symbol_table, sym_eye, sym_turn, result>>
      /\ symbol' = [symbol EXCEPT ![Owner] = sym]
      /\ Allocated' = Allocated
  BY <1>1 DEF UpdateMethod, links, Allocated
<1>3. ASSUME NEW e \in Allocated
      PROVE  /\ symbol'[e] = IF e = Owner THEN sym ELSE symbol[e]
             /\ symbol'[e].name = symbol[e].name /\ symbol'[e].fun = symbol[e].fun
             /\ symbol'[e].param = symbol[e].param
  BY <1>0, <1>1, <1>2
<1>4. TableInvariant'
  BY <1>0, UpdateKeepsTable
<1>5. DeclTypeOK'
  BY <1>0, <1>2, <1>4 DEF DeclTypeOK, TableInvariant
<1>6. 1 \in Allocated /\ sym_eye \in Allocated
  BY <1>0, Inner, Basics
<1>7. OneProgram'
  BY <1>0, <1>2, <1>3, <1>6 DEF OneProgram
<1>8. LeftOnce'
  <2>1. sym_turn = 1 => symbol[sym_eye].fun = 1
    BY <1>0, <1>1
  <2> QED
    BY <2>1, <1>0, <1>2, <1>3, <1>6 DEF LeftOnce, ChildlessMethod
<1>9. NoMethodBeforeBody' /\ SiblingsAreDistinct'
  BY <1>0, <1>2, <1>3 DEF NoMethodBeforeBody, SiblingsAreDistinct
<1>10. \A m : Inside(m)' = Inside(m)
  BY <1>2 DEF Inside
<1>11. HeadIsLatest'
  <2>1. Inside(size - c)' = Inside(size - c)
    BY <1>2, <1>10 DEF Inside
  <2>2. symbol'[size' - c'].fun = 1
    BY <1>1, <1>2, <1>3
  <2> QED
    BY <2>1, <2>2, <1>0, <1>2 DEF HeadIsLatest
<1>12. ParametersFollow'
  <2>1. ASSUME NEW m \in Allocated, symbol'[m].fun = 1
        PROVE  {e \in Inside(m)' : symbol'[e].param = 1} = m + 1 .. m + Counted(m)'
    <3>1. {e \in Inside(m) : symbol[e].param = 1} = m + 1 .. m + Counted(m)
      BY <2>1, <1>0, <1>3 DEF ParametersFollow
    <3>2. {e \in Inside(m)' : symbol'[e].param = 1} = {e \in Inside(m) : symbol[e].param = 1}
      <4>1. Inside(m) \subseteq Allocated
        BY DEF Inside
      <4> QED
        BY <4>1, <1>3, <1>10
    <3>3. Counted(m)' = Counted(m)
      <4>1. CASE m = Owner
        BY <4>1, <1>1, <1>2, <1>3 DEF Counted
      <4>2. CASE m # Owner
        BY <4>2, <1>1, <1>2, <1>3 DEF Counted
      <4> QED
        BY <4>1, <4>2
    <3> QED
      BY <3>1, <3>2, <3>3
  <2>2. ASSUME NEW e \in Allocated, symbol'[e].param = 1
        PROVE  symbol'[e].fun = 0 /\ symbol'[e].std_type \in VarType
    <3>1. symbol[e].param = 1 /\ e # Owner
      BY <2>2, <1>1, <1>3
    <3> QED
      BY <3>1, <1>0, <1>3 DEF ParametersFollow
  <2> QED
    BY <2>1, <2>2, <1>2 DEF ParametersFollow
<1> QED
  BY <1>4, <1>5, <1>7, <1>8, <1>9, <1>11, <1>12 DEF DeclInvariant

\* Where an exit leaves the eye: the owner of the new current scope is the
\* method around the scope that is left.
LEMMA ExitFacts ==
  ASSUME DeclInvariant, Exit
  PROVE  /\ UNCHANGED <<symbol, next, prev, parent, child, size, symbol_table, result>>
         /\ sym_turn' = 0 /\ sym_eye' # NULL /\ Owner' = parent[Owner]
         /\ ChildlessMethod(sym_eye)' => temp'[sym_eye'] # NULL
<1>0. /\ pc \in {"ids", "body"} /\ Owner # NULL /\ check_exit_method
      /\ Inside(Owner) # {} \/ pc = "body"
  BY DEF Exit, InBody
<1>1. /\ TableInvariant /\ OneProgram /\ sym_eye # NULL /\ LeftOnce
      /\ sym_eye \in Entry /\ sym_eye \in Allocated /\ parent[sym_eye] \in Link
      /\ sym_turn \in {0, 1} /\ temp \in [Entry -> Link]
  BY <1>0, Inner, Basics DEF DeclInvariant, DeclTypeOK, TypeOK
<1>2. /\ Climb /\ sym_turn' = 0
      /\ UNCHANGED <<symbol, next, prev, parent, child, size, symbol_table, result>>
  BY <1>0, <1>1 DEF check_exit_method
<1>3. Owner' = IF sym_eye' = NULL THEN NULL ELSE parent[sym_eye']
  BY <1>2 DEF Owner
<1>4. parent[sym_eye] # NULL => child[parent[sym_eye]] # NULL
  BY <1>1, Basics DEF ScopesAreChains, NULL
<1>5. CASE ChildlessMethod(sym_eye) /\ temp[sym_eye] # NULL
  <2>1. sym_turn = 0 /\ Owner = parent[sym_eye] /\ sym_eye' = parent[sym_eye] /\ temp' = temp
    BY <1>1, <1>2, <1>5 DEF LeftOnce, Climb, TableInvariant, TempIsParent, Owner
  <2> QED
    BY <2>1, <1>0, <1>2, <1>3, <1>4 DEF ChildlessMethod
<1>6. CASE ChildlessMethod(sym_eye) /\ temp[sym_eye] = NULL
  <2>1. sym_turn = 1 /\ Owner = sym_eye /\ sym_eye' = sym_eye
        /\ temp' = [temp EXCEPT ![sym_eye] = parent[sym_eye]]
    BY <1>1, <1>2, <1>6 DEF LeftOnce, Climb, Owner
  <2>2. temp'[sym_eye'] = parent[sym_eye] /\ parent[sym_eye] # NULL
    BY <2>1, <1>1, <1>6 DEF ChildlessMethod, OneProgram
  <2> QED
    BY <2>1, <2>2, <1>1, <1>2, <1>3
<1>7. CASE ~ChildlessMethod(sym_eye)
  <2>1. sym_eye' = parent[sym_eye] /\ temp' = temp
    BY <1>2, <1>7 DEF Climb
  <2>2. sym_turn = 0
    <3> SUFFICES ASSUME sym_turn = 1 PROVE FALSE
      BY <1>1
    <3>1. child[sym_eye] = NULL /\ Owner = sym_eye
      BY <1>1 DEF TableInvariant, TurnIsFresh, Owner
    <3>2. pc = "ids"
      BY <1>1, <1>7, <3>1 DEF LeftOnce, ChildlessMethod
    <3>3. PICK e \in Inside(Owner) : TRUE
      BY <1>0, <3>2
    <3>4. e \in Entry /\ parent[e] = sym_eye
      BY <3>1, <3>3, Basics, <1>1 DEF Inside
    <3>5. child[sym_eye] \in 1 .. e
      BY <1>1, <3>4, Basics DEF ScopesAreChains
    <3> QED
      BY <3>1, <3>5 DEF NULL
  <2>3. Owner = parent[sym_eye]
    BY <1>1, <2>2 DEF Owner
  <2> QED
    BY <2>1, <2>3, <1>0, <1>2, <1>3, <1>4 DEF ChildlessMethod
<1> QED
  BY <1>5, <1>6, <1>7

\* An exit changes no entry.
LEMMA ExitKeepsDecl ==
  ASSUME DeclInvariant, Exit
  PROVE  DeclInvariant'
<1>0. /\ pc \in {"ids", "body"} /\ pc' = "body" /\ c' = c /\ check_exit_method
      /\ TableInvariant /\ OneProgram /\ sym_eye # NULL
      /\ DeclTypeOK /\ ParametersFollow /\ SiblingsAreDistinct
  <2>1. pc \in {"ids", "body"} /\ pc' = "body" /\ c' = c /\ check_exit_method
    BY DEF Exit, InBody
  <2> QED
    BY <2>1, Inner DEF DeclInvariant
<1>1. /\ UNCHANGED <<symbol, next, prev, parent, child, size, symbol_table, result>>
      /\ sym_turn' = 0 /\ sym_eye' # NULL
      /\ ChildlessMethod(sym_eye)' => temp'[sym_eye'] # NULL
  BY ExitFacts
<1>2. TableInvariant'
  BY <1>0, ExitMethodKeepsTable
<1>3. DeclTypeOK'
  BY <1>0, <1>1, <1>2 DEF DeclTypeOK, TableInvariant
<1>4. OneProgram' /\ LeftOnce' /\ NoMethodBeforeBody' /\ HeadIsLatest' /\ SiblingsAreDistinct'
  BY <1>0, <1>1
  DEF OneProgram, LeftOnce, NoMethodBeforeBody, HeadIsLatest, SiblingsAreDistinct, Allocated
<1>5. ParametersFollow'
  BY <1>0, <1>1 DEF ParametersFollow, Counted, Inside, Allocated
<1> QED
  BY <1>2, <1>3, <1>4, <1>5 DEF DeclInvariant

\* Before the first declaration.
LEMMA DeclInitHolds == DeclInit => DeclInvariant
<1> SUFFICES ASSUME DeclInit PROVE DeclInvariant
  OBVIOUS
<1>1. Init /\ pc = "start" /\ c = 0 /\ size = 0 /\ Allocated = {} /\ symbol_table = NULL /\ sym_eye = NULL
  BY DEF DeclInit, Init, Allocated
<1>2. TableInvariant
  BY <1>1, InitTable
<1>3. DeclTypeOK
  BY <1>1, <1>2 DEF DeclTypeOK, TableInvariant
<1>4. OneProgram /\ LeftOnce /\ NoMethodBeforeBody /\ HeadIsLatest /\ ParametersFollow /\ SiblingsAreDistinct
  BY <1>1 DEF OneProgram, LeftOnce, NoMethodBeforeBody, HeadIsLatest, ParametersFollow, SiblingsAreDistinct
<1> QED
  BY <1>2, <1>3, <1>4 DEF DeclInvariant

\* Every step of the parser keeps the invariant.
LEMMA DeclNextKeeps ==
  ASSUME DeclInvariant, [DeclNext]_declVars
  PROVE  DeclInvariant'
<1>1. ASSUME NEW n \in Name, EnterProgram(n) PROVE DeclInvariant'
  BY <1>1, EnterProgramKeepsDecl
<1>2. ASSUME NEW n \in Name, AddProgParam(n) PROVE DeclInvariant'
  <2>1. /\ pc = "ids" /\ pc' = "ids" /\ UNCHANGED c /\ check_add_var(n, "PGPARAM")
        /\ "PGPARAM" \in StdType
    BY <1>2 DEF AddProgParam, check_add_prog_param, StdType
  <2>2. Owner # NULL /\ \A e \in Inside(Owner) : symbol[e].fun = 0
    BY <2>1 DEF DeclInvariant, NoMethodBeforeBody, Inside
  <2> QED
    BY <2>1, <2>2, AddPlainKeepsDecl
<1>3. ASSUME NEW n \in Name, EnterFunction(n) PROVE DeclInvariant'
  BY <1>3, EnterFunctionKeepsDecl
<1>4. ASSUME NEW n \in Name, NEW t \in VarType, AddVar(n, t) PROVE DeclInvariant'
  <2>1. /\ pc \in {"ids", "body"} /\ pc' = "body" /\ UNCHANGED c /\ Owner # NULL
        /\ \A e \in Inside(Owner) : symbol[e].fun = 0
        /\ check_add_var(n, t) /\ t \in StdType
    BY <1>4 DEF AddVar, InBody, StdType
  <2> QED
    BY <2>1, AddPlainKeepsDecl
<1>5. ASSUME NEW n \in Name, NEW t \in VarType, AddFunParam(n, t) PROVE DeclInvariant'
  BY <1>5, AddFunParamKeepsDecl
<1>6. ASSUME NEW t \in VarType, SetMethodType(t) PROVE DeclInvariant'
  <2>1. pc = "head" /\ pc' = "typed" /\ UNCHANGED c /\ set_method_type(t)
    BY <1>6 DEF SetMethodType
  <2> DEFINE sym == [symbol[Owner] EXCEPT !.std_type = t, !.fun = 1]
  <2>2. Owner \in Allocated /\ MethodInView = Owner /\ symbol[Owner] \in Symbol
    BY <2>1, HeadFacts, Inner
  <2>3. UpdateMethod(sym)
    BY <2>1, <2>2 DEF set_method_type
  <2>4. sym \in Symbol /\ sym.name = symbol[Owner].name /\ sym.fun = 1 /\ sym.param = symbol[Owner].param
    BY <2>2 DEF Symbol, StdType
  <2> HIDE DEF sym
  <2> QED
    BY <2>1, <2>3, <2>4, SignatureKeepsDecl
<1>7. CASE SetMethodParamCount
  <2>1. pc = "typed" /\ pc' = "body" /\ UNCHANGED c /\ set_method_param_count(c)
    BY <1>7 DEF SetMethodParamCount
  <2> DEFINE sym == [symbol[Owner] EXCEPT !.count = c]
  <2>2. Owner \in Allocated /\ MethodInView = Owner /\ symbol[Owner] \in Symbol /\ symbol[Owner].fun = 1 /\ c \in Nat
    BY <2>1, HeadFacts, Inner
  <2>3. UpdateMethod(sym)
    BY <2>1, <2>2 DEF set_method_param_count
  <2>4. /\ sym \in Symbol /\ sym.name = symbol[Owner].name /\ sym.fun = 1
        /\ sym.param = symbol[Owner].param /\ sym.count = c
    BY <2>2 DEF Symbol
  <2> HIDE DEF sym
  <2> QED
    BY <2>1, <2>3, <2>4, SignatureKeepsDecl
<1>8. CASE Exit
  BY <1>8, ExitKeepsDecl
<1>9. CASE UNCHANGED declVars
  <2>1. /\ UNCHANGED <<symbol, next, prev, parent, child, temp, size, symbol_table>>
        /\ UNCHANGED <<sym_eye, sym_turn, result, pc, c>>
    BY <1>9 DEF declVars, vars, links
  <2>2. TableInvariant'
    <3>1. symbol' \in [Allocated -> Symbol] /\ result' \subseteq {"SEMERR"} /\ TableInvariant
      BY <2>1 DEF DeclInvariant, TableInvariant, TypeOK
    <3> QED
      BY <2>1, <3>1, SameShapeKeepsTable DEF links
  <2>3. DeclTypeOK'
    BY <2>1, <2>2 DEF DeclInvariant, DeclTypeOK, TableInvariant
  <2>4. /\ OneProgram' /\ LeftOnce' /\ NoMethodBeforeBody' /\ HeadIsLatest'
        /\ ParametersFollow' /\ SiblingsAreDistinct'
    BY <2>1 DEF DeclInvariant, OneProgram, LeftOnce, NoMethodBeforeBody, HeadIsLatest,
                ParametersFollow, SiblingsAreDistinct, Allocated, Inside, Counted, Owner,
                ChildlessMethod
  <2> QED
    BY <2>2, <2>3, <2>4 DEF DeclInvariant
<1> QED
  BY <1>1, <1>2, <1>3, <1>4, <1>5, <1>6, <1>7, <1>8, <1>9 DEF DeclNext

\* The invariant holds of every program without syntax errors: the table is
\* well linked, every method but an open one was left, a head is followed by its
\* parameters alone, and a name that is declared twice was reported.
THEOREM DeclarationsAreSound == DeclSpec => []DeclInvariant
<1>1. DeclInit => DeclInvariant
  BY DeclInitHolds
<1>2. DeclInvariant /\ [DeclNext]_declVars => DeclInvariant'
  BY DeclNextKeeps
<1> QED
  BY <1>1, <1>2, PTL DEF DeclSpec

\* check_add_var and check_enter_method: no two entries of a scope have the same
\* name unless an error was reported.
THEOREM NoSilentRedeclaration == DeclSpec => []SiblingsAreDistinct
<1>1. DeclInvariant => SiblingsAreDistinct
  BY DEF DeclInvariant
<1> QED
  BY <1>1, DeclarationsAreSound, PTL

-----------------------------------------------------------------------------
(* Lookups.                                                                *)

\* What the abstract scopes say of a name.
LEMMA ScopesAroundFacts ==
  ASSUME TableInvariant, symbol_table # NULL
  PROVE  /\ DOMAIN ScopesAround = 1 .. Len(Enclosing)
         /\ \A i \in 1 .. Len(Enclosing) :
              /\ ScopesAround[i] = ScopeOf(Enclosing[i])
              /\ \A name : Abstract!DeclaredIn(ScopesAround[i], name) =
                             {e \in Inside(Enclosing[i]) : symbol[e].name = name}
<1>1. Enclosing \in Seq(Link) /\ DOMAIN Enclosing = 1 .. Len(Enclosing)
  BY EnclosingIsOpen DEF IsPath
<1>2. ScopesAround = [i \in DOMAIN Enclosing |-> ScopeOf(Enclosing[i])]
  BY DEF ScopesAround
<1>3. \A m, name : Abstract!DeclaredIn(ScopeOf(m), name) = {e \in Inside(m) : symbol[e].name = name}
  <2> TAKE m, name
  <2>1. ASSUME NEW e \in Inside(m), symbol[e].name = name
        PROVE  e \in Abstract!DeclaredIn(ScopeOf(m), name)
    <3> DEFINE d == [name |-> symbol[e].name, id |-> e]
    <3>1. d \in ScopeOf(m) /\ d.name = name /\ d.id = e
      BY <2>1 DEF ScopeOf
    <3> QED
      BY <3>1 DEF Abstract!DeclaredIn
  <2>2. ASSUME NEW e \in Abstract!DeclaredIn(ScopeOf(m), name)
        PROVE  e \in Inside(m) /\ symbol[e].name = name
    BY DEF Abstract!DeclaredIn, ScopeOf
  <2> QED
    BY <2>1, <2>2
<1> QED
  BY <1>1, <1>2, <1>3

\* The maximum of a set with a greatest element.
LEMMA GreatestIsMax ==
  ASSUME NEW S, NEW m \in S, \A x \in S : x \in Nat /\ x <= m
  PROVE  Abstract!Max(S) = m
<1>1. \E x \in S : \A y \in S : x >= y
  OBVIOUS
<1>2. Abstract!Max(S) \in S /\ \A y \in S : Abstract!Max(S) >= y
  BY <1>1 DEF Abstract!Max
<1> QED
  BY <1>2

\* The latest declaration in view is the one of the innermost scope.
LEMMA InnermostIsLatest ==
  ASSUME DeclInvariant, NEW name
  PROVE  get_symbol(name, 1) = Abstract!Lookup(name)
<1>0. TableInvariant /\ OneProgram
  BY DEF DeclInvariant
<1> DEFINE found == get_symbol(name, 1)
           levels == {i \in DOMAIN ScopesAround : Abstract!DeclaredIn(ScopesAround[i], name) # {}}
<1>1. IsLatest(found, InView, name)
  BY <1>0, GlobalSearch
<1>2. Abstract!Lookup(name) =
        IF levels = {} THEN 0
        ELSE Abstract!Max(Abstract!DeclaredIn(ScopesAround[Abstract!Max(levels)], name))
  BY DEF Abstract!Lookup
<1> HIDE DEF found
<1>3. CASE symbol_table = NULL
  <2>1. ScopesAround = <<>>
    BY <1>3 DEF ScopesAround
  <2>2. levels = {}
    BY <2>1
  <2>3. found = NULL
    BY <1>0, <1>3 DEF OneProgram, found, get_symbol, NULL
  <2> QED
    BY <1>2, <2>2, <2>3 DEF found, NULL
<1>4. CASE symbol_table # NULL
  <2> DEFINE o == Enclosing
             Named(i) == {e \in Inside(o[i]) : symbol[e].name = name}
  <2>1. levels = {i \in 1 .. Len(o) : Named(i) # {}}
    BY <1>0, <1>4, ScopesAroundFacts
  <2>2. \A i \in 1 .. Len(o) : Abstract!DeclaredIn(ScopesAround[i], name) = Named(i)
    BY <1>0, <1>4, ScopesAroundFacts
  <2>3. \A i \in 1 .. Len(o) : Named(i) \subseteq InView /\ Named(i) \subseteq Inside(o[i])
    BY DEF Inside, InView
  <2>4. CASE found = NULL
    <3>1. levels = {}
      <4>1. \A e \in InView : symbol[e].name # name
        BY <1>1, <2>4, <1>0, Basics DEF IsLatest, InView
      <4> QED
        BY <2>1, <2>3, <4>1
    <3> QED
      BY <1>2, <2>4, <3>1 DEF found, NULL
  <2>5. CASE found # NULL
    <3>1. /\ found \in InView /\ symbol[found].name = name
          /\ \A e \in InView : symbol[e].name = name => e <= found
      BY <1>1, <2>5 DEF IsLatest
    <3>2. PICK i \in 1 .. Len(o) : parent[found] = o[i]
      BY <3>1 DEF InView
    <3>3. found \in Named(i) /\ found \in Nat
      BY <1>0, <3>1, <3>2, Basics DEF InView, Inside
    <3>4. \A j \in levels : j <= i
      <4> SUFFICES ASSUME NEW j \in levels, j > i PROVE FALSE
        BY <2>1
      <4>0. j \in 1 .. Len(o) /\ Named(j) # {}
        BY <2>1
      <4>1. PICK e \in Named(j) : TRUE
        BY <4>0
      <4>2. j \in 1 .. Len(o) /\ j \in i + 1 .. Len(o)
        BY <4>0
      <4>3. e \in Inside(o[j]) /\ e \in InView /\ symbol[e].name = name
        BY <2>3, <4>1, <4>2
      <4>4. o[j] < e /\ found <= o[j]
        BY <1>0, <3>2, <3>3, <4>2, <4>3, ScopesAreNested
      <4>5. o[j] \in Nat /\ e \in Nat
        <5>1. o \in Seq(Link)
          BY <1>0, EnclosingIsOpen DEF IsPath
        <5> QED
          BY <5>1, <4>2, <4>3, <1>0, Basics DEF InView
      <4>6. e <= found
        BY <3>1, <4>3
      <4> QED
        BY <3>3, <4>4, <4>5, <4>6
    <3>5. i \in levels /\ \A j \in levels : j \in Nat
      <4> HIDE DEF levels, Named
      <4> QED
        BY <2>1, <3>2, <3>3
    <3>6. Abstract!Max(levels) = i
      <4> HIDE DEF levels
      <4> QED
        BY <3>4, <3>5, GreatestIsMax
    <3>7. \A e \in Named(i) : e <= found /\ e \in Nat
      BY <1>0, <2>3, <3>1, <3>2, Basics DEF InView
    <3>8. Abstract!Max(Named(i)) = found
      <4> HIDE DEF Named
      <4> QED
        BY <3>3, <3>7, GreatestIsMax
    <3>9. levels # {}
      BY <3>5
    <3> HIDE DEF levels, Named
    <3> QED
      BY <1>2, <2>2, <3>2, <3>6, <3>8, <3>9 DEF found
  <2> QED
    BY <2>4, <2>5
<1> QED
  BY <1>3, <1>4

\* get_symbol with global_scope 1 finds the innermost visible declaration,
\* wherever the eye is and however the methods before it were left.
THEOREM LookupFindsInnermost == DeclSpec => []LookupIsInnermost
<1>1. DeclInvariant => LookupIsInnermost
  BY InnermostIsLatest DEF LookupIsInnermost
<1> QED
  BY <1>1, DeclarationsAreSound, PTL

-----------------------------------------------------------------------------
(* The refinement of the scope stack.                                      *)

\* Abstract scopes.
Scope == SUBSET [name : Name, id : Nat]

\* What the refinement mapping rests on, in this state and in the next.
MappingRule ==
  /\ PathTo(NULL) = <<NULL>>
  /\ \A m \in Entry : PathTo(m) = Append(PathTo(parent[m]), m)
  /\ IsPath(Enclosing, Owner)
  /\ \A m : ScopeOf(m) \in Scope
  /\ symbol_table # NULL =>
       /\ ScopesAround \in Seq(Scope) /\ Len(ScopesAround) = Len(Enclosing)
       /\ \A i \in 1 .. Len(Enclosing) : ScopesAround[i] = ScopeOf(Enclosing[i])

\* The facts of the mapping follow from the invariant of the table.
LEMMA MappingHolds == TableInvariant => MappingRule
<1> SUFFICES ASSUME TableInvariant PROVE MappingRule
  OBVIOUS
<1>1. /\ PathTo(NULL) = <<NULL>>
      /\ \A m \in Entry : PathTo(m) = Append(PathTo(parent[m]), m)
  BY Basics, PathToDef
<1>2. IsPath(Enclosing, Owner)
  BY EnclosingIsOpen
<1>3. \A m : ScopeOf(m) \in Scope
  <2> TAKE m
  <2>1. \A e \in Inside(m) : [name |-> symbol[e].name, id |-> e] \in [name : Name, id : Nat]
    BY Basics DEF Inside, TypeOK, Symbol
  <2> QED
    BY <2>1 DEF ScopeOf, Scope
<1>4. ASSUME symbol_table # NULL
      PROVE  /\ ScopesAround \in Seq(Scope) /\ Len(ScopesAround) = Len(Enclosing)
             /\ \A i \in 1 .. Len(Enclosing) : ScopesAround[i] = ScopeOf(Enclosing[i])
  <2>1. Len(Enclosing) \in Nat /\ DOMAIN Enclosing = 1 .. Len(Enclosing)
    BY <1>2 DEF IsPath
  <2>2. ScopesAround = [i \in 1 .. Len(Enclosing) |-> ScopeOf(Enclosing[i])]
    BY <1>4, <2>1 DEF ScopesAround
  <2>3. ScopesAround \in [1 .. Len(Enclosing) -> Scope]
    BY <1>3, <2>2
  <2>4. ScopesAround \in Seq(Scope)
    BY <2>1, <2>3, IsASeq
  <2>5. Len(ScopesAround) = Len(Enclosing)
    BY <2>1, <2>3, <2>4, LenProperties
  <2> QED
    BY <2>2, <2>4, <2>5
<1> QED
  BY <1>1, <1>2, <1>3, <1>4 DEF MappingRule

\* The same of the next state.
LEMMA MappingHoldsNext == TableInvariant' => MappingRule'
<1>1. TableInvariant => MappingRule
  BY MappingHolds
<1> QED
  BY <1>1, PTL

\* The way to a method never changes.
LEMMA PathKept ==
  ASSUME TableInvariant, TableInvariant', \A e \in Allocated : parent'[e] = parent[e]
  PROVE  \A m \in Allocated \cup {NULL} : PathTo(m)' = PathTo(m)
<1> DEFINE D   == Allocated \cup {NULL}
           mu  == [m \in D |-> m]
           Odd == {m \in D : PathTo(m)' # PathTo(m)}
<1>0. D \subseteq Link /\ \A m \in D : m \in Nat
  BY Basics DEF Link
<1>1. mu \in [D -> Nat] /\ Odd \in SUBSET D
  BY <1>0
<1> SUFFICES ASSUME Odd # {} PROVE FALSE
  OBVIOUS
<1>2. PICK m \in Odd : \A k \in D : mu[k] < mu[m] => k \notin Odd
  <2> HIDE DEF mu, Odd, D
  <2> QED
    BY <1>1, LeastMeasure
<1>3. m \in D /\ PathTo(m)' # PathTo(m)
  OBVIOUS
<1>4. PathTo(NULL)' = PathTo(NULL)
  BY MappingHolds, MappingHoldsNext DEF MappingRule
<1>5. m \in Allocated /\ m \in Entry
  BY <1>3, <1>4, Basics
<1>6. parent[m] \in D /\ parent[m] < m /\ parent'[m] = parent[m]
  BY <1>5, Basics DEF Allocated, Link, Entry
<1>7. PathTo(parent[m])' = PathTo(parent[m])
  <2>1. PICK p : p = parent[m]
    OBVIOUS
  <2>2. PathTo(p)' = PathTo(p)
    BY <1>2, <1>3, <1>6, <2>1
  <2> QED
    BY <1>6, <2>1, <2>2
<1>8. PathTo(m)' = Append(PathTo(parent[m])', m) /\ PathTo(m) = Append(PathTo(parent[m]), m)
  BY <1>5, MappingHolds, MappingHoldsNext DEF MappingRule
<1> QED
  BY <1>3, <1>7, <1>8

\* The duplicate a declaration is reported for.
LEMMA ClashIsLocal ==
  ASSUME DeclInvariant, symbol_table # NULL, NEW name
  PROVE  Abstract!Clash(name) <=>
           \/ \E e \in Inside(Owner) : symbol[e].name = name
           \/ Owner = 1 /\ Inside(Owner) = {} /\ symbol[1].name = name
<1> DEFINE o == Enclosing
<1>0. TableInvariant /\ OneProgram /\ size >= 1 /\ 1 \in Allocated
  BY Inner DEF DeclInvariant, OneProgram, NULL
<1>1. /\ IsPath(o, Owner)
      /\ ScopesAround \in Seq(Scope) /\ Len(ScopesAround) = Len(o)
      /\ \A i \in 1 .. Len(o) : /\ ScopesAround[i] = ScopeOf(o[i])
                                /\ Abstract!DeclaredIn(ScopesAround[i], name) =
                                     {e \in Inside(o[i]) : symbol[e].name = name}
  BY <1>0, MappingHolds, ScopesAroundFacts DEF MappingRule
<1> HIDE DEF o
<1>2. o \in Seq(Link) /\ Len(o) \in Nat /\ Len(o) >= 1 /\ o[1] = NULL /\ o[Len(o)] = Owner
  BY <1>1 DEF IsPath
<1>3. Abstract!Top = ScopeOf(Owner) /\ Abstract!DeclaredIn(Abstract!Top, name) = {e \in Inside(Owner) : symbol[e].name = name}
  <2>1. Abstract!Top = ScopesAround[Len(o)]
    BY <1>1 DEF Abstract!Top
  <2> QED
    BY <1>1, <1>2, <2>1
<1>4. Abstract!Top = {} <=> Inside(Owner) = {}
  BY <1>3 DEF ScopeOf
<1>5. Len(o) = 2 <=> Owner = 1
  <2>1. ASSUME Len(o) = 2 PROVE Owner = 1
    <3>1. o[2] = Owner /\ o[2] \in Entry /\ parent[o[2]] = o[1]
      BY <1>1, <1>2, <2>1 DEF IsPath
    <3>2. Owner \in Allocated
      BY <1>0, <1>2, <2>1, EnclosingIsOpen DEF o
    <3> QED
      BY <1>0, <1>2, <3>1, <3>2 DEF OneProgram
  <2>2. ASSUME Owner = 1 PROVE Len(o) = 2
    <3>1. Len(o) \in 2 .. Len(o)
      BY <1>2, <2>2 DEF NULL
    <3>2. parent[1] = o[Len(o) - 1] /\ parent[1] = NULL
      BY <1>0, <1>1, <1>2, <2>2, <3>1 DEF IsPath, OneProgram
    <3>3. ~(1 < Len(o) - 1)
      <4> SUFFICES ASSUME 1 < Len(o) - 1 PROVE FALSE
        OBVIOUS
      <4>1. 1 \in 1 .. Len(o) /\ Len(o) - 1 \in 1 .. Len(o)
        BY <1>2, <3>1
      <4>2. o[1] < o[Len(o) - 1]
        BY <1>1, <4>1 DEF IsPath
      <4>3. o[1] = 0 /\ o[Len(o) - 1] = 0
        BY <1>2, <3>2 DEF NULL
      <4> QED
        BY <4>2, <4>3
    <3>4. \A l \in Nat : l \in 2 .. l /\ ~(1 < l - 1) => l = 2
      OBVIOUS
    <3> QED
      BY <1>2, <3>1, <3>3, <3>4
  <2> QED
    BY <2>1, <2>2
<1>6. Abstract!DeclaredIn(ScopesAround[1], name) # {} <=> symbol[1].name = name
  <2>1. Inside(NULL) = {1}
    BY <1>0 DEF Inside, OneProgram
  <2>2. Abstract!DeclaredIn(ScopesAround[1], name) = {e \in Inside(NULL) : symbol[e].name = name}
    BY <1>1, <1>2
  <2> QED
    BY <2>1, <2>2
<1>7. Abstract!ProgramNameClash(name) <=> Owner = 1 /\ Inside(Owner) = {} /\ symbol[1].name = name
  BY <1>1, <1>4, <1>5, <1>6 DEF Abstract!ProgramNameClash
<1>8. Abstract!DeclaredIn(Abstract!Top, name) # {} <=> \E e \in Inside(Owner) : symbol[e].name = name
  BY <1>3
<1> QED
  BY <1>7, <1>8 DEF Abstract!Clash

\* The scopes are not empty inside the program.
LEMMA InsideTheProgram ==
  ASSUME TableInvariant, Owner # NULL
  PROVE  Len(Enclosing) >= 2 /\ Len(Enclosing) \in Nat
BY EnclosingIsOpen DEF IsPath

\* One more declaration in the innermost scope.
LEMMA ExtendedScopes ==
  ASSUME DeclInvariant, DeclInvariant', Owner # NULL, NEW n, symbol_table # NULL,
         NEW sym, sym.name = n, NewEntry(sym, Place),
         NEW i \in 1 .. Len(Enclosing)
  PROVE  \A m : m = Enclosing[i] => ScopeOf(m)' = Abstract!Extended(n)[i]
<1>0. TableInvariant /\ TableInvariant' /\ sym_eye # NULL /\ size \in Nat
  BY Basics DEF DeclInvariant, Owner
<1> DEFINE o == Enclosing
<1>1. /\ IsPath(o, Owner)
      /\ ScopesAround \in Seq(Scope) /\ Len(ScopesAround) = Len(o)
      /\ \A j \in 1 .. Len(o) : ScopesAround[j] = ScopeOf(o[j])
  BY <1>0, MappingHolds DEF MappingRule
<1> HIDE DEF o
<1>2. o \in Seq(Link) /\ Len(o) \in Nat /\ Len(o) >= 1 /\ o[Len(o)] = Owner /\ i \in 1 .. Len(o)
  BY <1>1 DEF IsPath, o
<1>3. Abstract!Extended(n)[i] =
        IF i = Len(o) THEN ScopeOf(o[i]) \cup {[name |-> n, id |-> size + 1]} ELSE ScopeOf(o[i])
  <2>1. ScopesAround[i] = ScopeOf(o[i]) /\ i \in DOMAIN ScopesAround
    BY <1>1, <1>2
  <2> QED
    BY <1>1, <2>1 DEF Abstract!Extended
<1>4. SUFFICES ASSUME NEW m, m = o[i]
               PROVE  ScopeOf(m)' = Abstract!Extended(n)[i]
  BY DEF o
<1>5. ScopeOf(m)' = {[name |-> symbol'[e].name, id |-> e] : e \in Inside(m)'}
  BY DEF ScopeOf
<1>6. \A e \in Inside(m) : symbol'[e] = symbol[e]
  BY <1>0, NewDeclaration DEF Inside
<1>7. CASE i = Len(o)
  <2>1. Inside(m)' = Inside(m) \cup {size + 1} /\ symbol'[size + 1] = sym
    BY <1>0, <1>2, <1>4, <1>7, NewDeclaration
  <2>2. ScopeOf(m)' = ScopeOf(m) \cup {[name |-> n, id |-> size + 1]}
    BY <1>5, <1>6, <2>1 DEF ScopeOf
  <2> QED
    BY <1>3, <1>4, <1>7, <2>2
<1>8. CASE i # Len(o)
  <2>1. o[i] # Owner
    <3>1. Len(o) \in 1 .. Len(o) /\ o[i] \in Nat /\ o[i] < o[Len(o)]
      BY <1>0, <1>1, <1>2, <1>8, Basics DEF IsPath
    <3> QED
      BY <1>2, <3>1
  <2>2. Inside(m)' = Inside(m)
    BY <1>0, <1>4, <2>1, NewDeclaration
  <2>3. ScopeOf(m)' = ScopeOf(m)
    BY <1>5, <1>6, <2>2 DEF ScopeOf
  <2> QED
    BY <1>3, <1>4, <1>8, <2>3
<1> QED
  BY <1>7, <1>8

\* check_add_var and its kin declare in the innermost scope.
LEMMA DeclareRefines ==
  ASSUME DeclInvariant, DeclInvariant', Owner # NULL, NEW n \in Name,
         \A e \in Inside(Owner) : symbol[e].fun = 0,
         NEW sym, sym.name = n, NewEntry(sym, Place), semerr(get_symbol(n, 0) # NULL),
         sym_turn' = 0, UNCHANGED symbol_table, symbol_table # NULL
  PROVE  Abstract!Declare(n)
<1>0. /\ TableInvariant /\ TableInvariant' /\ OneProgram /\ LeftOnce
      /\ sym_eye # NULL /\ size \in Nat /\ Owner \in Allocated
  BY Basics, EnclosingIsOpen DEF DeclInvariant, Owner, IsPath, Allocated
<1>1. Len(ScopesAround) >= 2
  BY <1>0, InsideTheProgram, MappingHolds DEF MappingRule
<1>2. size' = size + 1
  BY <1>0, NewDeclaration
<1>3. ("SEMERR" \in result') = ("SEMERR" \in result \/ Abstract!Clash(n))
  <2>1. get_symbol(n, 0) # NULL <=> Abstract!Clash(n)
    BY <1>0, LocalSearch, ClashIsLocal
  <2>2. ("SEMERR" \in result') = ("SEMERR" \in result \/ get_symbol(n, 0) # NULL)
    BY SemerrFact
  <2> QED
    BY <2>1, <2>2
<1>4. ScopesAround' = Abstract!Extended(n)
  <2>1. Owner' = Owner
    <3>1. Owner' = parent'[sym_eye'] /\ sym_eye' # NULL
      BY <1>0, NewDeclaration, Basics DEF Owner
    <3> QED
      BY <3>1, <1>0, NewDeclaration
  <2>2. Enclosing' = Enclosing
    <3>1. \A e \in Allocated : parent'[e] = parent[e]
      BY <1>0, NewDeclaration, Basics
    <3>2. PICK m : m = Owner
      OBVIOUS
    <3>3. PathTo(m)' = PathTo(m)
      BY <1>0, <3>1, <3>2, PathKept
    <3> QED
      BY <2>1, <3>2, <3>3 DEF Enclosing
  <2> DEFINE k == Len(Enclosing)
  <2>3. /\ ScopesAround \in Seq(Scope) /\ Len(ScopesAround) = k /\ k \in Nat
        /\ ScopesAround' \in Seq(Scope) /\ Len(ScopesAround') = k
        /\ \A i \in 1 .. k : ScopesAround'[i] = ScopeOf(Enclosing[i])'
    BY <1>0, <2>2, MappingHolds, MappingHoldsNext, InsideTheProgram DEF MappingRule, Scope
  <2>4. ASSUME NEW i \in 1 .. k PROVE ScopesAround'[i] = Abstract!Extended(n)[i]
    <3>1. PICK m : m = Enclosing[i]
      OBVIOUS
    <3>2. ScopeOf(m)' = Abstract!Extended(n)[i]
      BY <3>1, ExtendedScopes
    <3>3. m = Enclosing'[i]
      BY <2>2, <3>1
    <3> QED
      BY <2>3, <3>2, <3>3
  <2>5. DOMAIN ScopesAround' = 1 .. k /\ DOMAIN Abstract!Extended(n) = 1 .. k
    BY <2>3 DEF Abstract!Extended
  <2>6. ScopesAround' = [i \in 1 .. k |-> ScopesAround'[i]]
    BY <2>3
  <2>7. Abstract!Extended(n) = [i \in 1 .. k |-> Abstract!Extended(n)[i]]
    <3>1. \A f, d, v : [f EXCEPT ![d] = v] = [x \in DOMAIN f |-> [f EXCEPT ![d] = v][x]]
      OBVIOUS
    <3>2. DOMAIN ScopesAround = 1 .. k
      BY <2>3
    <3>3. PICK d, v : Abstract!Extended(n) = [ScopesAround EXCEPT ![d] = v]
      BY DEF Abstract!Extended
    <3> HIDE DEF k
    <3> QED
      BY <3>1, <3>2, <3>3
  <2> DEFINE new == Abstract!Extended(n)
  <2> HIDE DEF new, k
  <2>8. ScopesAround' = [i \in 1 .. k |-> new[i]]
    BY <2>4, <2>6 DEF new
  <2> QED
    BY <2>7, <2>8 DEF new
<1> QED
  BY <1>1, <1>2, <1>3, <1>4 DEF Abstract!Declare

\* Entering a function declares its name and opens a scope.
LEMMA EnterMethodRefines ==
  ASSUME DeclInvariant, DeclInvariant', NEW n \in Name, EnterFunction(n)
  PROVE  Abstract!EnterMethod(n)
<1>0. /\ pc # "start" /\ Owner # NULL /\ check_enter_method(n) /\ TableInvariant /\ TableInvariant'
      /\ sym_eye # NULL /\ symbol_table = 1 /\ size \in Nat /\ Owner \in Allocated
  <2>1. pc # "start" /\ Owner # NULL /\ check_enter_method(n)
    BY DEF EnterFunction, InBody
  <2> QED
    BY <2>1, Basics, EnclosingIsOpen, Inner DEF DeclInvariant, OneProgram, Owner, Allocated
<1> DEFINE sym == [name |-> n, std_type |-> "NONE", fun |-> 1, count |-> 0, param |-> 0]
<1>1. /\ semerr(get_symbol(n, 1) # NULL) /\ NewEntry(sym, Place)
      /\ sym_turn' = 1 /\ symbol_table' = symbol_table /\ symbol_table # NULL
  <2>1. symbol_table # NULL
    BY <1>0 DEF NULL
  <2>2. MethodSymbol(n) = sym
    BY <1>0 DEF MethodSymbol
  <2> HIDE DEF sym
  <2> QED
    BY <1>0, <2>1, <2>2 DEF check_enter_method
<1>2. sym.name = n
  OBVIOUS
<1> HIDE DEF sym
<1>3. /\ size' = size + 1 /\ sym_eye' = size + 1 /\ size + 1 \in Entry
      /\ parent'[size + 1] = Owner /\ \A e \in Allocated : parent'[e] = parent[e]
  BY <1>0, <1>1, NewDeclaration, Basics
<1>4. ("SEMERR" \in result') = ("SEMERR" \in result \/ Abstract!Lookup(n) # 0)
  <2>1. get_symbol(n, 1) = Abstract!Lookup(n)
    BY InnermostIsLatest
  <2>2. ("SEMERR" \in result') = ("SEMERR" \in result \/ get_symbol(n, 1) # NULL)
    BY <1>1, SemerrFact
  <2> QED
    BY <2>1, <2>2 DEF NULL
<1> DEFINE k == Len(Enclosing)
<1>5. /\ Len(ScopesAround) = k /\ k >= 2 /\ k \in Nat /\ ScopesAround \in Seq(Scope)
      /\ IsPath(Enclosing, Owner)
  BY <1>0, <1>1, InsideTheProgram, MappingHolds DEF MappingRule
<1>6. Enclosing' = Append(Enclosing, size + 1)
  <2>1. Owner' = size + 1
    BY <1>1, <1>3, <1>0, Basics DEF Owner
  <2>2. PICK m : m = Owner
    OBVIOUS
  <2>3. PathTo(m)' = PathTo(m)
    BY <1>0, <1>3, <2>2, PathKept
  <2>4. PICK new : new = size + 1
    OBVIOUS
  <2>5. PathTo(new)' = Append(PathTo(parent[new])', new)
    BY <1>0, <1>3, <2>4, MappingHoldsNext DEF MappingRule
  <2>6. PathTo(parent[new])' = PathTo(m)'
    BY <1>3, <2>2, <2>4
  <2>7. Enclosing' = PathTo(new)'
    BY <2>1, <2>4 DEF Enclosing
  <2> QED
    BY <2>2, <2>3, <2>4, <2>5, <2>6, <2>7 DEF Enclosing
<1>7. /\ Len(Enclosing') = k + 1 /\ Enclosing'[k + 1] = size + 1
      /\ \A i \in 1 .. k : Enclosing'[i] = Enclosing[i]
  <2>1. Enclosing \in Seq(Link) /\ size + 1 \in Link
    BY <1>3, <1>5 DEF IsPath, Link
  <2> QED
    BY <1>6, <2>1, AppendProperties
<1>8. /\ ScopesAround' \in Seq(Scope) /\ Len(ScopesAround') = k + 1
      /\ \A i \in 1 .. k + 1 : ScopesAround'[i] = ScopeOf(Enclosing[i])'
  BY <1>0, <1>1, <1>5, <1>7, MappingHoldsNext DEF MappingRule, Scope
<1>9. ASSUME NEW i \in 1 .. k PROVE ScopesAround'[i] = Abstract!Extended(n)[i]
  <2>1. PICK m : m = Enclosing[i]
    OBVIOUS
  <2>2. ScopeOf(m)' = Abstract!Extended(n)[i]
    BY <1>0, <1>1, <1>2, <2>1, ExtendedScopes
  <2>3. m = Enclosing'[i] /\ i \in 1 .. k + 1
    BY <1>5, <1>7, <2>1
  <2> QED
    BY <1>8, <2>2, <2>3
<1>10. ScopesAround'[k + 1] = {}
  <2>1. PICK new : new = size + 1
    OBVIOUS
  <2>2. Inside(new)' = {}
    BY <1>0, <1>1, <2>1, NothingInsideNew
  <2>3. ScopeOf(new)' = {}
    BY <2>2 DEF ScopeOf
  <2>4. new = Enclosing'[k + 1] /\ k + 1 \in 1 .. k + 1
    BY <1>5, <1>7, <2>1
  <2> QED
    BY <1>8, <2>3, <2>4
<1>11. ScopesAround' = Append(Abstract!Extended(n), {})
  <2> DEFINE old == Abstract!Extended(n)
  <2>1. DOMAIN old = 1 .. k
    BY <1>5 DEF Abstract!Extended
  <2>2. \A i \in 1 .. k : old[i] = ScopesAround'[i] /\ ScopesAround'[i] \in Scope
    BY <1>5, <1>8, <1>9
  <2>3. old \in [1 .. k -> Scope]
    <3>1. \A f, d, v : [f EXCEPT ![d] = v] = [x \in DOMAIN f |-> [f EXCEPT ![d] = v][x]]
      OBVIOUS
    <3>2. DOMAIN ScopesAround = 1 .. k
      BY <1>5
    <3>3. PICK d, v : old = [ScopesAround EXCEPT ![d] = v]
      BY DEF Abstract!Extended
    <3> HIDE DEF k, old
    <3> QED
      BY <2>2, <3>1, <3>2, <3>3
  <2> HIDE DEF old, k
  <2>4. old \in Seq(Scope) /\ Len(old) = k
    BY <1>5, <2>1, <2>3, IsASeq, LenProperties
  <2>5. {} \in Scope
    BY DEF Scope
  <2>6. /\ Append(old, {}) \in Seq(Scope) /\ Len(Append(old, {})) = k + 1
        /\ \A i \in 1 .. k : Append(old, {})[i] = old[i]
        /\ Append(old, {})[k + 1] = {}
    BY <2>4, <2>5, AppendProperties
  <2>7. \A i \in 1 .. k + 1 : Append(old, {})[i] = ScopesAround'[i]
    <3> TAKE i \in 1 .. k + 1
    <3>1. i \in 1 .. k \/ i = k + 1
      BY <1>5
    <3> QED
      BY <1>10, <2>2, <2>6, <3>1
  <2> QED
    BY <1>8, <2>6, <2>7, SeqEqual DEF old
<1> QED
  BY <1>3, <1>4, <1>5, <1>11 DEF Abstract!EnterMethod

\* An exit leaves the innermost scope.
LEMMA LeaveRefines ==
  ASSUME DeclInvariant, DeclInvariant', Exit
  PROVE  Abstract!Leave
<1>0. /\ TableInvariant /\ TableInvariant' /\ Owner # NULL /\ symbol_table # NULL
      /\ Owner \in Entry
  <2>1. pc # "start" /\ Owner # NULL
    BY DEF Exit, InBody
  <2> QED
    BY <2>1, Basics DEF DeclInvariant, OneProgram, NULL, Link
<1>1. /\ UNCHANGED <<symbol, next, prev, parent, child, size, symbol_table, result>>
      /\ Owner' = parent[Owner]
  BY ExitFacts
<1> DEFINE k == Len(Enclosing)
<1>2. /\ Len(ScopesAround) = k /\ k >= 2 /\ k \in Nat /\ ScopesAround \in Seq(Scope)
      /\ \A i \in 1 .. k : ScopesAround[i] = ScopeOf(Enclosing[i])
  BY <1>0, InsideTheProgram, MappingHolds DEF MappingRule
<1>3. Enclosing = Append(PathTo(parent[Owner]), Owner)
  BY <1>0, MappingHolds DEF MappingRule, Enclosing
<1>4. Enclosing' = PathTo(parent[Owner])
  <2>1. PICK m : m = parent[Owner]
    OBVIOUS
  <2>2. m \in Allocated \cup {NULL}
    <3>1. Owner \in Allocated
      BY <1>0, Basics DEF Owner, Allocated, Link, Entry
    <3> QED
      BY <1>0, <2>1, <3>1, Basics DEF Allocated, Link, Entry
  <2>3. PathTo(m)' = PathTo(m)
    BY <1>0, <1>1, <2>2, PathKept
  <2> QED
    BY <1>1, <2>1, <2>3 DEF Enclosing
<1>5. Enclosing' \in Seq(Link) /\ Owner \in Link
  <2>1. MappingRule'
    BY <1>0, MappingHoldsNext
  <2> QED
    BY <2>1, <1>0 DEF MappingRule, IsPath, Link, Entry
<1>6. Len(Enclosing') = k - 1 /\ \A i \in 1 .. k - 1 : Enclosing'[i] = Enclosing[i]
  <2>1. Enclosing = Append(Enclosing', Owner)
    BY <1>3, <1>4
  <2> QED
    BY <2>1, <1>2, <1>5, AppendProperties
<1>7. /\ ScopesAround' \in Seq(Scope) /\ Len(ScopesAround') = k - 1
      /\ \A i \in 1 .. k - 1 : ScopesAround'[i] = ScopeOf(Enclosing[i])'
  BY <1>0, <1>1, <1>6, MappingHoldsNext DEF MappingRule, Scope
<1>8. ASSUME NEW i \in 1 .. k - 1 PROVE ScopesAround'[i] = ScopesAround[i]
  <2>1. PICK m : m = Enclosing[i]
    OBVIOUS
  <2>2. ScopeOf(m)' = ScopeOf(m)
    BY <1>1 DEF ScopeOf, Inside, Allocated
  <2>3. m = Enclosing'[i] /\ i \in 1 .. k
    BY <1>2, <1>6, <2>1
  <2> QED
    BY <1>2, <1>7, <2>1, <2>2, <2>3
<1>9. ScopesAround' = SubSeq(ScopesAround, 1, k - 1)
  <2> DEFINE sub == SubSeq(ScopesAround, 1, k - 1)
  <2> HIDE DEF k
  <2>1. \A i \in 1 .. k - 1 : ScopesAround[i] \in Scope
    BY <1>2
  <2>2. 1 \in Int /\ k - 1 \in Int /\ 1 <= k - 1 /\ k - 1 - 1 + 1 = k - 1
    BY <1>2
  <2>3. /\ sub \in Seq(Scope) /\ Len(sub) = k - 1
        /\ \A i \in 1 .. k - 1 : sub[i] = ScopesAround[i]
    BY <2>1, <2>2, SubSeqProperties
  <2> HIDE DEF sub
  <2> QED
    BY <1>7, <1>8, <2>3, SeqEqual DEF sub
<1> QED
  BY <1>1, <1>2, <1>9 DEF Abstract!Leave

\* A pair is what appending to a single element makes.
LEMMA PairIsAppend == \A a, b : Append(<<a>>, b) = <<a, b>>
<1> SUFFICES ASSUME NEW a, NEW b PROVE Append(<<a>>, b) = <<a, b>>
  OBVIOUS
<1> DEFINE S == {a, b}
           one == <<a>>
           two == <<a, b>>
<1>1. a \in S /\ b \in S /\ one \in Seq(S) /\ two \in Seq(S)
  OBVIOUS
<1>2. Len(one) = 1 /\ one[1] = a /\ Len(two) = 2 /\ two[1] = a /\ two[2] = b
  OBVIOUS
<1> HIDE DEF S, one, two
<1>3. /\ Append(one, b) \in Seq(S) /\ Len(Append(one, b)) = Len(one) + 1
      /\ \A i \in 1 .. Len(one) : Append(one, b)[i] = one[i]
      /\ Append(one, b)[Len(one) + 1] = b
  BY <1>1, AppendProperties
<1>4. Len(one) + 1 = 2 /\ 1 \in 1 .. Len(one)
  BY <1>2
<1>5. Len(Append(one, b)) = 2 /\ Append(one, b)[1] = a /\ Append(one, b)[2] = b
  BY <1>2, <1>3, <1>4
<1>6. ASSUME NEW i \in 1 .. Len(two) PROVE Append(one, b)[i] = two[i]
  <2>1. i = 1 \/ i = 2
    BY <1>2
  <2> QED
    BY <1>2, <1>5, <2>1
<1>7. Append(one, b) = two
  BY <1>1, <1>2, <1>3, <1>5, <1>6, SeqEqual
<1> QED
  BY <1>7 DEF one, two

\* The program name is alone in the outermost scope.
LEMMA EnterProgramRefines ==
  ASSUME DeclInvariant, DeclInvariant', NEW n \in Name, EnterProgram(n)
  PROVE  Abstract!EnterProgram(n)
<1>0. /\ pc' = "ids" /\ check_enter_method(n)
      /\ TableInvariant /\ TableInvariant' /\ size = 0 /\ symbol_table = NULL /\ sym_eye = NULL
  BY DEF DeclInvariant, OneProgram, EnterProgram
<1> DEFINE sym == [name |-> n, std_type |-> "PGNAME", fun |-> 0, count |-> 0, param |-> 0]
<1>1. NewEntry(sym, "nowhere") /\ sym_turn' = 1 /\ symbol_table' = 1 /\ semerr(get_symbol(n, 1) # NULL)
  <2>1. MethodSymbol(n) = sym
    BY <1>0 DEF MethodSymbol
  <2> HIDE DEF sym
  <2> QED
    BY <1>0, <2>1 DEF check_enter_method
<1>2. sym.name = n
  OBVIOUS
<1> HIDE DEF sym
<1>3. /\ size' = 1 /\ sym_eye' = 1 /\ Allocated' = {1} /\ symbol'[1] = sym
      /\ parent' = parent /\ 1 \in Entry /\ parent[1] = NULL
  <2>1. size + 1 = 1 /\ size + 1 \in Entry /\ parent[size + 1] = NULL
    BY <1>0, <1>1, FreshEntry DEF NewEntry, TableInvariant
  <2>2. /\ size' = 1 /\ sym_eye' = 1 /\ parent' = parent
        /\ symbol' = [e \in 1 .. 1 |-> IF e = 1 THEN sym ELSE symbol[e]]
    BY <2>1, <1>1 DEF NewEntry
  <2> QED
    BY <2>1, <2>2 DEF Allocated
<1>4. result' = result
  BY <1>0, <1>1 DEF semerr, get_symbol
<1>5. Enclosing' = <<NULL, 1>>
  <2>1. Owner' = 1
    BY <1>1, <1>3 DEF Owner, NULL
  <2>2. PICK m : m = 1
    OBVIOUS
  <2>3. MappingRule'
    BY <1>0, MappingHoldsNext
  <2>4. PathTo(m)' = Append(PathTo(parent[m])', m)
    BY <1>3, <2>2, <2>3 DEF MappingRule
  <2>5. PathTo(parent[m])' = PathTo(NULL)'
    BY <1>3, <2>2
  <2>6. PathTo(NULL)' = <<NULL>>
    BY <2>3 DEF MappingRule
  <2>7. Enclosing' = PathTo(m)'
    BY <2>1, <2>2 DEF Enclosing
  <2>8. PathTo(m)' = Append(<<NULL>>, m)
    BY <2>4, <2>5, <2>6
  <2>9. Append(<<NULL>>, m) = <<NULL, m>>
    BY PairIsAppend
  <2>10. <<NULL, m>> = <<NULL, 1>>
    BY <2>2
  <2> QED
    BY <2>7, <2>8, <2>9, <2>10
<1>6. /\ ScopesAround' \in Seq(Scope) /\ Len(ScopesAround') = 2
      /\ \A i \in 1 .. 2 : ScopesAround'[i] = ScopeOf(Enclosing[i])'
  <2>1. Len(Enclosing') = 2
    BY <1>5
  <2>2. symbol_table' # NULL
    BY <1>1 DEF NULL
  <2> QED
    BY <1>0, <2>1, <2>2, MappingHoldsNext DEF MappingRule, Scope
<1>7. ScopesAround'[1] = {[name |-> n, id |-> size + 1]}
  <2>1. PICK m : m = NULL
    OBVIOUS
  <2>2. Inside(m)' = {1}
    BY <1>3, <2>1 DEF Inside
  <2>3. ScopeOf(m)' = {[name |-> n, id |-> 1]}
    BY <1>2, <1>3, <2>2 DEF ScopeOf
  <2>4. m = Enclosing'[1]
    BY <1>5, <2>1
  <2> QED
    BY <1>0, <1>6, <2>3, <2>4
<1>8. ScopesAround'[2] = {}
  <2>1. PICK m : m = 1
    OBVIOUS
  <2>2. Inside(m)' = {}
    BY <1>3, <2>1 DEF Inside, NULL
  <2>3. ScopeOf(m)' = {}
    BY <2>2 DEF ScopeOf
  <2>4. m = Enclosing'[2]
    BY <1>5, <2>1
  <2> QED
    BY <1>6, <2>3, <2>4
<1>9. ScopesAround' = << {[name |-> n, id |-> size + 1]}, {} >>
  <2> DEFINE s == << {[name |-> n, id |-> size + 1]}, {} >>
  <2>1. {[name |-> n, id |-> size + 1]} \in Scope /\ {} \in Scope
    BY <1>0 DEF Scope
  <2>2. s \in Seq(Scope) /\ Len(s) = 2 /\ s[1] = {[name |-> n, id |-> size + 1]} /\ s[2] = {}
    BY <2>1
  <2>3. \A i \in 1 .. 2 : i = 1 \/ i = 2
    OBVIOUS
  <2> HIDE DEF s
  <2>4. \A i \in 1 .. Len(s) : s[i] = ScopesAround'[i]
    BY <1>7, <1>8, <2>2, <2>3
  <2> QED
    BY <1>6, <2>2, <2>4, SeqEqual DEF s
<1>10. ScopesAround = <<>>
  BY <1>0 DEF ScopesAround
<1> QED
  BY <1>0, <1>3, <1>4, <1>9, <1>10 DEF Abstract!EnterProgram

\* What changes no link, no name and not the owner changes no scope.
LEMMA StutterRefines ==
  ASSUME DeclInvariant, DeclInvariant', UNCHANGED <<parent, size, symbol_table, sym_eye, sym_turn, result>>,
         \A e \in Allocated : symbol'[e].name = symbol[e].name
  PROVE  UNCHANGED Abstract!scopeVars
<1>1. Owner' = Owner /\ Allocated' = Allocated
  BY DEF Owner, Allocated
<1>2. \A m : ScopeOf(m)' = ScopeOf(m)
  BY <1>1 DEF ScopeOf, Inside
<1>3. Enclosing' = Enclosing
  BY <1>1 DEF Enclosing, PathTo
<1>4. ScopesAround' = ScopesAround
  <2>1. CASE symbol_table = NULL
    BY <2>1 DEF ScopesAround
  <2>2. CASE symbol_table # NULL
    <3>1. ScopesAround = [i \in DOMAIN Enclosing |-> ScopeOf(Enclosing[i])]
      BY <2>2 DEF ScopesAround
    <3>2. ScopesAround' = [i \in DOMAIN Enclosing |-> ScopeOf(Enclosing[i])']
      BY <2>2, <1>3 DEF ScopesAround
    <3>3. ASSUME NEW i \in DOMAIN Enclosing PROVE ScopeOf(Enclosing[i])' = ScopeOf(Enclosing[i])
      <4>1. PICK m : m = Enclosing[i]
        OBVIOUS
      <4>2. m = Enclosing'[i] /\ ScopeOf(m)' = ScopeOf(m)
        BY <1>2, <1>3, <4>1
      <4> QED
        BY <4>1, <4>2
    <3> QED
      BY <3>1, <3>2, <3>3
  <2> QED
    BY <2>1, <2>2
<1> QED
  BY <1>4 DEF Abstract!scopeVars

\* Every step of the parser is a step of the scope stack or changes no scope.
LEMMA StepRefines ==
  ASSUME DeclInvariant, DeclInvariant', [DeclNext]_declVars
  PROVE  [Abstract!Next]_Abstract!scopeVars
<1>0. pc # "start" => symbol_table # NULL
  BY DEF DeclInvariant, OneProgram, NULL
<1>1. ASSUME NEW n \in Name, EnterProgram(n) PROVE Abstract!Next
  BY <1>1, EnterProgramRefines DEF Abstract!Next
<1>2. ASSUME NEW n \in Name, NEW type, NEW param, AddEntry(n, type, param), pc # "start",
             Owner # NULL, \A e \in Inside(Owner) : symbol[e].fun = 0
      PROVE  Abstract!Next
  <2> DEFINE sym == [name |-> n, std_type |-> type, fun |-> 0, count |-> 0, param |-> param]
  <2>1. /\ NewEntry(sym, Place) /\ semerr(get_symbol(n, 0) # NULL)
        /\ sym_turn' = 0 /\ UNCHANGED symbol_table /\ sym.name = n
    BY <1>2 DEF AddEntry
  <2> HIDE DEF sym
  <2>2. Abstract!Declare(n)
    BY <1>0, <1>2, <2>1, DeclareRefines
  <2> QED
    BY <2>2 DEF Abstract!Next
<1>3. ASSUME NEW n \in Name, AddProgParam(n) PROVE Abstract!Next
  <2>1. pc = "ids" /\ Owner # NULL /\ \A e \in Inside(Owner) : symbol[e].fun = 0
    BY <1>3 DEF AddProgParam, DeclInvariant, NoMethodBeforeBody, Inside
  <2>2. AddEntry(n, "PGPARAM", 0)
    BY <1>3, <2>1 DEF AddProgParam, check_add_prog_param, check_add_var, Owner
  <2> QED
    BY <1>2, <2>1, <2>2
<1>4. ASSUME NEW n \in Name, EnterFunction(n) PROVE Abstract!Next
  BY <1>4, EnterMethodRefines DEF Abstract!Next
<1>5. ASSUME NEW n \in Name, NEW t \in VarType, AddVar(n, t) PROVE Abstract!Next
  <2>1. pc # "start" /\ Owner # NULL /\ \A e \in Inside(Owner) : symbol[e].fun = 0
    BY <1>5 DEF AddVar, InBody
  <2>2. AddEntry(n, t, 0)
    BY <1>5, <2>1 DEF AddVar, check_add_var, Owner
  <2> QED
    BY <1>2, <2>1, <2>2
<1>6. ASSUME NEW n \in Name, NEW t \in VarType, AddFunParam(n, t) PROVE Abstract!Next
  <2>1. pc = "head" /\ AddEntry(n, t, 1)
    BY <1>6 DEF AddFunParam, check_add_fun_param
  <2>2. Owner # NULL /\ \A e \in Inside(Owner) : symbol[e].fun = 0
    BY <2>1, HeadFacts
  <2> QED
    BY <1>2, <2>1, <2>2
<1>7. ASSUME NEW sym, UpdateMethod(sym), sym.name = symbol[Owner].name, MethodInView = Owner,
             Owner \in Allocated
      PROVE  UNCHANGED Abstract!scopeVars
  <2>1. UNCHANGED <<parent, size, symbol_table, sym_eye, sym_turn, result>>
    BY <1>7 DEF UpdateMethod, links
  <2>2. \A e \in Allocated : symbol'[e].name = symbol[e].name
    BY <1>7 DEF UpdateMethod, DeclInvariant, DeclTypeOK, TypeOK
  <2> QED
    BY <2>1, <2>2, StutterRefines
<1>8. ASSUME NEW t \in VarType, SetMethodType(t) PROVE UNCHANGED Abstract!scopeVars
  <2> DEFINE sym == [symbol[Owner] EXCEPT !.std_type = t, !.fun = 1]
  <2>1. Owner \in Allocated /\ MethodInView = Owner /\ symbol[Owner] \in Symbol
    BY <1>8, HeadFacts, Inner DEF SetMethodType
  <2>2. UpdateMethod(sym)
    BY <1>8, <2>1 DEF SetMethodType, set_method_type
  <2>3. sym.name = symbol[Owner].name
    BY <2>1 DEF Symbol
  <2> HIDE DEF sym
  <2> QED
    BY <1>7, <2>1, <2>2, <2>3
<1>9. CASE SetMethodParamCount
  <2> DEFINE sym == [symbol[Owner] EXCEPT !.count = c]
  <2>1. Owner \in Allocated /\ MethodInView = Owner /\ symbol[Owner] \in Symbol
    BY <1>9, HeadFacts, Inner DEF SetMethodParamCount
  <2>2. UpdateMethod(sym)
    BY <1>9, <2>1 DEF SetMethodParamCount, set_method_param_count
  <2>3. sym.name = symbol[Owner].name
    BY <2>1 DEF Symbol
  <2> HIDE DEF sym
  <2> QED
    BY <1>7, <2>1, <2>2, <2>3
<1>10. CASE Exit
  BY <1>10, LeaveRefines DEF Abstract!Next
<1>11. CASE UNCHANGED declVars
  <2>1. UNCHANGED <<symbol, parent, size, symbol_table, sym_eye, sym_turn, result>>
    BY <1>11 DEF declVars, vars, links
  <2> QED
    BY <2>1, StutterRefines
<1> QED
  BY <1>1, <1>3, <1>4, <1>5, <1>6, <1>8, <1>9, <1>10, <1>11 DEF DeclNext

\* symbol_table.c implements the stack of block-structured scopes: an exit leaves
\* the scope the parser leaves, a declaration goes to the scope the parser is in,
\* and what is reported are the duplicates of that scope.
THEOREM ScopesAreImplemented == DeclSpec => ImplementsScopes
<1>1. DeclInit => Abstract!Init
  BY DEF DeclInit, Init, Abstract!Init, ScopesAround
<1>2. DeclInvariant /\ DeclInvariant' /\ [DeclNext]_declVars => [Abstract!Next]_Abstract!scopeVars
  BY StepRefines
<1>3. Abstract!Spec <=> Abstract!Init /\ [][Abstract!Next]_Abstract!scopeVars
  BY DEF Abstract!Spec
<1> QED
  BY <1>1, <1>2, <1>3, DeclarationsAreSound, PTL DEF DeclSpec, ImplementsScopes

-----------------------------------------------------------------------------
(* Signatures.                                                             *)

\* The walk of get_param_type over the entries inside a method.
NthOf(nth, m, n) ==
  nth = [i \in 0 .. n |-> IF i = 0 THEN child[m]
                          ELSE IF nth[i - 1] = NULL THEN NULL ELSE next[nth[i - 1]]]

\* The walk exists: its argument shrinks to zero.
LEMMA NthExists ==
  ASSUME TypeOK, NEW m \in Entry, NEW n \in Nat
  PROVE  \E nth \in [0 .. n -> Link] : NthOf(nth, m, n)
<1> DEFINE D  == 0 .. n
           mu == [i \in D |-> i]
           B  == {0}
           b  == [i \in D |-> child[m]]
           g  == [i \in D |-> i - 1]
           h  == [p \in D \X Link |-> IF p[2] = NULL THEN NULL ELSE next[p[2]]]
<1>1. mu \in [D -> Nat]
  OBVIOUS
<1>2. ASSUME NEW i \in D \ B PROVE g[i] \in D /\ mu[g[i]] < mu[i] /\ g[i] = i - 1
  OBVIOUS
<1>3. \A i \in D, r \in Link : /\ h[<<i, r>>] = IF r = NULL THEN NULL ELSE next[r]
                               /\ h[<<i, r>>] \in Link
  <2> SUFFICES ASSUME NEW i \in D, NEW r \in Link
               PROVE  (IF r = NULL THEN NULL ELSE next[r]) \in Link
    OBVIOUS
  <2> QED
    BY DEF TypeOK, Link
<1>4. \A i \in D : b[i] = child[m] /\ b[i] \in Link /\ (i \in B <=> i = 0)
  BY DEF TypeOK
<1>5. D = 0 .. n
  OBVIOUS
<1> HIDE DEF D, mu, B, b, g, h
<1>6. PICK nth : Recursion(nth, D, B, b, g, h)
  BY <1>1, <1>2, RecursionExists
<1>7. nth \in [D -> Link]
  BY <1>1, <1>2, <1>3, <1>4, <1>6, RecursionType
<1>8. NthOf(nth, m, n)
  <2>1. nth = [i \in D |-> IF i \in B THEN b[i] ELSE h[<<i, nth[g[i]]>>]]
    BY <1>6 DEF Recursion
  <2>2. ASSUME NEW i \in D
        PROVE  (IF i \in B THEN b[i] ELSE h[<<i, nth[g[i]]>>]) =
                 IF i = 0 THEN child[m] ELSE IF nth[i - 1] = NULL THEN NULL ELSE next[nth[i - 1]]
    <3>1. CASE i \in B
      BY <3>1, <1>4
    <3>2. CASE i \notin B
      <4>1. g[i] \in D /\ g[i] = i - 1 /\ nth[i - 1] \in Link
        BY <3>2, <1>2, <1>7
      <4> QED
        BY <3>2, <4>1, <1>3, <1>4
    <3> QED
      BY <3>1, <3>2
  <2> QED
    BY <2>1, <2>2, <1>5 DEF NthOf
<1> QED
  BY <1>5, <1>7, <1>8

\* The first entries are the parameters; what follows them is inside the
\* method too.
LEMMA NthIsParameter ==
  ASSUME TableInvariant, NEW m \in Allocated, NEW count \in Nat,
         \A e \in m + 1 .. m + count : e \in Inside(m),
         NEW n \in Nat, NEW nth, NthOf(nth, m, n)
  PROVE  \A i \in 0 .. n :
           /\ i < count => nth[i] = m + 1 + i
           /\ i >= count => nth[i] = NULL \/ (nth[i] \in Inside(m) /\ nth[i] > m + count)
<1>0. /\ TypeOK /\ Ordered /\ WellLinked /\ ScopesAreChains /\ size \in Nat
      /\ m \in Entry /\ m \in Nat /\ NULL = 0
      /\ \A e \in Allocated : e \in Entry /\ e \in Nat
  BY Basics DEF NULL, Allocated
<1>1. /\ nth[0] = child[m]
      /\ \A i \in 1 .. n : nth[i] = IF nth[i - 1] = NULL THEN NULL ELSE next[nth[i - 1]]
  BY DEF NthOf
<1> DEFINE Right(i) ==
             /\ i < count => nth[i] = m + 1 + i
             /\ i >= count => nth[i] = NULL \/ (nth[i] \in Inside(m) /\ nth[i] > m + count)
           Wrong == {i \in 0 .. n : ~Right(i)}
<1> SUFFICES ASSUME Wrong # {} PROVE FALSE
  OBVIOUS
<1>2. PICK i \in Wrong : \A j \in Wrong : i <= j
  <2>1. Wrong \in SUBSET Nat
    OBVIOUS
  <2> HIDE DEF Wrong
  <2> QED
    BY <2>1, LeastExists
<1>3. i \in 0 .. n /\ ~Right(i)
  OBVIOUS
<1>4. \A f \in Inside(m) : /\ f \in Entry /\ f \in Nat /\ parent[f] = m /\ m # NULL /\ f <= size
                           /\ child[m] \in 1 .. f
                           /\ \A e \in Inside(m) : e < f => next[e] \in 1 .. f
  BY <1>0 DEF Inside, Allocated, ScopesAreChains
<1>5. ASSUME NEW f \in Entry, f <= size, parent[f] = m PROVE f \in Inside(m)
  BY <1>0, <1>5 DEF Inside, Allocated, Entry
<1>n. \A e \in Entry : next[e] # NULL =>
        next[e] \in Entry /\ e < next[e] /\ next[e] <= size /\ parent[next[e]] = parent[e]
  <2> SUFFICES ASSUME NEW e \in Entry, next[e] # NULL
               PROVE  /\ next[e] \in Entry /\ e < next[e]
                      /\ next[e] <= size /\ parent[next[e]] = parent[e]
    OBVIOUS
  <2>1. next[e] \in Entry /\ e # NULL
    BY <1>0 DEF TypeOK, Link, Entry
  <2>2. e < next[e] /\ next[e] <= size
    BY <1>0 DEF Ordered
  <2>3. prev[next[e]] = e
    BY <1>0 DEF WellLinked
  <2> QED
    BY <1>0, <2>1, <2>2, <2>3 DEF WellLinked
<1>6. CASE i = 0
  <2>1. CASE 0 < count
    <3>1. m + 1 \in Inside(m)
      BY <2>1, <1>0
    <3>2. child[m] \in 1 .. m + 1 /\ m < child[m]
      BY <3>1, <1>0, <1>4 DEF Ordered
    <3>3. child[m] = m + 1
      BY <3>2, <1>0
    <3> QED
      BY <1>1, <1>3, <1>6, <2>1, <3>3, <1>0
  <2>2. CASE ~(0 < count)
    <3>1. child[m] # NULL => child[m] \in Entry /\ child[m] <= size /\ parent[child[m]] = m /\ m < child[m]
      BY <1>0 DEF Ordered, WellLinked, TypeOK, Link
    <3>2. child[m] # NULL => child[m] \in Inside(m) /\ m < child[m]
      BY <3>1, <1>5
    <3> QED
      BY <1>1, <1>3, <1>6, <2>2, <3>2, <1>0
  <2> QED
    BY <2>1, <2>2
<1>7. CASE i # 0
  <2> DEFINE p == nth[i - 1]
  <2>1. i \in 1 .. n /\ i - 1 \in 0 .. n /\ i - 1 < i
    BY <1>3, <1>7
  <2>2. Right(i - 1)
    BY <1>2, <2>1
  <2>3. nth[i] = IF p = NULL THEN NULL ELSE next[p]
    BY <1>1, <2>1
  <2>4. CASE i < count
    <3>1. p = m + i /\ m + i \in Inside(m) /\ m + i + 1 \in Inside(m)
      <4>1. i - 1 < count /\ m + 1 + (i - 1) = m + i
        BY <2>1, <2>4, <1>0
      <4>2. m + i \in m + 1 .. m + count /\ m + i + 1 \in m + 1 .. m + count
        BY <2>1, <2>4, <1>0
      <4> QED
        BY <2>2, <4>1, <4>2
    <3>2. next[p] \in 1 .. m + i + 1
      BY <3>1, <1>4, <2>1, <1>0
    <3>3. p # NULL /\ p \in Entry
      BY <3>1, <1>4, <2>1, <1>0
    <3>4. p < next[p]
      <4> HIDE DEF p
      <4>1. next[p] # NULL
        BY <3>2, <1>0
      <4> QED
        BY <3>3, <4>1, <1>n
    <3>5. next[p] = m + 1 + i
      BY <3>1, <3>2, <3>4, <2>1, <1>0
    <3> QED
      BY <1>3, <2>3, <2>4, <3>3, <3>5
  <2>5. CASE ~(i < count)
    <3>1. p = NULL \/ (p \in Inside(m) /\ p >= m + count)
      <4>1. CASE i - 1 < count
        <5>1. count = i /\ m + 1 + (i - 1) = m + count
          BY <4>1, <2>1, <2>5, <1>0
        <5>2. m + count \in m + 1 .. m + count
          BY <5>1, <2>1, <1>0
        <5> QED
          BY <5>1, <5>2, <2>2, <4>1, <1>0
      <4>2. CASE ~(i - 1 < count)
        <5>1. p = NULL \/ (p \in Inside(m) /\ p > m + count)
          BY <2>2, <4>2, <2>1
        <5> QED
          BY <5>1, <1>4, <1>0
      <4> QED
        BY <4>1, <4>2
    <3> HIDE DEF p
    <3>2. ASSUME p # NULL, next[p] # NULL
          PROVE  next[p] \in Inside(m) /\ next[p] > m + count
      <4>1. p \in Entry /\ p \in Nat /\ parent[p] = m /\ p >= m + count
        BY <3>1, <3>2, <1>4
      <4>2. next[p] \in Entry /\ p < next[p] /\ next[p] <= size /\ parent[next[p]] = m
        BY <4>1, <3>2, <1>n
      <4> QED
        BY <4>1, <4>2, <1>5, <1>0 DEF Entry
    <3> QED
      BY <1>3, <2>3, <2>5, <3>2
  <2> QED
    BY <2>4, <2>5
<1> QED
  BY <1>6, <1>7

\* get_param_type and get_num_params agree in every state of the invariant.
LEMMA SignatureIsCounted == DeclInvariant => SignatureAgrees
<1> SUFFICES ASSUME DeclInvariant, NEW name \in Name,
                    get_symbol(name, 1) # NULL, symbol[get_symbol(name, 1)].fun = 1,
                    pc = "body" \/ get_symbol(name, 1) # MethodInView,
                    NEW n \in 0 .. MaxEntries
             PROVE  (get_param_type(name, n) # "NONE") <=> n < get_num_params(name)
  BY DEF SignatureAgrees
<1> DEFINE m     == get_symbol(name, 1)
           count == symbol[m].count
           Nth(f) == f = [i \in 0 .. n |-> IF i = 0 THEN child[m]
                                            ELSE IF f[i - 1] = NULL THEN NULL ELSE next[f[i - 1]]]
           nth   == CHOOSE f : Nth(f)
<1>0. TableInvariant /\ OneProgram /\ ParametersFollow /\ n \in Nat
  BY DEF DeclInvariant
<1>1. m \in Allocated
  BY <1>0, GlobalSearch DEF IsLatest, InView
<1>2. get_param_type(name, n) =
        IF nth[n] = NULL THEN "NONE"
        ELSE IF symbol[nth[n]].param = 1 THEN symbol[nth[n]].std_type ELSE "NONE"
  BY DEF get_param_type
<1>3. get_num_params(name) = count
  BY DEF get_num_params
<1>4. m # NULL /\ symbol[m].fun = 1 /\ (pc = "body" \/ m # MethodInView)
  OBVIOUS
<1>5. NthOf(nth, m, n)
  <2>1. \E f : Nth(f)
    <3>1. \E f : NthOf(f, m, n)
      BY <1>0, <1>1, Basics, NthExists
    <3> HIDE DEF m
    <3> QED
      BY <3>1 DEF NthOf
  <2>2. Nth(nth)
    <3> HIDE DEF Nth
    <3> QED
      BY <2>1
  <2> HIDE DEF nth
  <2> QED
    BY <2>2 DEF NthOf
<1> HIDE DEF m, nth
<1>6. count \in Nat /\ m \in Nat
  BY <1>0, <1>1, Basics DEF TypeOK, Symbol, Allocated
<1>7. Counted(m) = count
  <2>1. CASE pc \in {"head", "typed"}
    <3>1. MethodInView = size - c
      BY <2>1, HeadFacts
    <3> QED
      BY <1>4, <2>1, <3>1 DEF Counted
  <2>2. CASE pc \notin {"head", "typed"}
    BY <2>2 DEF Counted
  <2> QED
    BY <2>1, <2>2
<1>8. {e \in Inside(m) : symbol[e].param = 1} = m + 1 .. m + count
  BY <1>0, <1>1, <1>4, <1>7 DEF ParametersFollow
<1> HIDE DEF count
<1>9. /\ n < count => nth[n] = m + 1 + n
      /\ n >= count => nth[n] = NULL \/ (nth[n] \in Inside(m) /\ nth[n] > m + count)
  <2>1. \A e \in m + 1 .. m + count : e \in Inside(m)
    BY <1>8
  <2>2. n \in 0 .. n
    BY <1>0
  <2> QED
    BY <1>0, <1>1, <1>5, <1>6, <2>1, <2>2, NthIsParameter
<1>10. CASE n < count
  <2>1. nth[n] = m + 1 + n /\ nth[n] \in m + 1 .. m + count
    BY <1>0, <1>6, <1>9, <1>10
  <2>2. nth[n] \in Inside(m) /\ symbol[nth[n]].param = 1
    BY <1>8, <2>1
  <2>3. nth[n] # NULL /\ nth[n] \in Allocated
    BY <2>2, <1>0, Basics DEF Inside
  <2>4. symbol[nth[n]].std_type \in VarType
    BY <1>0, <2>2, <2>3 DEF ParametersFollow
  <2> QED
    BY <1>2, <1>3, <1>10, <2>2, <2>3, <2>4, TypesAssumption
<1>11. CASE ~(n < count)
  <2>1. nth[n] = NULL \/ (nth[n] \in Inside(m) /\ nth[n] > m + count)
    BY <1>0, <1>6, <1>9, <1>11
  <2>2. nth[n] \in Inside(m) /\ nth[n] > m + count => symbol[nth[n]].param # 1
    BY <1>8, <1>6
  <2>3. get_param_type(name, n) = "NONE"
    BY <1>2, <2>1, <2>2
  <2> QED
    BY <1>3, <1>11, <2>3
<1> QED
  BY <1>10, <1>11

\* get_param_type knows the type of exactly the parameters get_num_params counts.
THEOREM SignaturesAgree == DeclSpec => []SignatureAgrees
BY SignatureIsCounted, DeclarationsAreSound, PTL

\* The phase is one of the five and no more parameters are counted than entries
\* were made.
THEOREM DeclarationsAreTyped == DeclSpec => []DeclTypeOK
<1>1. DeclInvariant => DeclTypeOK
  BY DEF DeclInvariant
<1> QED
  BY <1>1, DeclarationsAreSound, PTL

-----------------------------------------------------------------------------
(* The listing: entries are allocated in the order of the outline.         *)

\* The set that EyeIsLatest asks for.
OpenTo(open, e) ==
  /\ open \in SUBSET Allocated
  /\ e # NULL => e \in open
  /\ \A m \in open : /\ parent[m] \in open \cup {NULL}
                     /\ \A x \in m + 1 .. size : parent[x] >= m

\* A new entry is behind all there is, and inside what is open.
LEMMA NewEntryKeepsOrder ==
  ASSUME TypeOK, Ordered, WellLinked, TempIsParent, EyeIsLast,
         NextIsBehind, ScopesAreIntervals, TreesAreApart, EyeIsLatest,
         NEW sym, NEW where, Hangable(where), where = "nowhere" => sym_eye = NULL,
         NewEntry(sym, where)
  PROVE  NextIsBehind' /\ ScopesAreIntervals' /\ TreesAreApart' /\ EyeIsLatest'
<1> DEFINE new == size + 1
           p   == CASE where = "below" -> sym_eye [] where = "after" -> parent[sym_eye] [] OTHER -> NULL
           q   == IF where = "after" THEN sym_eye ELSE NULL
<1>1. /\ new \in Entry /\ size < MaxEntries
      /\ next[new] = NULL /\ prev[new] = NULL /\ parent[new] = NULL
  BY FreshEntry DEF NewEntry
<1>2. size' = new /\ sym_eye' = new
  BY DEF NewEntry
<1>3. /\ size \in Nat /\ sym_eye \in 0 .. size /\ Entry \subseteq Nat /\ MaxEntries \in Nat
      /\ sym_eye # NULL => sym_eye \in Entry /\ parent[sym_eye] < sym_eye
  BY <1>1 DEF TypeOK, Entry, Allocated, NULL, Ordered
<1>4. PICK open : OpenTo(open, sym_eye)
  BY DEF EyeIsLatest, OpenTo
<1>5. \A e \in Entry :
        /\ next[e] \in 0 .. size /\ prev[e] \in Nat /\ parent[e] \in Nat
        /\ next[e] # NULL => e < next[e]
        /\ prev[e] < e /\ parent[e] < e
  BY DEF Ordered, TypeOK, Link, Entry, NULL
<1>6. /\ where # "nowhere" => sym_eye # NULL
      /\ p \in open \cup {NULL} /\ q \in open \cup {NULL} /\ p < new /\ p \in Nat /\ q \in Nat
  BY <1>3, <1>4, <1>5 DEF Hangable, OpenTo, NULL, Allocated
<1>7. \A e \in Entry : parent'[e] = (IF e = new THEN p ELSE parent[e]) /\ prev'[e] = (IF e = new THEN q ELSE prev[e])
  BY <1>1, <1>3, <1>6 DEF NewEntry, HangBelow, HangAfter, Hangable, TypeOK
<1>8. \A e \in Entry : next'[e] = IF q # NULL /\ e = q THEN new ELSE next[e]
  BY <1>1, <1>3, <1>6 DEF NewEntry, HangBelow, HangAfter, Hangable, TypeOK
<1>9. \A m \in open : m \in Entry /\ m <= size /\ \A x \in m + 1 .. size : parent[x] >= m
  <2>1. open \subseteq Allocated /\ \A m \in open : \A x \in m + 1 .. size : parent[x] >= m
    BY <1>4 DEF OpenTo
  <2>2. \A m \in Allocated : m \in Entry /\ m <= size
    BY <1>1, <1>3 DEF Allocated, Entry
  <2> QED
    BY <2>1, <2>2
<1> HIDE DEF p, q
<1>10. NextIsBehind'
  <2> SUFFICES ASSUME NEW e \in Entry, next'[e] # NULL, NEW x \in e + 1 .. next'[e] - 1
               PROVE  parent'[x] >= e
    BY DEF NextIsBehind
  <2>1. CASE q # NULL /\ e = q
    <3>1. x \in e + 1 .. size /\ x \in Entry /\ x # new
      BY <2>1, <1>8, <1>3, <1>1, <1>6 DEF Entry
    <3> QED
      BY <2>1, <3>1, <1>6, <1>7, <1>9
  <2>2. CASE ~(q # NULL /\ e = q)
    <3>1. next'[e] = next[e] /\ x \in Entry /\ x # new
      BY <2>2, <1>8, <1>5, <1>3, <1>1 DEF Entry
    <3> QED
      BY <3>1, <1>7 DEF NextIsBehind
  <2> QED
    BY <2>1, <2>2
<1>11. ScopesAreIntervals'
  <2> SUFFICES ASSUME NEW y \in Entry, NEW x \in parent'[y] + 1 .. y
               PROVE  parent'[x] >= parent'[y]
    BY DEF ScopesAreIntervals
  <2>1. CASE y = new
    <3>1. parent'[y] = p /\ x \in Entry /\ x <= new /\ x > p
      BY <2>1, <1>7, <1>6, <1>1, <1>3 DEF Entry
    <3>2. CASE x = new
      BY <3>1, <3>2, <1>7, <1>6
    <3>3. CASE x # new /\ p # NULL
      BY <3>1, <3>3, <1>7, <1>6, <1>9, <1>3
    <3>4. CASE x # new /\ p = NULL
      BY <3>1, <3>4, <1>7, <1>5 DEF NULL
    <3> QED
      BY <3>2, <3>3, <3>4
  <2>2. CASE y # new
    <3>1. parent'[y] = parent[y] /\ x \in Entry /\ parent[y] < y /\ parent[y] \in Nat
      BY <2>2, <1>7, <1>5, <1>3 DEF Entry
    <3>2. CASE x # new
      BY <3>1, <3>2, <1>7 DEF ScopesAreIntervals
    <3>3. CASE x = new
      <4>1. y > size
        BY <3>1, <3>3, <1>3, <2>2 DEF Entry
      <4>2. parent[y] = NULL
        BY <4>1, <1>3, HungIsAllocated DEF Allocated, Entry
      <4> QED
        BY <3>1, <3>3, <4>2, <1>6, <1>7 DEF NULL
    <3> QED
      BY <3>2, <3>3
  <2> QED
    BY <2>1, <2>2
<1>12. TreesAreApart'
  <2> SUFFICES ASSUME NEW r \in 1 .. new, parent'[r] = NULL, prev'[r] = NULL, NEW x \in r + 1 .. new
               PROVE  /\ parent'[x] = NULL \/ parent'[x] >= r
                      /\ prev'[x] = NULL \/ prev'[x] >= r
    BY <1>2 DEF TreesAreApart, IsNewTree, Allocated
  <2>1. /\ r \in Entry /\ x \in Entry /\ r < x /\ x <= new /\ r \in 1 .. size /\ r # new
        /\ parent[r] = NULL /\ prev[r] = NULL
    BY <1>1, <1>3, <1>7 DEF Entry
  <2>2. CASE x = new
    <3>1. ASSUME NEW m \in open PROVE m >= r
      BY <2>1, <1>9, <1>3 DEF NULL, Entry
    <3> QED
      BY <2>2, <3>1, <1>6, <1>7, <2>1
  <2>3. CASE x # new
    <3>1. parent'[x] = parent[x] /\ prev'[x] = prev[x] /\ x \in r + 1 .. size
      BY <2>1, <2>3, <1>3, <1>7
    <3> QED
      BY <2>1, <3>1 DEF TreesAreApart, IsNewTree, Allocated
  <2> QED
    BY <2>2, <2>3
<1>13. EyeIsLatest'
  <2> DEFINE open1 == {m \in open : m <= p} \cup {new}
  <2>1. open1 \in SUBSET Allocated' /\ new \in open1
    BY <1>2, <1>3, <1>9 DEF Allocated, Entry
  <2>2. ASSUME NEW m \in open1
        PROVE  parent'[m] \in open1 \cup {NULL} /\ \A x \in m + 1 .. new : parent'[x] >= m
    <3>1. CASE m = new
      <4>1. parent'[m] = p /\ m + 1 .. new = {}
        BY <3>1, <1>1, <1>3, <1>7
      <4> QED
        BY <4>1, <1>6
    <3>2. CASE m # new
      <4>1. m \in open /\ m <= p /\ m \in Entry /\ m <= size
        BY <3>2, <1>9
      <4>2. parent'[m] = parent[m] /\ parent[m] \in open \cup {NULL} /\ parent[m] < m /\ parent[m] \in Nat
        BY <3>2, <4>1, <1>4, <1>5, <1>7 DEF OpenTo
      <4>3. parent'[m] \in open1 \cup {NULL}
        BY <4>1, <4>2, <1>6 DEF Entry
      <4>4. ASSUME NEW x \in m + 1 .. new PROVE parent'[x] >= m
        <5>1. x \in Entry
          BY <4>1, <1>1, <1>3 DEF Entry
        <5>2. CASE x = new
          BY <4>1, <5>1, <5>2, <1>7
        <5>3. CASE x # new
          <6>1. x \in m + 1 .. size
            BY <4>1, <5>3, <1>3, <1>1
          <6> QED
            BY <4>1, <5>1, <5>3, <6>1, <1>7, <1>9
        <5> QED
          BY <5>2, <5>3
      <4> QED
        BY <4>3, <4>4
    <3> QED
      BY <3>1, <3>2
  <2> HIDE DEF open1
  <2> QED
    BY <2>1, <2>2, <1>2 DEF EyeIsLatest
<1> QED
  BY <1>10, <1>11, <1>12, <1>13

\* A step that leaves the links and the eye alone keeps the order.
LEMMA SameShapeKeepsOrder ==
  ASSUME SourceOrder, UNCHANGED <<links, size, symbol_table, sym_eye>>
  PROVE  SourceOrder'
BY DEF SourceOrder, NextIsBehind, ScopesAreIntervals, TreesAreApart, EyeIsLatest, IsNewTree,
       Allocated, links

\* An exit moves the eye to a method that is open, or to NULL.
LEMMA ExitKeepsOrder ==
  ASSUME TableInvariant, SourceOrder, check_exit_method
  PROVE  SourceOrder'
<1>1. CASE sym_eye = NULL
  BY <1>1, SameShapeKeepsOrder DEF check_exit_method
<1>2. CASE sym_eye # NULL
  <2>1. /\ UNCHANGED <<next, prev, parent, child, size, symbol_table>>
        /\ sym_eye' \in {sym_eye, parent[sym_eye], temp[sym_eye]}
        /\ sym_eye' = temp[sym_eye] => temp[sym_eye] \in {NULL, parent[sym_eye]}
    <3>1. sym_eye \in Entry
      BY <1>2 DEF TableInvariant, TypeOK, Entry, Allocated
    <3>2. temp[sym_eye] \in {NULL, parent[sym_eye]}
      BY <3>1 DEF TableInvariant, TempIsParent
    <3> QED
      BY <1>2, <3>2 DEF check_exit_method, Climb
  <2>2. EyeIsLatest'
    <3>1. PICK open : OpenTo(open, sym_eye)
      BY DEF SourceOrder, EyeIsLatest, OpenTo
    <3>2. sym_eye' # NULL => sym_eye' \in open
      BY <1>2, <2>1, <3>1 DEF OpenTo
    <3>3. /\ open \in SUBSET Allocated'
          /\ \A e \in open : /\ parent'[e] \in open \cup {NULL}
                             /\ \A x \in e + 1 .. size' : parent'[x] >= e
      BY <2>1, <3>1 DEF OpenTo, Allocated
    <3> QED
      BY <3>2, <3>3 DEF EyeIsLatest
  <2> QED
    BY <2>1, <2>2 DEF SourceOrder, NextIsBehind, ScopesAreIntervals, TreesAreApart, IsNewTree, Allocated
<1> QED
  BY <1>1, <1>2

\* Every call of symbol_table.c keeps the order.
LEMMA NextKeepsOrder ==
  ASSUME TableInvariant, SourceOrder, Next
  PROVE  SourceOrder'
<1> USE DEF TableInvariant
<1>0. size \in Nat /\ (sym_eye # NULL => size # 0)
  BY DEF TypeOK, Allocated
<1>1. ASSUME NEW n \in Name, check_enter_method(n) PROVE SourceOrder'
  <2> DEFINE where == IF symbol_table # NULL /\ sym_eye # NULL THEN Place ELSE "nowhere"
  <2>1. Hangable(where) /\ (where = "nowhere" => sym_eye = NULL)
    <3>1. symbol_table = NULL => sym_eye = NULL
      BY <1>0 DEF SourceOrder, NULL
    <3> QED
      BY <3>1, PlaceIsHangable DEF Hangable, Place
  <2>2. NewEntry(MethodSymbol(n), where)
    BY <1>1 DEF check_enter_method
  <2>3. symbol_table' = IF size' = 0 THEN NULL ELSE 1
    BY <1>0, <1>1, <2>2 DEF check_enter_method, SourceOrder, NewEntry, NULL
  <2> HIDE DEF where
  <2> QED
    BY <2>1, <2>2, <2>3, NewEntryKeepsOrder DEF SourceOrder
<1>2. ASSUME NEW n, NEW t, NEW p, AddEntry(n, t, p) PROVE SourceOrder'
  <2> DEFINE sym == [name |-> n, std_type |-> t, fun |-> 0, count |-> 0, param |-> p]
  <2>1. Hangable(Place) /\ Place # "nowhere"
    BY <1>2, PlaceIsHangable DEF AddEntry, Place
  <2>2. NewEntry(sym, Place)
    BY <1>2 DEF AddEntry
  <2>3. symbol_table' = IF size' = 0 THEN NULL ELSE 1
    BY <1>0, <1>2, <2>2 DEF AddEntry, SourceOrder, NewEntry
  <2> HIDE DEF sym
  <2> QED
    BY <2>1, <2>2, <2>3, NewEntryKeepsOrder DEF SourceOrder
<1>3. ASSUME NEW n, NEW t, check_add_var(n, t) PROVE SourceOrder'
  BY <1>2, <1>3, SameShapeKeepsOrder DEF check_add_var
<1>4. ASSUME NEW sym, UpdateMethod(sym) PROVE SourceOrder'
  BY <1>4, SameShapeKeepsOrder DEF UpdateMethod
<1> QED
  BY <1>1, <1>2, <1>3, <1>4, ExitKeepsOrder
  DEF Next, check_add_prog_param, check_add_fun_param, set_method_type, set_method_param_count

-----------------------------------------------------------------------------
(* The walk: which entry it prints next, at which address.                 *)

USE DeclaredAssumption, IntAssumption

\* Arithmetic in ints: results are ints, and what fits is unchanged.
LEMMA IntWraps ==
  ASSUME NEW x \in Int
  PROVE  /\ int(x) \in Int
         /\ 0 <= x /\ x <= INT_MAX => int(x) = x
<1> DEFINE m == 2 * (INT_MAX + 1)
<1>1. m \in Nat /\ m > 0 /\ x + INT_MAX + 1 \in Int
  OBVIOUS
<1>2. (x + INT_MAX + 1) % m \in Int
  BY <1>1
<1>3. ASSUME 0 <= x, x <= INT_MAX PROVE (x + INT_MAX + 1) % m = x + INT_MAX + 1
  BY <1>3, <1>1
<1> QED
  BY <1>2, <1>3 DEF int

\* What a type takes is an int.
LEMMA SizeType ==
  ASSUME TypeOK, NEW e \in Allocated
  PROVE  SizeOf(e) \in Int
<1>1. symbol[e].std_type \in StdType
  BY DEF TypeOK, Symbol
<1> DEFINE t == TypeOf(symbol[e].std_type)
<1>2. t.start \in Int /\ t.end \in Int
  <2>1. ASSUME NEW d \in Declaration PROVE int(d.from) \in Int /\ int(d.to) \in Int
    BY IntWraps DEF Declaration
  <2>2. symbol[e].std_type \in VarType => Declared[symbol[e].std_type] \in Declaration
    OBVIOUS
  <2> QED
    BY <2>1, <2>2 DEF TypeOf, Bound, Types!ArrayRule, Types!Plain, Types!Array, Types!Reports, Types!Gives, Types!Err
<1> HIDE DEF t
<1>3. UnitSize(t) \in Int
  BY DEF UnitSize
<1>4. type_size(t) \in Int
  <2>1. int(t.end - t.start) \in Int
    BY <1>2, IntWraps
  <2>2. int(int(t.end - t.start) + 1) \in Int
    BY <2>1, IntWraps
  <2>3. UnitSize(t) * (IF t.std_type \in Types!Arrays THEN int(int(t.end - t.start) + 1) ELSE 1) \in Int
    BY <1>3, <2>2
  <2> QED
    BY <2>3, IntWraps DEF type_size
<1> QED
  BY <1>4 DEF SizeOf, t

\* The first entry inside a method is the one allocated after it.
LEMMA FirstIsBehind ==
  ASSUME TableInvariant, SourceOrder, NEW e \in Allocated
  PROVE  /\ child[e] # NULL => /\ child[e] = e + 1 /\ e + 1 <= size
                               /\ parent[e + 1] = e /\ prev[e + 1] = NULL
         /\ child[e] = NULL => \A x \in Entry : parent[x] # e
<1> USE DEF TableInvariant
<1>1. e \in Entry /\ e \in Nat /\ e # NULL /\ size \in Nat /\ size <= MaxEntries
  BY DEF TypeOK, Allocated, Entry, NULL
<1>2. ASSUME NEW x \in Entry, parent[x] = e PROVE child[e] \in 1 .. x
  BY <1>1, <1>2 DEF ScopesAreChains
<1>3. ASSUME child[e] # NULL
      PROVE  child[e] = e + 1 /\ e + 1 <= size /\ parent[e + 1] = e /\ prev[e + 1] = NULL
  <2> DEFINE f == child[e]
  <2>1. f \in Entry /\ e < f /\ f <= size /\ parent[f] = e /\ prev[f] = NULL
    BY <1>1, <1>3 DEF Ordered, WellLinked, TypeOK, Link
  <2>2. e + 1 \in Entry /\ e + 1 \in parent[f] + 1 .. f
    BY <1>1, <2>1 DEF Entry
  <2>3. parent[e + 1] >= e /\ parent[e + 1] < e + 1 /\ parent[e + 1] \in Nat
    <3>1. parent[e + 1] >= parent[f]
      BY <2>1, <2>2 DEF SourceOrder, ScopesAreIntervals
    <3> QED
      BY <2>1, <2>2, <3>1 DEF Ordered, TypeOK, Link, Entry, NULL
  <2>4. parent[e + 1] = e
    BY <1>1, <2>3
  <2>5. f \in 1 .. e + 1
    BY <2>2, <2>4, <1>2
  <2>6. f = e + 1
    BY <2>1, <2>5, <1>1 DEF Entry
  <2> QED
    BY <2>1, <2>6
<1> QED
  BY <1>2, <1>3, <1>1 DEF NULL

\* Behind an entry whose inside was walked comes its next sibling, or what is
\* outside of its scope.
LEMMA NextAfterInside ==
  ASSUME TableInvariant, SourceOrder, NEW e \in Allocated, NEW n \in e .. size,
         \A x \in e + 1 .. n : parent[x] >= e,
         n + 1 <= size => parent[n + 1] < e
  PROVE  /\ next[e] # NULL => next[e] = n + 1 /\ n + 1 <= size
         /\ next[e] = NULL /\ n + 1 <= size =>
              IF parent[e] = NULL THEN IsNewTree(n + 1) ELSE parent[n + 1] < parent[e]
<1> USE DEF TableInvariant
<1>1. /\ e \in Entry /\ e \in Nat /\ 1 <= e /\ size \in Nat /\ size <= MaxEntries /\ n \in Nat /\ e <= n /\ n <= size
      /\ parent[e] \in Nat /\ parent[e] < e
  BY DEF TypeOK, Allocated, Entry, NULL, Link, Ordered
<1>2. ASSUME next[e] # NULL PROVE next[e] = n + 1 /\ n + 1 <= size
  <2> DEFINE f == next[e]
  <2>1. f \in Entry /\ e < f /\ f <= size /\ prev[f] = e /\ parent[f] = parent[e]
    <3>1. f \in Entry
      BY <1>1, <1>2 DEF TypeOK, Link
    <3>2. prev[f] = e /\ e < f /\ f <= size
      BY <1>1, <1>2 DEF Ordered, WellLinked
    <3>3. prev[f] # NULL
      BY <3>2, <1>1 DEF NULL
    <3> HIDE DEF f
    <3>4. parent[prev[f]] = parent[f]
      BY <3>1, <3>3 DEF WellLinked
    <3> QED
      BY <3>1, <3>2, <3>4
  <2>2. ~(f <= n)
    BY <1>1, <2>1 DEF Entry
  <2>3. ~(f > n + 1)
    <3> SUFFICES ASSUME f > n + 1 PROVE FALSE
      OBVIOUS
    <3>1. n + 1 \in e + 1 .. f - 1 /\ n + 1 <= size
      BY <1>1, <2>1 DEF Entry
    <3>2. parent[n + 1] >= e
      BY <3>1, <1>1, <1>2 DEF SourceOrder, NextIsBehind
    <3>3. n + 1 \in Entry
      BY <3>1, <1>1 DEF Entry
    <3> QED
      BY <3>1, <3>2, <3>3, <1>1 DEF TypeOK, Link, Entry, NULL
  <2> QED
    BY <2>1, <2>2, <2>3, <1>1 DEF Entry
<1>3. ASSUME next[e] = NULL, n + 1 <= size
      PROVE  IF parent[e] = NULL THEN IsNewTree(n + 1) ELSE parent[n + 1] < parent[e]
  <2> DEFINE x == n + 1
             p == parent[x]
             q == prev[x]
  <2>1. x \in Entry /\ p \in Nat /\ q \in Nat /\ p < e /\ q < x
    BY <1>1, <1>3 DEF Entry, TypeOK, Link, NULL, Ordered
  <2>2. parent[e] >= p
    BY <1>1, <2>1 DEF SourceOrder, ScopesAreIntervals
  <2>3. CASE parent[e] # NULL
    <3>1. p # parent[e]
      <4> SUFFICES ASSUME p = parent[e] PROVE FALSE
        OBVIOUS
      <4>1. next[e] \in 1 .. x
        BY <1>1, <2>1, <2>3 DEF ScopesAreChains, Entry
      <4> QED
        BY <4>1, <1>3 DEF NULL
    <3> QED
      BY <3>1, <2>1, <2>2, <2>3, <1>1
  <2>4. CASE parent[e] = NULL
    <3>1. p = NULL
      BY <2>1, <2>2, <2>4 DEF NULL
    <3>2. q = NULL
      <4> SUFFICES ASSUME q # NULL PROVE FALSE
        OBVIOUS
      <4>1. q \in Entry /\ next[q] = x /\ parent[q] = NULL
        BY <2>1, <3>1 DEF TypeOK, Link, WellLinked
      <4>2. q # e
        BY <4>1, <1>3, <2>1 DEF Entry, NULL
      <4>3. ~(q > e)
        BY <4>1, <2>1, <1>1 DEF NULL
      <4>4. ~(q < e)
        <5> SUFFICES ASSUME q < e PROVE FALSE
          OBVIOUS
        <5>1. e \in q + 1 .. x - 1 /\ next[q] # NULL
          BY <4>1, <2>1, <1>1 DEF NULL
        <5>2. parent[e] >= q
          BY <4>1, <5>1 DEF SourceOrder, NextIsBehind
        <5> QED
          BY <5>2, <2>4, <2>1, <4>1 DEF NULL, Entry
      <4> QED
        BY <4>2, <4>3, <4>4, <2>1, <1>1
    <3> QED
      BY <3>1, <3>2, <2>4 DEF IsNewTree
  <2> QED
    BY <2>3, <2>4
<1> QED
  BY <1>2, <1>3

\* Before the walk there is only the table.
LEMMA ListInitHolds == ListInit => ListInvariant
<1> SUFFICES ASSUME ListInit PROVE ListInvariant
  OBVIOUS
<1>1. Init /\ phase = "parse" /\ lines = <<>> /\ size = 0
  BY DEF ListInit, Init
<1>2. SourceOrder
  <2>1. next = Nowhere /\ parent = Nowhere /\ symbol_table = NULL /\ sym_eye = NULL
    BY <1>1 DEF Init
  <2>2. NextIsBehind /\ ScopesAreIntervals
    BY <2>1 DEF NextIsBehind, ScopesAreIntervals, Nowhere, Entry, NULL
  <2>3. TreesAreApart
    BY <1>1 DEF TreesAreApart, Allocated
  <2>4. EyeIsLatest
    <3>1. {} \in SUBSET Allocated
      OBVIOUS
    <3> QED
      BY <3>1, <2>1 DEF EyeIsLatest
  <2> QED
    BY <1>1, <2>1, <2>2, <2>3, <2>4 DEF SourceOrder
<1>3. LinesFollow
  BY <1>1 DEF LinesFollow
<1> QED
  BY <1>1, <1>2, <1>3 DEF ListInvariant

\* What holds of the table is untouched by the walk.
LEMMA WalkKeepsTable ==
  ASSUME TableInvariant, SourceOrder, UNCHANGED vars
  PROVE  TableInvariant' /\ SourceOrder'
<1>1. UNCHANGED <<links, size, symbol_table, sym_eye, sym_turn, symbol, result>>
  BY DEF vars
<1>2. symbol' \in [Allocated -> Symbol] /\ result' \subseteq {"SEMERR"}
  BY <1>1 DEF TableInvariant, TypeOK
<1> QED
  BY <1>1, <1>2, SameShapeKeepsTable, SameShapeKeepsOrder

\* The calls of symbol_table.c come before the listing.
LEMMA CallsKeepList ==
  ASSUME TableInvariant, ListInvariant, phase = "parse", Next, UNCHANGED listVars
  PROVE  ListInvariant'
<1>1. SourceOrder' /\ TableInvariant'
  BY NextKeepsOrder, NextKeepsTable DEF ListInvariant
<1>2. lines' = <<>> /\ phase' = "parse"
  BY DEF ListInvariant, listVars
<1>3. LinesFollow'
  <2>1. size' \in Nat
    BY <1>1 DEF TableInvariant, TypeOK
  <2> QED
    BY <1>2, <2>1 DEF LinesFollow
<1> QED
  BY <1>1, <1>2, <1>3 DEF ListInvariant

\* The walk starts at the first entry, if there is one.
LEMMA StartKeepsList ==
  ASSUME TableInvariant, ListInvariant, Start, UNCHANGED vars
  PROVE  ListInvariant'
<1> USE DEF Walk, Innermost
<1>1. SourceOrder' /\ TableInvariant'
  BY WalkKeepsTable DEF ListInvariant
<1>2. /\ lines' = <<>> /\ phase' = "list"
      /\ walks' = <<[s |-> symbol_table, level |-> 0, offset |-> 0]>>
      /\ size' = size /\ parent' = parent /\ prev' = prev /\ symbol_table' = symbol_table
  BY DEF Start, ListInvariant, vars, links
<1>3. /\ size \in Nat /\ size <= MaxEntries
      /\ symbol_table = IF size = 0 THEN NULL ELSE 1
  BY DEF TableInvariant, TypeOK, ListInvariant, SourceOrder
<1>4. LinesFollow'
  BY <1>2, <1>3 DEF LinesFollow
<1>5. size # 0 => parent[1] = NULL /\ prev[1] = NULL
  BY <1>3 DEF TableInvariant, TypeOK, Ordered, Entry, Link, NULL
<1>6. WalksFollow'
  <2>1. /\ Len(walks') = 1 /\ Len(lines') = 0 /\ walks' # <<>>
        /\ walks'[1] = [s |-> symbol_table, level |-> 0, offset |-> 0]
        /\ walks' \in Seq(Activation)
    <3>1. [s |-> symbol_table, level |-> 0, offset |-> 0] \in Activation
      BY <1>3 DEF Activation, Link, Entry, NULL
    <3> QED
      BY <1>2, <3>1
  <2>2. WalkFollows(1)'
    BY <1>2, <1>3, <1>5, <2>1 DEF WalkFollows
  <2>3. AtNext(1)' \/ AtEnd(1)'
    BY <1>2, <1>3, <1>5, <2>1 DEF AtNext, AtEnd, Address, NULL
  <2> QED
    BY <2>1, <2>2, <2>3 DEF WalksFollow
<1> QED
  BY <1>1, <1>2, <1>4, <1>6 DEF ListInvariant

\* What is listed keeps its place when a line is added.
LEMMA LineAdded ==
  ASSUME TableInvariant, LinesFollow, UNCHANGED vars,
         NEW e \in Allocated, e = Len(lines) + 1,
         NEW level \in Nat, NEW offset \in Int,
         lines' = Append(lines, [entry |-> e, level |-> level, offset |-> offset]),
         level = IF parent[e] = NULL THEN 0 ELSE lines[parent[e]].level + 1,
         offset = Address(e),
         e > 1 => ~IsNewTree(e)
  PROVE  /\ LinesFollow'
         /\ Len(lines') = e /\ lines'[e].level = level /\ lines'[e].offset = offset
         /\ \A k \in 1 .. Len(lines) : lines'[k] = lines[k] /\ After(k)' = After(k)
         /\ After(e)' = int(offset + SizeOf(e)) /\ After(e)' \in Int
<1> DEFINE line == [entry |-> e, level |-> level, offset |-> offset]
<1>1. size' = size /\ parent' = parent /\ prev' = prev /\ symbol' = symbol
  BY DEF vars, links
<1>2. /\ e \in Entry /\ e \in Nat /\ e <= size /\ 1 <= e /\ size \in Nat
      /\ \A k \in Entry : k \in Nat /\ parent[k] \in Nat /\ prev[k] \in Nat /\ parent[k] < k /\ prev[k] < k
  BY DEF TableInvariant, TypeOK, Ordered, Entry, Allocated, Link, NULL
<1>3. lines \in Seq(Line) /\ line \in Line /\ Len(lines) \in Nat
  BY <1>2 DEF LinesFollow, Line
<1>4. /\ lines' \in Seq(Line) /\ Len(lines') = e /\ lines'[e] = line
      /\ \A k \in 1 .. Len(lines) : lines'[k] = lines[k]
  BY <1>3
<1>5. SizeOf(e) \in Int
  BY SizeType DEF TableInvariant
<1>6. \A k : SizeOf(k)' = SizeOf(k)
  BY <1>1 DEF SizeOf, IsVariable
<1>7. \A k \in 1 .. Len(lines) : After(k)' = After(k)
  BY <1>4, <1>6 DEF After
<1>8. After(e)' = int(offset + SizeOf(e)) /\ After(e)' \in Int
  <2>1. After(e)' = int(offset + SizeOf(e))
    BY <1>4, <1>6 DEF After
  <2> QED
    BY <2>1, <1>5, IntWraps
<1>9. ASSUME NEW k \in 1 .. e PROVE Address(k)' = Address(k) /\ parent[k] \in 0 .. e - 1
  <2>1. k \in Entry /\ parent[k] \in 0 .. e - 1 /\ prev[k] \in 0 .. Len(lines)
    BY <1>2 DEF Entry
  <2>2. prev[k] # NULL => prev[k] \in 1 .. Len(lines)
    BY <2>1, <1>3 DEF NULL
  <2> QED
    BY <2>1, <2>2, <1>1, <1>7 DEF Address
<1>10. ASSUME NEW k \in 1 .. e
       PROVE  /\ lines'[k].entry = k
              /\ lines'[k].level = IF parent'[k] = NULL THEN 0 ELSE lines'[parent'[k]].level + 1
              /\ lines'[k].offset = Address(k)'
              /\ k > 1 => ~IsNewTree(k)'
  <2>1. parent[k] # NULL => parent[k] \in 1 .. Len(lines)
    BY <1>3, <1>9 DEF NULL
  <2>2. CASE k = e
    BY <2>1, <2>2, <1>1, <1>4, <1>9 DEF IsNewTree
  <2>3. CASE k # e
    <3>1. k \in 1 .. Len(lines)
      BY <2>3, <1>3
    <3> QED
      BY <2>1, <3>1, <1>1, <1>4, <1>9 DEF LinesFollow, IsNewTree
  <2> QED
    BY <2>2, <2>3
<1>11. LinesFollow'
  BY <1>1, <1>2, <1>4, <1>10 DEF LinesFollow
<1> QED
  BY <1>4, <1>7, <1>8, <1>11

\* The activations, unfolded.
LEMMA WalkFacts ==
  ASSUME TableInvariant, LinesFollow, WalksFollow
  PROVE  /\ Len(lines) \in Nat /\ size \in Nat /\ size <= MaxEntries
         /\ walks \in Seq(Activation)
         /\ Len(walks) \in Nat /\ Len(walks) >= 1
         /\ \A i \in 1 .. Len(walks) :
              /\ walks[i] \in Activation
              /\ walks[i].s # NULL => parent[walks[i].s] = IF i = Len(walks) THEN NULL ELSE walks[i + 1].s
              /\ walks[i].level = Len(walks) - i
         /\ \A i \in 2 .. Len(walks) :
              /\ walks[i].s \in 1 .. Len(lines)
              /\ walks[i].level = lines[walks[i].s].level
              /\ walks[i].offset = After(walks[i].s)
              /\ \A x \in walks[i].s + 1 .. Len(lines) : parent[x] >= walks[i].s
              /\ \A j \in 2 .. i : walks[i].s <= walks[j].s
<1>1. walks \in Seq(Activation) /\ walks # <<>> /\ lines \in Seq(Line)
  BY DEF WalksFollow, LinesFollow
<1>2. size \in Nat /\ size <= MaxEntries
  BY DEF TableInvariant, TypeOK
<1>3. /\ Len(lines) \in Nat /\ Len(walks) \in Nat /\ Len(walks) >= 1
      /\ \A i \in 1 .. Len(walks) : walks[i] \in Activation
  BY <1>1, EmptySeq
<1>4. ASSUME NEW i \in 1 .. Len(walks)
      PROVE  /\ walks[i].s # NULL => parent[walks[i].s] = IF i = Len(walks) THEN NULL ELSE walks[i + 1].s
             /\ walks[i].level = Len(walks) - i
             /\ i > 1 => /\ walks[i].s \in 1 .. Len(lines)
                         /\ walks[i].level = lines[walks[i].s].level
                         /\ walks[i].offset = After(walks[i].s)
                         /\ \A x \in walks[i].s + 1 .. Len(lines) : parent[x] >= walks[i].s
                         /\ \A j \in 2 .. i : walks[i].s <= walks[j].s
  <2>1. WalkFollows(i)
    BY DEF WalksFollow
  <2> QED
    BY <2>1 DEF WalkFollows
<1>5. \A i \in 2 .. Len(walks) : i \in 1 .. Len(walks) /\ i > 1
  BY <1>3
<1> QED
  BY <1>1, <1>2, <1>3, <1>4, <1>5

\* One turn of the loop lists the next entry, and goes inside.
LEMMA PrintKeepsList ==
  ASSUME TableInvariant, ListInvariant, PrintEntry, UNCHANGED vars
  PROVE  ListInvariant'
<1>0. PICK e, n, m, top : e = Innermost.s /\ n = Len(lines) /\ m = Len(walks) /\ top = Innermost
  OBVIOUS
<1>1. /\ SourceOrder' /\ TableInvariant'
      /\ SourceOrder /\ LinesFollow /\ WalksFollow /\ phase = "list" /\ phase' = "list"
  BY WalkKeepsTable DEF ListInvariant, PrintEntry
<1>2. /\ size' = size /\ parent' = parent /\ prev' = prev /\ symbol' = symbol /\ next' = next /\ child' = child
  BY DEF vars, links
<1>3. /\ walks \in Seq(Activation) /\ m \in Nat /\ m >= 1 /\ n \in Nat /\ size \in Nat /\ size <= MaxEntries
      /\ top = walks[1] /\ top.s = e /\ top.level = m - 1
      /\ top \in Activation /\ top.level \in Nat /\ top.offset \in Int
      /\ e # NULL => parent[e] = IF m = 1 THEN NULL ELSE walks[2].s
  <2>1. /\ walks \in Seq(Activation) /\ m \in Nat /\ m >= 1 /\ n \in Nat /\ size \in Nat /\ size <= MaxEntries
        /\ walks[1] \in Activation /\ walks[1].level = m - 1
        /\ walks[1].s # NULL => parent[walks[1].s] = IF 1 = m THEN NULL ELSE walks[2].s
    BY <1>0, <1>1, WalkFacts
  <2>2. top = walks[1] /\ e = top.s
    BY <1>0 DEF Innermost
  <2> QED
    BY <2>1, <2>2 DEF Activation
<1>4. \A i \in 2 .. m :
        /\ walks[i] \in Activation
        /\ parent[walks[i].s] = IF i = m THEN NULL ELSE walks[i + 1].s
        /\ walks[i].level = m - i
        /\ walks[i].s \in 1 .. n
        /\ walks[i].level = lines[walks[i].s].level
        /\ walks[i].offset = After(walks[i].s)
        /\ \A x \in walks[i].s + 1 .. n : parent[x] >= walks[i].s
        /\ \A j \in 2 .. i : walks[i].s <= walks[j].s
  <2> SUFFICES ASSUME NEW i \in 2 .. m
               PROVE  /\ walks[i] \in Activation
                      /\ parent[walks[i].s] = IF i = m THEN NULL ELSE walks[i + 1].s
                      /\ walks[i].level = m - i
                      /\ walks[i].s \in 1 .. n
                      /\ walks[i].level = lines[walks[i].s].level
                      /\ walks[i].offset = After(walks[i].s)
                      /\ \A x \in walks[i].s + 1 .. n : parent[x] >= walks[i].s
                      /\ \A j \in 2 .. i : walks[i].s <= walks[j].s
    OBVIOUS
  <2>1. i \in 1 .. m /\ i \in 2 .. Len(walks) /\ i \in 1 .. Len(walks)
    BY <1>0, <1>3
  <2>2. walks[i].s \in 1 .. n
    BY <1>0, <1>1, <2>1, WalkFacts
  <2>3. walks[i].s # NULL
    BY <2>2, <1>3 DEF NULL
  <2> QED
    BY <1>0, <1>1, <2>1, <2>2, <2>3, WalkFacts
<1>5. /\ e = n + 1 /\ e \in Allocated /\ e \in Entry /\ e \in Nat /\ e <= size
      /\ top.offset = Address(e)
      /\ e > 1 => ~IsNewTree(e)
  <2>1. e # NULL
    BY <1>0 DEF PrintEntry
  <2>2. AtNext(n + 1)
    BY <1>0, <1>1, <2>1 DEF AtEnd, WalksFollow
  <2>3. e = n + 1 /\ e <= size /\ top.offset = Address(e) /\ (e > 1 => ~IsNewTree(e))
    BY <2>2, <1>0 DEF AtNext
  <2> QED
    BY <2>3, <1>3 DEF Allocated, Entry
<1> DEFINE walk0 == [s |-> child[e], level |-> m, offset |-> 0]
           line  == [entry |-> e, level |-> top.level, offset |-> top.offset]
           rest  == [walks EXCEPT ![1].offset = int(@ + SizeOf(e))]
<1>6. lines' = Append(lines, line) /\ walks' = <<walk0>> \o rest
  <2>1. top.level + 1 = m
    BY <1>3
  <2> QED
    BY <1>0, <2>1 DEF PrintEntry, SizeOf, Walk
<1>7. top.level = IF parent[e] = NULL THEN 0 ELSE lines[parent[e]].level + 1
  <2>1. parent[e] = IF m = 1 THEN NULL ELSE walks[2].s
    BY <1>3, <1>5 DEF NULL
  <2>2. CASE m = 1
    BY <2>1, <2>2, <1>3
  <2>3. CASE m # 1
    <3>1. walks[2].s \in 1 .. n /\ walks[2].level = m - 2 /\ walks[2].level = lines[walks[2].s].level
      BY <1>3, <1>4, <2>3
    <3> QED
      BY <2>1, <2>3, <3>1, <1>3 DEF NULL
  <2> QED
    BY <2>2, <2>3
<1>8. /\ LinesFollow'
      /\ Len(lines') = e /\ lines'[e].level = top.level
      /\ \A k \in 1 .. n : lines'[k] = lines[k] /\ After(k)' = After(k)
      /\ After(e)' = int(top.offset + SizeOf(e)) /\ After(e)' \in Int
  <2> HIDE DEF rest, walk0
  <2>1. top.level \in Nat /\ top.offset \in Int /\ e \in Allocated /\ e = Len(lines) + 1
    BY <1>0, <1>3, <1>5
  <2> QED
    BY <1>0, <1>1, <1>5, <1>6, <1>7, <2>1, LineAdded
<1>9. PICK after : after = After(e)' /\ after \in Int /\ after = int(top.offset + SizeOf(e))
  BY <1>8
<1> DEFINE walk1 == [s |-> e, level |-> top.level, offset |-> after]
<1>10. /\ walks' \in Seq(Activation) /\ Len(walks') = m + 1
       /\ walks'[1] = walk0 /\ walks'[2] = walk1
       /\ \A i \in 2 .. m : walks'[i + 1] = walks[i]
  <2>1. walk0 \in Activation
    BY <1>1, <1>3, <1>5 DEF Activation, TableInvariant, TypeOK
  <2>2. walk1 \in Activation /\ walk1 = [walks[1] EXCEPT !.offset = after]
    <3>1. e \in Link
      BY <1>5 DEF Link
    <3>2. \E r \in [s : Link, level : Nat, offset : Int] : r = walks[1] /\ r.s = e /\ r.level = top.level
      BY <1>3 DEF Activation
    <3>3. walk1 \in Activation
      BY <1>3, <1>9, <3>1 DEF Activation
    <3> QED
      BY <1>3, <3>2, <3>3
  <2>3. rest = [walks EXCEPT ![1] = walk1]
    <3>1. rest = [walks EXCEPT ![1] = [walks[1] EXCEPT !.offset = int(walks[1].offset + SizeOf(e))]]
      OBVIOUS
    <3> QED
      BY <1>3, <1>9, <2>2, <3>1
  <2> HIDE DEF walk0, walk1, rest
  <2>4. 1 \in 1 .. Len(walks) /\ Len(walks) = m
    BY <1>0, <1>3
  <2>5. /\ rest \in Seq(Activation) /\ Len(rest) = m /\ rest[1] = walk1
        /\ \A i \in 2 .. m : rest[i] = walks[i]
    BY <1>3, <2>2, <2>3, <2>4
  <2> QED
    BY <1>3, <1>6, <2>1, <2>5
<1> HIDE DEF rest, line
<1>11. ASSUME NEW i \in 2 .. m
       PROVE  walks[i].s < e /\ walks[i].s <= parent[e]
  <2>1. parent[e] = walks[2].s /\ walks[i].s <= walks[2].s /\ walks[i].s \in 1 .. n
    BY <1>3, <1>4, <1>5 DEF NULL
  <2> QED
    BY <2>1, <1>5, <1>3
<1>12. WalkFollows(1)'
  <2>1. child[e] # NULL => parent[child[e]] = e
    BY <1>5, FirstIsBehind, <1>1
  <2>2. walks'[1].s = child[e] /\ walks'[1].level = Len(walks') - 1 /\ walks'[2].s = e /\ 1 # Len(walks')
    BY <1>10, <1>3
  <2> QED
    BY <2>1, <2>2, <1>2 DEF WalkFollows
<1>13. WalkFollows(2)'
  <2>1. /\ walks'[2].s = e /\ walks'[2].level = m - 1 /\ walks'[2].offset = after
        /\ Len(walks') = m + 1 /\ Len(lines') = e /\ lines'[e].level = m - 1
    BY <1>3, <1>8, <1>10
  <2>2. parent'[e] = IF 2 = Len(walks') THEN NULL ELSE walks'[3].s
    <3>1. m # 1 => walks'[3] = walks[2]
      BY <1>10, <1>3
    <3> QED
      BY <2>1, <3>1, <1>2, <1>3, <1>5 DEF NULL
  <2>3. e \in 1 .. e /\ e + 1 .. e = {} /\ e <= e /\ m - 1 = (m + 1) - 2
    BY <1>5, <1>3
  <2>4. \A j \in 2 .. 2 : walks'[2].s <= walks'[j].s
    BY <2>1, <2>3
  <2> QED
    BY <2>1, <2>2, <2>3, <2>4, <1>9 DEF WalkFollows
<1>14. ASSUME NEW k \in 2 .. m PROVE WalkFollows(k + 1)'
  <2>1. PICK v : v = walks[k].s
    OBVIOUS
  <2>2. /\ parent[v] = IF k = m THEN NULL ELSE walks[k + 1].s
        /\ walks[k].level = m - k
        /\ v \in 1 .. n
        /\ walks[k].level = lines[v].level
        /\ walks[k].offset = After(v)
        /\ \A x \in v + 1 .. n : parent[x] >= v
        /\ \A j \in 2 .. k : v <= walks[j].s
        /\ v < e /\ v <= parent[e]
    BY <1>4, <1>11, <2>1
  <2>3. /\ walks'[k + 1] = walks[k] /\ walks'[k + 1].s = v
        /\ Len(walks') = m + 1 /\ Len(lines') = e /\ k + 1 > 1
        /\ v \in 1 .. e /\ lines'[v] = lines[v] /\ After(v)' = After(v)
    <3>1. lines'[v] = lines[v] /\ After(v)' = After(v)
      BY <1>8, <2>2
    <3>2. walks'[k + 1] = walks[k] /\ walks'[k + 1].s = v
      BY <1>10, <2>1
    <3>3. v \in 1 .. e /\ k + 1 > 1
      BY <1>3, <1>5, <2>2
    <3> QED
      BY <1>8, <1>10, <3>1, <3>2, <3>3
  <2>4. parent'[v] = IF k + 1 = Len(walks') THEN NULL ELSE walks'[k + 2].s
    <3>1. ASSUME k # m PROVE walks'[k + 2] = walks[k + 1]
      <4>1. k + 1 \in 2 .. m /\ (k + 1) + 1 = k + 2
        BY <3>1, <1>3
      <4>2. walks'[(k + 1) + 1] = walks[k + 1]
        BY <4>1, <1>10
      <4> QED
        BY <4>1, <4>2
    <3>2. CASE k = m
      BY <3>2, <2>2, <2>3, <1>2
    <3>3. CASE k # m
      <4>1. k + 1 # Len(walks') /\ walks'[k + 2] = walks[k + 1]
        BY <3>1, <3>3, <2>3, <1>3
      <4> QED
        BY <4>1, <3>3, <2>2, <1>2
    <3> QED
      BY <3>2, <3>3
  <2>5. ASSUME NEW x \in v + 1 .. e PROVE parent'[x] >= v
    <3>1. CASE x = e
      BY <3>1, <2>2, <1>2
    <3>2. CASE x # e
      <4>1. x \in v + 1 .. n
        <5>1. v \in 1 .. n
          BY <2>2
        <5>2. n \in Nat /\ e = n + 1
          BY <1>3, <1>5
        <5> QED
          BY <3>2, <5>1, <5>2
      <4>2. parent[x] >= v
        BY <4>1, <2>2
      <4> QED
        BY <4>2, <1>2
    <3> QED
      BY <3>1, <3>2
  <2>6. ASSUME NEW j \in 2 .. k + 1 PROVE v <= walks'[j].s
    <3>1. CASE j = 2
      <4>1. v < e /\ v \in Nat /\ e \in Nat
        BY <1>5, <2>2
      <4>2. walks'[j].s = e
        BY <3>1, <1>10
      <4> QED
        BY <4>1, <4>2
    <3>2. CASE j # 2
      <4>1. j - 1 \in 2 .. k /\ j - 1 \in 2 .. m /\ (j - 1) + 1 = j
        BY <3>2, <1>3
      <4>2. walks'[(j - 1) + 1] = walks[j - 1]
        BY <4>1, <1>10
      <4> QED
        BY <4>1, <4>2, <2>2
    <3> QED
      BY <3>1, <3>2
  <2>7. walks'[k + 1].level = Len(walks') - (k + 1)
    BY <2>2, <2>3, <1>3
  <2> QED
    BY <2>2, <2>3, <2>4, <2>5, <2>6, <2>7 DEF WalkFollows
<1>15. AtNext(e + 1)' \/ AtEnd(e + 1)'
  <2>1. Innermost'.s = child[e] /\ Innermost'.offset = 0
    BY <1>10 DEF Innermost
  <2>2. CASE child[e] # NULL
    <3>1. child[e] = e + 1 /\ e + 1 <= size /\ parent[e + 1] = e /\ prev[e + 1] = NULL
      BY <2>2, <1>1, <1>5, FirstIsBehind
    <3>2. Address(e + 1)' = 0 /\ ~IsNewTree(e + 1)'
      <4>1. prev'[e + 1] = NULL /\ parent'[e + 1] # NULL
        <5>1. e # NULL
          BY <1>3, <1>5 DEF NULL
        <5> QED
          BY <5>1, <3>1, <1>2
      <4> QED
        BY <4>1 DEF Address, IsNewTree
    <3> QED
      BY <2>1, <3>1, <3>2, <1>2 DEF AtNext
  <2>3. CASE child[e] = NULL
    <3>1. ASSUME e + 1 <= size PROVE parent[e + 1] < e
      <4>1. e + 1 \in Entry
        BY <3>1, <1>3, <1>5 DEF Entry
      <4>2. parent[e + 1] < e + 1 /\ parent[e + 1] \in Nat
        BY <4>1, <1>1 DEF TableInvariant, TypeOK, Ordered, Link, Entry, NULL
      <4>3. parent[e + 1] # e
        BY <4>1, <2>3, <1>1, <1>5, FirstIsBehind
      <4> QED
        BY <4>2, <4>3, <1>5
    <3>2. Len(walks') # 1 /\ walks'[2].s = e /\ e + 1 > 1
      BY <1>10, <1>3, <1>5
    <3> QED
      BY <2>1, <2>3, <3>1, <3>2, <1>2 DEF AtEnd
  <2> QED
    BY <2>2, <2>3
<1>16. WalksFollow'
  <2>1. ASSUME NEW i \in 1 .. Len(walks') PROVE WalkFollows(i)'
    <3>1. i = 1 \/ i = 2 \/ i - 1 \in 2 .. m
      BY <1>3, <1>10
    <3>2. i - 1 \in 2 .. m => WalkFollows((i - 1) + 1)'
      BY <1>14
    <3> QED
      BY <3>1, <3>2, <1>12, <1>13
  <2>2. walks' # <<>> /\ Len(lines') + 1 = e + 1
    BY <1>3, <1>8, <1>10
  <2> QED
    BY <1>10, <1>15, <2>1, <2>2 DEF WalksFollow
<1> QED
  BY <1>1, <1>8, <1>16 DEF ListInvariant

\* The end of a scope: the caller goes on with the sibling of the entry that
\* the scope is inside of, or comes to its own end.
LEMMA EndKeepsList ==
  ASSUME TableInvariant, ListInvariant, WalkEnds, UNCHANGED vars
  PROVE  ListInvariant'
<1>0. PICK n, m : n = Len(lines) /\ m = Len(walks)
  OBVIOUS
<1>1. /\ SourceOrder' /\ TableInvariant'
      /\ SourceOrder /\ LinesFollow /\ WalksFollow /\ phase = "list" /\ lines' = lines
  BY WalkKeepsTable DEF ListInvariant, WalkEnds
<1>2. /\ size' = size /\ parent' = parent /\ prev' = prev /\ symbol' = symbol /\ next' = next /\ child' = child
  BY DEF vars, links
<1>3. /\ walks \in Seq(Activation) /\ m \in Nat /\ m >= 1 /\ n \in Nat /\ size \in Nat /\ n <= size
      /\ size <= MaxEntries
  BY <1>0, <1>1, WalkFacts DEF LinesFollow
<1>4. /\ \A k : SizeOf(k)' = SizeOf(k) /\ After(k)' = After(k)
      /\ \A k : Address(k)' = Address(k) /\ IsNewTree(k)' = IsNewTree(k)
  BY <1>1, <1>2 DEF SizeOf, IsVariable, After, Address, IsNewTree
<1>5. LinesFollow'
  BY <1>1, <1>2, <1>4 DEF LinesFollow
<1>6. n + 1 <= size => n > 0 /\ IF m = 1 THEN IsNewTree(n + 1) ELSE parent[n + 1] < walks[2].s
  <2>1. AtEnd(n + 1)
    <3>1. Innermost.s = NULL /\ n + 1 # NULL
      BY <1>3 DEF WalkEnds, NULL
    <3> QED
      BY <1>0, <1>1, <3>1 DEF AtNext, WalksFollow
  <2> QED
    BY <2>1, <1>0, <1>3 DEF AtEnd
<1>7. CASE m = 1
  <2>1. phase' = "end"
    BY <1>0, <1>7 DEF WalkEnds
  <2>2. (Len(lines) < size => Len(lines) > 0 /\ IsNewTree(Len(lines) + 1))'
    <3>1. n < size => n > 0 /\ IsNewTree(n + 1)'
      BY <1>3, <1>4, <1>6, <1>7
    <3>2. Len(lines') = n
      BY <1>0, <1>1
    <3> QED
      BY <3>1, <3>2, <1>2
  <2> QED
    BY <1>1, <1>5, <2>1, <2>2 DEF ListInvariant
<1>8. CASE m # 1
  <2>1. /\ phase' = "list"
        /\ walks' = [Tail(walks) EXCEPT ![1].s = next[@]]
    BY <1>0, <1>1, <1>8 DEF WalkEnds
  <2>2. PICK w, o : w = walks[2] /\ o = walks[2].s
    OBVIOUS
  <2>3. \A i \in 2 .. m :
          /\ walks[i] \in Activation
          /\ parent[walks[i].s] = IF i = m THEN NULL ELSE walks[i + 1].s
          /\ walks[i].level = m - i
          /\ walks[i].s \in 1 .. n
          /\ walks[i].level = lines[walks[i].s].level
          /\ walks[i].offset = After(walks[i].s)
          /\ \A x \in walks[i].s + 1 .. n : parent[x] >= walks[i].s
          /\ \A j \in 2 .. i : walks[i].s <= walks[j].s
    <3> SUFFICES ASSUME NEW i \in 2 .. m
                 PROVE  /\ walks[i] \in Activation
                        /\ parent[walks[i].s] = IF i = m THEN NULL ELSE walks[i + 1].s
                        /\ walks[i].level = m - i
                        /\ walks[i].s \in 1 .. n
                        /\ walks[i].level = lines[walks[i].s].level
                        /\ walks[i].offset = After(walks[i].s)
                        /\ \A x \in walks[i].s + 1 .. n : parent[x] >= walks[i].s
                        /\ \A j \in 2 .. i : walks[i].s <= walks[j].s
      OBVIOUS
    <3>1. i \in 1 .. m /\ i \in 2 .. Len(walks) /\ i \in 1 .. Len(walks)
      BY <1>0, <1>3
    <3>2. walks[i].s \in 1 .. n
      BY <1>0, <1>1, <3>1, WalkFacts
    <3>3. walks[i].s # NULL
      BY <3>2, <1>3 DEF NULL
    <3> QED
      BY <1>0, <1>1, <3>1, <3>2, <3>3, WalkFacts
  <2>4. /\ w \in Activation /\ w.s = o /\ o \in 1 .. n /\ o \in Allocated /\ o \in Entry
        /\ w.level = m - 2 /\ w.offset = After(o)
        /\ parent[o] = IF 2 = m THEN NULL ELSE walks[3].s
        /\ \A x \in o + 1 .. n : parent[x] >= o
    <3>1. 2 \in 2 .. m
      BY <1>3, <1>8
    <3>2. /\ w \in Activation /\ w.s = o /\ o \in 1 .. n
          /\ w.level = m - 2 /\ w.offset = After(o)
          /\ parent[o] = IF 2 = m THEN NULL ELSE walks[3].s
          /\ \A x \in o + 1 .. n : parent[x] >= o
      BY <2>2, <2>3, <3>1
    <3> QED
      BY <3>2, <1>3 DEF Allocated, Entry
  <2>5. PICK f : f = next[o]
    OBVIOUS
  <2> DEFINE w1 == [w EXCEPT !.s = f]
  <2>6. w1 \in Activation /\ w1.s = f /\ w1.level = m - 2 /\ w1.offset = After(o)
    <3>1. f \in Link
      BY <2>4, <2>5, <1>1 DEF TableInvariant, TypeOK
    <3> QED
      BY <2>4, <3>1 DEF Activation
  <2> HIDE DEF w1
  <2>7. /\ walks' \in Seq(Activation) /\ Len(walks') = m - 1
        /\ walks'[1] = w1
        /\ \A i \in 3 .. m : walks'[i - 1] = walks[i]
    <3>0. PICK t : t = Tail(walks)
      OBVIOUS
    <3>1. /\ t \in Seq(Activation) /\ Len(t) = m - 1 /\ 1 \in 1 .. m - 1
          /\ \A i \in 1 .. m - 1 : t[i] = walks[i + 1]
      BY <3>0, <1>0, <1>3, <1>8
    <3>2. walks' = [t EXCEPT ![1] = w1]
      <4>1. t[1] = w
        BY <3>1, <2>2
      <4>2. walks' = [t EXCEPT ![1] = [t[1] EXCEPT !.s = next[t[1].s]]]
        BY <2>1, <3>0
      <4> QED
        BY <4>1, <4>2, <2>4, <2>5 DEF w1
    <3>3. /\ walks' \in Seq(Activation) /\ Len(walks') = m - 1 /\ walks'[1] = w1
          /\ \A i \in 2 .. m - 1 : walks'[i] = t[i]
      <4>1. \A i \in 2 .. m - 1 : i \in 1 .. m - 1 /\ i # 1
        BY <1>3
      <4> QED
        BY <3>1, <3>2, <2>6, <4>1
    <3>4. ASSUME NEW i \in 3 .. m PROVE walks'[i - 1] = walks[i]
      <4>1. i - 1 \in 2 .. m - 1 /\ i - 1 \in 1 .. m - 1 /\ (i - 1) + 1 = i
        BY <1>3
      <4> QED
        BY <4>1, <3>1, <3>3
    <3> QED
      BY <3>3, <3>4
  <2>8. /\ f # NULL => f = n + 1 /\ n + 1 <= size
        /\ f = NULL /\ n + 1 <= size => IF parent[o] = NULL THEN IsNewTree(n + 1) ELSE parent[n + 1] < parent[o]
    <3>1. n \in o .. size /\ (n + 1 <= size => parent[n + 1] < o)
      BY <1>3, <1>6, <1>8, <2>2, <2>4
    <3> QED
      BY <1>1, <2>4, <2>5, <3>1, NextAfterInside
  <2>9. f # NULL => f \in Entry /\ prev[f] = o /\ parent[f] = parent[o] /\ o # NULL
    <3> SUFFICES ASSUME f # NULL PROVE f \in Entry /\ prev[f] = o /\ parent[f] = parent[o] /\ o # NULL
      OBVIOUS
    <3>1. f \in Entry /\ o # NULL
      BY <1>3, <2>4, <2>8 DEF Entry, NULL
    <3>2. prev[f] = o
      BY <2>4, <2>5, <1>1 DEF TableInvariant, WellLinked
    <3> QED
      BY <3>1, <3>2, <1>1 DEF TableInvariant, WellLinked
  <2>10. WalkFollows(1)'
    <3>1. /\ walks'[1].s = f /\ walks'[1].level = Len(walks') - 1
          /\ Len(walks') = m - 1
      BY <2>6, <2>7, <1>3
    <3>2. m # 2 => walks'[2] = walks[3] /\ 3 \in 3 .. m
      <4>1. m # 2 => 3 \in 3 .. m
        BY <1>3, <1>8
      <4>2. 3 \in 3 .. m => walks'[3 - 1] = walks[3]
        BY <2>7
      <4> QED
        BY <4>1, <4>2
    <3>3. f # NULL => parent'[f] = IF 1 = Len(walks') THEN NULL ELSE walks'[2].s
      BY <3>1, <3>2, <2>4, <2>9, <1>2, <1>3
    <3> QED
      BY <3>1, <3>3 DEF WalkFollows
  <2>11. ASSUME NEW k \in 3 .. m PROVE WalkFollows(k - 1)'
    <3>1. PICK v : v = walks[k].s
      OBVIOUS
    <3>2. /\ parent[v] = IF k = m THEN NULL ELSE walks[k + 1].s
          /\ walks[k].level = m - k
          /\ v \in 1 .. n
          /\ walks[k].level = lines[v].level
          /\ walks[k].offset = After(v)
          /\ \A x \in v + 1 .. n : parent[x] >= v
          /\ \A j \in 2 .. k : v <= walks[j].s
      <4>1. k \in 2 .. m
        BY <1>3
      <4> QED
        BY <4>1, <2>3, <3>1
    <3>3. walks'[k - 1] = walks[k] /\ walks'[k - 1].s = v /\ Len(walks') = m - 1 /\ k - 1 > 1
      BY <2>7, <3>1, <1>3
    <3>4. parent'[v] = IF k - 1 = Len(walks') THEN NULL ELSE walks'[(k - 1) + 1].s
      <4>1. k # m => walks'[(k - 1) + 1] = walks[k + 1]
        <5> SUFFICES ASSUME k # m PROVE walks'[(k - 1) + 1] = walks[k + 1]
          OBVIOUS
        <5>1. k + 1 \in 3 .. m /\ (k - 1) + 1 = (k + 1) - 1
          BY <1>3
        <5> QED
          BY <5>1, <2>7
      <4> QED
        BY <3>2, <3>3, <4>1, <1>2, <1>3
    <3>5. ASSUME NEW j \in 2 .. k - 1 PROVE v <= walks'[j].s
      <4>1. j + 1 \in 3 .. m /\ j + 1 \in 2 .. k /\ (j + 1) - 1 = j
        BY <1>3
      <4>2. walks'[j] = walks[j + 1]
        BY <4>1, <2>7
      <4> QED
        BY <4>1, <4>2, <3>2
    <3>6. walks'[k - 1].level = Len(walks') - (k - 1)
      BY <3>2, <3>3, <1>3
    <3> QED
      BY <1>0, <1>1, <1>2, <1>4, <3>2, <3>3, <3>4, <3>5, <3>6 DEF WalkFollows
  <2>12. AtNext(n + 1)' \/ AtEnd(n + 1)'
    <3>1. Innermost'.s = f /\ Innermost'.offset = After(o)
      BY <2>6, <2>7 DEF Innermost
    <3>2. CASE f # NULL
      <4>1. Address(n + 1)' = After(o) /\ ~IsNewTree(n + 1)'
        <5>1. prev[n + 1] = o /\ o # NULL
          BY <3>2, <2>8, <2>9
        <5> QED
          BY <5>1, <1>4 DEF Address, IsNewTree
      <4> QED
        BY <3>1, <3>2, <4>1, <2>8, <1>2 DEF AtNext
    <3>3. CASE f = NULL
      <4>0. n + 1 <= size => n + 1 > 1
        BY <1>3, <1>6
      <4>1. ASSUME n + 1 <= size
            PROVE  IF Len(walks') = 1 THEN IsNewTree(n + 1)' ELSE parent'[n + 1] < walks'[2].s
        <5>1. IF parent[o] = NULL THEN IsNewTree(n + 1) ELSE parent[n + 1] < parent[o]
          BY <3>3, <4>1, <2>8
        <5>2. CASE m = 2
          BY <5>1, <5>2, <2>4, <2>7, <1>4
        <5>3. CASE m # 2
          <6>1. 3 \in 3 .. m /\ 3 \in 2 .. m
            BY <5>3, <1>3, <1>8
          <6>2. walks'[3 - 1] = walks[3] /\ parent[o] = walks[3].s /\ walks[3].s \in 1 .. n
            BY <6>1, <5>3, <2>3, <2>4, <2>7
          <6>3. parent[o] # NULL /\ Len(walks') # 1
            BY <6>2, <5>3, <2>7, <1>3 DEF NULL
          <6> QED
            BY <5>1, <6>2, <6>3, <1>2
        <5> QED
          BY <5>2, <5>3
      <4> QED
        BY <3>1, <3>3, <4>0, <4>1, <1>2 DEF AtEnd
    <3> QED
      BY <3>2, <3>3
  <2>13. WalksFollow'
    <3>1. ASSUME NEW i \in 1 .. Len(walks') PROVE WalkFollows(i)'
      <4>1. i = 1 \/ i + 1 \in 3 .. m
        BY <2>7, <1>3
      <4>2. i + 1 \in 3 .. m => WalkFollows((i + 1) - 1)'
        BY <2>11
      <4>3. (i + 1) - 1 = i
        BY <2>7, <1>3
      <4> QED
        BY <4>1, <4>2, <4>3, <2>10
    <3>2. walks' # <<>> /\ Len(lines') + 1 = n + 1
      BY <2>7, <1>0, <1>1, <1>3, <1>8
    <3> QED
      BY <2>7, <2>12, <3>1, <3>2 DEF WalksFollow
  <2> QED
    BY <1>1, <1>5, <2>1, <2>13 DEF ListInvariant
<1> QED
  BY <1>7, <1>8

\* The invariant of the walk: where each line stands and where each
\* activation is, at every step of output_symbol_table.
THEOREM ListingIsInOrder == ListSpec => [](TableInvariant /\ ListInvariant)
<1>1. ListInit => TableInvariant /\ ListInvariant
  BY InitTable, ListInitHolds DEF ListInit
<1>2. ASSUME TableInvariant, ListInvariant, [ListNext]_<<vars, listVars>>
      PROVE  TableInvariant' /\ ListInvariant'
  <2>1. CASE phase = "parse" /\ Next /\ UNCHANGED listVars
    BY <1>2, <2>1, CallsKeepList, NextKeepsTable
  <2>2. CASE (Start \/ PrintEntry \/ WalkEnds) /\ UNCHANGED vars
    BY <1>2, <2>2, StartKeepsList, PrintKeepsList, EndKeepsList, WalkKeepsTable DEF ListInvariant
  <2>3. CASE UNCHANGED <<vars, listVars>>
    <3>1. TableInvariant' /\ SourceOrder'
      BY <1>2, <2>3, WalkKeepsTable DEF ListInvariant
    <3>2. /\ UNCHANGED <<phase, walks, lines, size, parent, prev, symbol>>
      BY <2>3 DEF vars, links, listVars
    <3>3. LinesFollow'
      BY <1>2, <3>2 DEF ListInvariant, LinesFollow, Address, After, SizeOf, IsVariable, IsNewTree
    <3>4. phase = "list" => WalksFollow'
      BY <1>2, <3>2 DEF ListInvariant, WalksFollow, WalkFollows, AtNext, AtEnd, Innermost, Address, After,
                        SizeOf, IsVariable, IsNewTree
    <3> QED
      BY <1>2, <3>1, <3>2, <3>3, <3>4 DEF ListInvariant, IsNewTree
  <2> QED
    BY <1>2, <2>1, <2>2, <2>3 DEF ListNext
<1> QED
  BY <1>1, <1>2, PTL DEF ListSpec

-----------------------------------------------------------------------------
(* The listing is the outline.                                             *)

\* The way back to the first sibling, unfolded: it follows prev, which shrinks.
LEMMA FirstDef ==
  ASSUME TypeOK, Ordered
  PROVE  \A e \in Entry : First(e) = IF prev[e] = NULL THEN e ELSE First(prev[e])
<1> DEFINE mu == [x \in Entry |-> x]
           R  == Entry
           B  == {x \in Entry : prev[x] = NULL}
           b  == [x \in Entry |-> x]
           h  == [p \in Entry \X R |-> p[2]]
           Eq(f) == f = [x \in Entry |-> IF prev[x] = NULL THEN x ELSE f[prev[x]]]
<1>1. mu \in [Entry -> Nat]
  BY DEF Link, Entry, NULL
<1>2. ASSUME NEW x \in Entry \ B PROVE prev[x] \in Entry /\ mu[prev[x]] < mu[x]
  <2>1. x \in Entry
    BY DEF Link
  <2>2. prev[x] \in Entry /\ prev[x] < x
    BY <2>1 DEF TypeOK, Ordered, Link
  <2> QED
    BY <2>1, <2>2
<1>3. \A x \in Entry, r \in R : h[<<x, r>>] = r /\ r \in R
  OBVIOUS
<1>4. \A x \in Entry : b[x] = x /\ b[x] \in R /\ (x \in B <=> prev[x] = NULL)
  OBVIOUS
<1> HIDE DEF mu, R, B, b, h
<1>5. PICK f : Recursion(f, Entry, B, b, prev, h)
  BY <1>1, <1>2, RecursionExists
<1>6. f \in [Entry -> R]
  <2>1. \A x \in Entry \cap B : b[x] \in R
    BY <1>4
  <2>2. \A x \in Entry \ B : \A r \in R : h[<<x, r>>] \in R
    BY <1>3
  <2> QED
    <3>1. \A x \in Entry \ B : prev[x] \in Entry /\ mu[prev[x]] < mu[x]
      BY <1>2
    <3>2. mu \in [Entry -> Nat]
      BY <1>1
    <3>3. Recursion(f, Entry, B, b, prev, h)
      BY <1>5
    <3> QED
      BY SMTT(30), <3>1, <3>2, <3>3, <2>1, <2>2, RecursionType
<1>7. Eq(f)
  <2>1. f = [x \in Entry |-> IF x \in B THEN b[x] ELSE h[<<x, f[prev[x]]>>]]
    BY <1>5 DEF Recursion
  <2>2. ASSUME NEW x \in Entry
        PROVE  (IF x \in B THEN b[x] ELSE h[<<x, f[prev[x]]>>]) = IF prev[x] = NULL THEN x ELSE f[prev[x]]
    BY <1>2, <1>3, <1>4, <1>6
  <2> QED
    BY <2>1, <2>2
<1> DEFINE def == CHOOSE f1 : Eq(f1)
<1>8. Eq(def)
  <2> HIDE DEF Eq
  <2> QED
    BY <1>7
<1>9. \A e : First(e) = def[e]
  BY DEF First
<1> HIDE DEF def
<1> QED
  BY <1>8, <1>9

\* The way out to the first entry of the tree: it follows parent.
LEMMA OutermostDef ==
  ASSUME TypeOK, Ordered
  PROVE  \A e \in Entry : Outermost(e) = IF parent[e] = NULL THEN First(e) ELSE Outermost(parent[e])
<1> DEFINE mu == [x \in Entry |-> x]
           R  == {First(y) : y \in Entry}
           B  == {x \in Entry : parent[x] = NULL}
           b  == [x \in Entry |-> First(x)]
           h  == [p \in Entry \X R |-> p[2]]
           Eq(f) == f = [x \in Entry |-> IF parent[x] = NULL THEN First(x) ELSE f[parent[x]]]
<1>1. mu \in [Entry -> Nat]
  BY DEF Link, Entry, NULL
<1>2. ASSUME NEW x \in Entry \ B PROVE parent[x] \in Entry /\ mu[parent[x]] < mu[x]
  <2>1. x \in Entry
    BY DEF Link
  <2>2. parent[x] \in Entry /\ parent[x] < x
    BY <2>1 DEF TypeOK, Ordered, Link
  <2> QED
    BY <2>1, <2>2
<1>3. \A x \in Entry, r \in R : h[<<x, r>>] = r /\ r \in R
  OBVIOUS
<1>4. \A x \in Entry : b[x] = First(x) /\ b[x] \in R /\ (x \in B <=> parent[x] = NULL)
  OBVIOUS
<1> HIDE DEF mu, R, B, b, h
<1>5. PICK f : Recursion(f, Entry, B, b, parent, h)
  BY <1>1, <1>2, RecursionExists
<1>6. f \in [Entry -> R]
  <2>1. \A x \in Entry \cap B : b[x] \in R
    BY <1>4
  <2>2. \A x \in Entry \ B : \A r \in R : h[<<x, r>>] \in R
    BY <1>3
  <2> QED
    BY <1>1, <1>2, <2>1, <2>2, <1>5, RecursionType
<1>7. Eq(f)
  <2>1. f = [x \in Entry |-> IF x \in B THEN b[x] ELSE h[<<x, f[parent[x]]>>]]
    BY <1>5 DEF Recursion
  <2>2. ASSUME NEW x \in Entry
        PROVE  (IF x \in B THEN b[x] ELSE h[<<x, f[parent[x]]>>]) = IF parent[x] = NULL THEN First(x) ELSE f[parent[x]]
    BY <1>2, <1>3, <1>4, <1>6
  <2> QED
    BY <2>1, <2>2
<1> DEFINE def == CHOOSE f1 : Eq(f1)
<1>8. Eq(def)
  <2> HIDE DEF Eq
  <2> QED
    BY <1>7
<1>9. \A e : Outermost(e) = def[e]
  BY DEF Outermost
<1> HIDE DEF def
<1> QED
  BY <1>8, <1>9

\* How deep an entry is: one more than its method.
LEMMA LevelDef ==
  ASSUME TypeOK, Ordered
  PROVE  \A e \in Entry : LevelOf(e) = IF parent[e] = NULL THEN 0 ELSE 1 + LevelOf(parent[e])
<1> DEFINE mu == [x \in Link |-> x]
           R  == Nat
           B  == {x \in Link : x = NULL}
           b  == [x \in Link |-> 0]
           h  == [p \in Link \X R |-> 1 + p[2]]
           Eq(f) == f = [x \in Link |-> IF x = NULL THEN 0 ELSE 1 + f[parent[x]]]
<1>1. mu \in [Link -> Nat]
  BY DEF Link, Entry, NULL
<1>2. ASSUME NEW x \in Link \ B PROVE parent[x] \in Link /\ mu[parent[x]] < mu[x]
  <2>1. x \in Entry /\ x \in Link
    BY DEF Link
  <2>2. parent[x] \in Link /\ parent[x] < x
    BY <2>1 DEF TypeOK, Ordered, Link
  <2> QED
    BY <2>1, <2>2
<1>3. \A x \in Link, r \in R : h[<<x, r>>] = 1 + r /\ 1 + r \in R
  OBVIOUS
<1>4. \A x \in Link : b[x] = 0 /\ b[x] \in R /\ (x \in B <=> x = NULL)
  OBVIOUS
<1> HIDE DEF mu, R, B, b, h
<1>5. PICK f : Recursion(f, Link, B, b, parent, h)
  BY <1>1, <1>2, RecursionExists
<1>6. f \in [Link -> R]
  <2>1. \A x \in Link \cap B : b[x] \in R
    BY <1>4
  <2>2. \A x \in Link \ B : \A r \in R : h[<<x, r>>] \in R
    BY <1>3
  <2> QED
    <3>1. \A x \in Link \ B : parent[x] \in Link /\ mu[parent[x]] < mu[x]
      BY <1>2
    <3>2. mu \in [Link -> Nat]
      BY <1>1
    <3>3. Recursion(f, Link, B, b, parent, h)
      BY <1>5
    <3> QED
      BY SMTT(30), <3>1, <3>2, <3>3, <2>1, <2>2, RecursionType
<1>7. Eq(f)
  <2>1. f = [x \in Link |-> IF x \in B THEN b[x] ELSE h[<<x, f[parent[x]]>>]]
    BY <1>5 DEF Recursion
  <2>2. ASSUME NEW x \in Link
        PROVE  (IF x \in B THEN b[x] ELSE h[<<x, f[parent[x]]>>]) = IF x = NULL THEN 0 ELSE 1 + f[parent[x]]
    <3>1. CASE x = NULL
      BY <1>4, <3>1
    <3>2. CASE x # NULL
      <4>1. x \in Link \ B /\ parent[x] \in Link
        BY <1>2, <1>4, <3>2
      <4>2. f[parent[x]] \in R
        BY <1>6, <4>1
      <4>3. h[<<x, f[parent[x]]>>] = 1 + f[parent[x]]
        BY <1>3, <4>1, <4>2
      <4> QED
        BY <1>4, <3>2, <4>3
    <3> QED
      BY <3>1, <3>2
  <2> QED
    BY <2>1, <2>2
<1> DEFINE def == CHOOSE f1 : Eq(f1)
<1>8. Eq(def)
  <2> HIDE DEF Eq
  <2> QED
    BY <1>7
<1>9. \A e : LevelOf(e) = def[parent[e]]
  BY DEF LevelOf
<1> HIDE DEF def
<1>10. \A x \in Link : def[x] = IF x = NULL THEN 0 ELSE 1 + def[parent[x]]
  BY <1>8
<1>11. \A e \in Entry : parent[e] \in Link /\ (parent[e] # NULL => parent[e] \in Entry)
  BY DEF TypeOK, Link
<1> QED
  BY <1>9, <1>10, <1>11

\* Listed entries are in the tree of the first one.
LEMMA ListedHangBelowRoot ==
  ASSUME TableInvariant, LinesFollow
  PROVE  \A k \in 1 .. Len(lines) : Outermost(k) = 1
<1> USE DEF TableInvariant
<1>1. /\ Len(lines) \in Nat /\ Len(lines) <= size /\ size \in Nat /\ size <= MaxEntries
      /\ \A k \in 1 .. Len(lines) : k > 1 => ~IsNewTree(k)
  BY DEF LinesFollow, TypeOK
<1>2. \A k \in 1 .. Len(lines) :
        /\ k \in Entry /\ k \in Nat
        /\ parent[k] \in Nat /\ prev[k] \in Nat /\ parent[k] < k /\ prev[k] < k
  BY <1>1 DEF TypeOK, Ordered, Entry, Link, NULL
<1>3. ASSUME NEW k \in 1 .. Len(lines), parent[k] = NULL PROVE First(k) = 1
  <2> DEFINE Odd == {j \in 1 .. Len(lines) : parent[j] = NULL /\ First(j) # 1}
  <2> SUFFICES ASSUME Odd # {} PROVE FALSE
    BY <1>3
  <2>1. PICK j \in Odd : \A i \in Odd : j <= i
    <3>1. Odd \in SUBSET Nat
      OBVIOUS
    <3> HIDE DEF Odd
    <3> QED
      BY <3>1, LeastExists
  <2>2. j \in 1 .. Len(lines) /\ j \in Entry /\ parent[j] = NULL /\ First(j) # 1
    BY <2>1, <1>2
  <2>3. First(j) = IF prev[j] = NULL THEN j ELSE First(prev[j])
    BY <2>2, FirstDef
  <2>4. prev[j] # NULL
    BY <2>2, <2>3, <1>1 DEF IsNewTree
  <2>5. prev[j] \in 1 .. Len(lines) /\ parent[prev[j]] = NULL /\ prev[j] < j
    BY <2>2, <2>4, <1>1, <1>2 DEF WellLinked, NULL
  <2> QED
    BY <2>1, <2>2, <2>3, <2>4, <2>5
<1> DEFINE Odd == {j \in 1 .. Len(lines) : Outermost(j) # 1}
<1> SUFFICES ASSUME Odd # {} PROVE FALSE
  OBVIOUS
<1>4. PICK j \in Odd : \A i \in Odd : j <= i
  <2>1. Odd \in SUBSET Nat
    OBVIOUS
  <2> HIDE DEF Odd
  <2> QED
    BY <2>1, LeastExists
<1>5. j \in 1 .. Len(lines) /\ j \in Entry /\ Outermost(j) # 1
  BY <1>4, <1>2
<1>6. Outermost(j) = IF parent[j] = NULL THEN First(j) ELSE Outermost(parent[j])
  BY <1>5, OutermostDef
<1>7. parent[j] # NULL
  BY <1>3, <1>5, <1>6
<1>8. parent[j] \in 1 .. Len(lines) /\ parent[j] < j
  BY <1>1, <1>2, <1>5, <1>7 DEF NULL
<1> QED
  BY <1>4, <1>5, <1>6, <1>7, <1>8

\* Entries from a new tree on are in that tree or a later one.
LEMMA NewTreeIsApart ==
  ASSUME TableInvariant, SourceOrder, NEW r \in Allocated, IsNewTree(r), NEW e \in r .. size
  PROVE  Outermost(e) >= r
<1> USE DEF TableInvariant
<1>1. r \in Nat /\ r >= 1 /\ size \in Nat /\ size <= MaxEntries
  BY DEF TypeOK, Allocated
<1>2. \A x \in r .. size :
        /\ x \in Entry /\ x \in Nat
        /\ parent[x] # NULL => parent[x] \in r .. size /\ parent[x] < x
        /\ prev[x] # NULL => prev[x] \in r .. size /\ prev[x] < x
  <2> SUFFICES ASSUME NEW x \in r .. size
               PROVE  /\ x \in Entry /\ x \in Nat
                      /\ parent[x] # NULL => parent[x] \in r .. size /\ parent[x] < x
                      /\ prev[x] # NULL => prev[x] \in r .. size /\ prev[x] < x
    OBVIOUS
  <2>1. x \in Entry /\ x \in Nat /\ parent[x] \in Nat /\ prev[x] \in Nat /\ parent[x] < x /\ prev[x] < x
    BY <1>1 DEF TypeOK, Ordered, Entry, Link, NULL
  <2>2. CASE x = r
    BY <2>1, <2>2 DEF IsNewTree
  <2>3. CASE x # r
    <3>1. x \in r + 1 .. size
      BY <2>3, <1>1
    <3>2. (parent[x] = NULL \/ parent[x] >= r) /\ (prev[x] = NULL \/ prev[x] >= r)
      BY <3>1 DEF SourceOrder, TreesAreApart
    <3> QED
      BY <2>1, <3>2, <1>1
  <2> QED
    BY <2>2, <2>3
<1>3. ASSUME NEW k \in r .. size PROVE First(k) >= r
  <2> DEFINE Odd == {j \in r .. size : ~(First(j) >= r)}
  <2> SUFFICES ASSUME Odd # {} PROVE FALSE
    OBVIOUS
  <2>1. PICK j \in Odd : \A i \in Odd : j <= i
    <3>1. Odd \in SUBSET Nat
      BY <1>1
    <3> HIDE DEF Odd
    <3> QED
      BY <3>1, LeastExists
  <2>2. j \in r .. size /\ j \in Entry /\ ~(First(j) >= r) /\ j >= r
    BY <2>1, <1>1, <1>2
  <2>3. First(j) = IF prev[j] = NULL THEN j ELSE First(prev[j])
    BY <2>2, FirstDef
  <2>4. prev[j] # NULL
    BY <2>2, <2>3
  <2>5. prev[j] \in r .. size /\ prev[j] < j
    BY <2>2, <2>4, <1>2
  <2> QED
    BY <2>1, <2>2, <2>3, <2>4, <2>5, <1>2
<1> DEFINE Odd == {j \in r .. size : ~(Outermost(j) >= r)}
<1> SUFFICES ASSUME Odd # {} PROVE FALSE
  OBVIOUS
<1>4. PICK j \in Odd : \A i \in Odd : j <= i
  <2>1. Odd \in SUBSET Nat
    BY <1>1
  <2> HIDE DEF Odd
  <2> QED
    BY <2>1, LeastExists
<1>5. j \in r .. size /\ j \in Entry /\ ~(Outermost(j) >= r)
  BY <1>4, <1>2
<1>6. Outermost(j) = IF parent[j] = NULL THEN First(j) ELSE Outermost(parent[j])
  BY <1>5, OutermostDef
<1>7. parent[j] # NULL
  BY <1>3, <1>5, <1>6
<1>8. parent[j] \in r .. size /\ parent[j] < j
  BY <1>2, <1>5, <1>7
<1> QED
  BY <1>4, <1>5, <1>6, <1>7, <1>8, <1>2

\* Each line is as deep as its entry.
LEMMA ListedAsDeep ==
  ASSUME TableInvariant, LinesFollow
  PROVE  \A k \in 1 .. Len(lines) : lines[k].level = LevelOf(k)
<1> USE DEF TableInvariant
<1>1. /\ Len(lines) \in Nat /\ Len(lines) <= size /\ size \in Nat /\ size <= MaxEntries
      /\ \A k \in 1 .. Len(lines) : lines[k].level = IF parent[k] = NULL THEN 0 ELSE lines[parent[k]].level + 1
  BY DEF LinesFollow, TypeOK
<1>2. ASSUME NEW k \in 1 .. Len(lines)
      PROVE  k \in Entry /\ k \in Nat /\ parent[k] \in Nat /\ parent[k] < k
  <2>1. k \in Entry /\ k \in Nat
    BY <1>1 DEF Entry
  <2> QED
    BY <2>1 DEF TypeOK, Ordered, Entry, Link, NULL
<1> DEFINE Odd == {j \in 1 .. Len(lines) : lines[j].level # LevelOf(j)}
<1> SUFFICES ASSUME Odd # {} PROVE FALSE
  OBVIOUS
<1>4. PICK j \in Odd : \A i \in Odd : j <= i
  <2>1. Odd \in SUBSET Nat
    OBVIOUS
  <2> HIDE DEF Odd
  <2> QED
    BY <2>1, LeastExists
<1>5. j \in 1 .. Len(lines) /\ j \in Entry /\ lines[j].level # LevelOf(j)
  BY <1>4, <1>2
<1>6. /\ LevelOf(j) = IF parent[j] = NULL THEN 0 ELSE 1 + LevelOf(parent[j])
      /\ lines[j].level = IF parent[j] = NULL THEN 0 ELSE lines[parent[j]].level + 1
  BY <1>1, <1>5, LevelDef
<1>7. parent[j] # NULL
  BY <1>5, <1>6
<1>8. parent[j] \in 1 .. Len(lines) /\ parent[j] < j
  BY <1>1, <1>2, <1>5, <1>7 DEF NULL
<1>9. lines[parent[j]].level = LevelOf(parent[j])
  BY <1>4, <1>8, <1>2
<1>10. lines[parent[j]].level \in Nat
  <2>1. lines[parent[j]] \in Line
    BY <1>8 DEF LinesFollow
  <2> QED
    BY <2>1 DEF Line
<1> QED
  BY <1>5, <1>6, <1>7, <1>9, <1>10

\* The listing is the program's outline, whatever calls were made before.
THEOREM ListingIsTheOutline == ListSpec => []ListingIsOutline
<1>1. TableInvariant /\ ListInvariant => ListingIsOutline
  <2> SUFFICES ASSUME TableInvariant, ListInvariant, phase = "end"
               PROVE  /\ \A k, m \in DOMAIN lines : k < m => lines[k].entry < lines[m].entry
                      /\ {lines[k].entry : k \in DOMAIN lines} = {e \in Allocated : Outermost(e) = symbol_table}
                      /\ \A k \in DOMAIN lines : lines[k].level = LevelOf(lines[k].entry)
    BY DEF ListingIsOutline
  <2>1. LinesFollow /\ SourceOrder
    BY DEF ListInvariant
  <2>2. /\ DOMAIN lines = 1 .. Len(lines) /\ Len(lines) \in Nat /\ Len(lines) <= size /\ size \in Nat
        /\ \A k \in 1 .. Len(lines) : lines[k].entry = k
    BY <2>1 DEF LinesFollow, TableInvariant, TypeOK
  <2>3. {lines[k].entry : k \in DOMAIN lines} = 1 .. Len(lines)
    BY <2>2
  <2>4. ASSUME NEW e \in Allocated PROVE e \in 1 .. Len(lines) <=> Outermost(e) = symbol_table
    <3>1. symbol_table = 1 /\ e \in Nat /\ e >= 1 /\ e <= size
      BY <2>1, <2>2 DEF SourceOrder, Allocated
    <3>2. CASE e \in 1 .. Len(lines)
      BY <2>1, <3>1, <3>2, ListedHangBelowRoot
    <3>3. CASE e \notin 1 .. Len(lines)
      <4> DEFINE r == Len(lines) + 1
      <4>1. r \in Allocated /\ e \in r .. size /\ Len(lines) < size
        BY <2>2, <3>1, <3>3 DEF Allocated
      <4>2. IsNewTree(r) /\ Len(lines) > 0
        BY <4>1 DEF ListInvariant
      <4>3. Outermost(e) >= r
        BY <2>1, <4>1, <4>2, NewTreeIsApart
      <4> QED
        BY <3>1, <3>3, <4>2, <4>3, <2>2
    <3> QED
      BY <3>2, <3>3
  <2>5. 1 .. Len(lines) \subseteq Allocated
    BY <2>2 DEF Allocated
  <2> QED
    BY <2>1, <2>2, <2>3, <2>4, <2>5, ListedAsDeep
<1> QED
  BY <1>1, ListingIsInOrder, PTL

-----------------------------------------------------------------------------
(* The addresses: the offset of a line is what the variables before it in  *)
(* its scope need.                                                         *)

\* What line k adds to the variables of a scope.
Share(scope, k) == IF k \in Variables(scope) THEN Extent(lines[k].entry) ELSE 0

LEMMA ExtentType ==
  ASSUME NEW e, symbol[e].std_type \in VarType
  PROVE  Extent(e) \in Nat
<1> DEFINE d == Declared[symbol[e].std_type]
<1>1. d \in Declaration
  OBVIOUS
<1> HIDE DEF d
<1>2. d.from \in Nat /\ d.to \in Nat
  BY <1>1 DEF Declaration
<1>3. (IF ~d.array THEN 1 ELSE IF d.from > d.to THEN 0 ELSE d.to - d.from + 1) \in Nat
  BY <1>2
<1> QED
  BY <1>3 DEF Extent, d

LEMMA ShareType ==
  ASSUME NEW scope, NEW k
  PROVE  Share(scope, k) \in Nat
<1>1. CASE k \in Variables(scope)
  <2>1. symbol[lines[k].entry].std_type \in VarType
    BY <1>1 DEF Variables
  <2> QED
    BY <1>1, <2>1, ExtentType DEF Share
<1>2. CASE k \notin Variables(scope)
  BY <1>2 DEF Share
<1> QED
  BY <1>1, <1>2

\* The sum, unfolded.
LEMMA NeededDef ==
  ASSUME Len(lines) \in Nat, NEW scope
  PROVE  /\ Needed(scope, 0) = 0
         /\ \A k \in 1 .. Len(lines) : Needed(scope, k) = Needed(scope, k - 1) + Share(scope, k)
         /\ \A k \in 0 .. Len(lines) : Needed(scope, k) \in Nat
<1> DEFINE D  == 0 .. Len(lines)
           R  == Nat
           mu == [x \in D |-> x]
           B  == {0}
           b  == [x \in D |-> 0]
           g  == [x \in D |-> x - 1]
           w  == [x \in D |-> Share(scope, x)]
           h  == [p \in D \X R |-> p[2] + w[p[1]]]
           Eq(f) == f = [k \in 0 .. Len(lines) |->
                          IF k = 0 THEN 0
                          ELSE f[k - 1] + (IF k \in Variables(scope) THEN Extent(lines[k].entry) ELSE 0)]
<1>1. mu \in [D -> Nat] /\ 0 \in D /\ D \subseteq Nat
  OBVIOUS
<1>2. ASSUME NEW x \in D \ B PROVE g[x] = x - 1 /\ g[x] \in D /\ mu[g[x]] < mu[x]
  OBVIOUS
<1>3. \A x \in D, r \in R : h[<<x, r>>] = r + Share(scope, x) /\ r + Share(scope, x) \in R
  <2>1. \A x \in D : w[x] = Share(scope, x) /\ w[x] \in Nat
    BY ShareType
  <2> HIDE DEF w
  <2> QED
    BY <2>1
<1>4. \A x \in D : b[x] = 0 /\ b[x] \in R /\ (x \in B <=> x = 0)
  OBVIOUS
<1>5. 0 .. Len(lines) = D
  OBVIOUS
<1> HIDE DEF D, R, mu, B, b, g, w, h
<1>6. PICK f : Recursion(f, D, B, b, g, h)
  BY <1>1, <1>2, RecursionExists
<1>7. \A x \in D : f[x] \in R
  <2> DEFINE Odd == {x \in D : f[x] \notin R}
  <2> SUFFICES ASSUME Odd # {} PROVE FALSE
    OBVIOUS
  <2>1. PICK x \in Odd : \A i \in Odd : x <= i
    <3>1. Odd \in SUBSET Nat
      BY <1>1
    <3> HIDE DEF Odd
    <3> QED
      BY <3>1, LeastExists
  <2>2. x \in D /\ x \in Nat /\ f[x] \notin R
    BY <2>1, <1>1
  <2>3. f[x] = IF x \in B THEN b[x] ELSE h[<<x, f[g[x]]>>]
    BY <2>2, <1>6 DEF Recursion
  <2>4. x \notin B
    BY <2>2, <2>3, <1>4
  <2>5. g[x] \in D /\ g[x] < x
    BY <2>2, <2>4, <1>2
  <2>6. f[g[x]] \in R
    <3>1. g[x] \in Nat
      BY <2>5, <1>1
    <3>2. g[x] \notin Odd
      <4> HIDE DEF Odd
      <4> QED
        BY <2>1, <2>2, <2>5, <3>1
    <3> QED
      BY <2>5, <3>2
  <2> QED
    BY <2>2, <2>3, <2>4, <2>6, <1>3
<1>8. f = [x \in D |-> IF x = 0 THEN 0 ELSE f[x - 1] + Share(scope, x)]
  <2>1. f = [x \in D |-> IF x \in B THEN b[x] ELSE h[<<x, f[g[x]]>>]]
    BY <1>6 DEF Recursion
  <2>2. ASSUME NEW x \in D
        PROVE  (IF x \in B THEN b[x] ELSE h[<<x, f[g[x]]>>]) = IF x = 0 THEN 0 ELSE f[x - 1] + Share(scope, x)
    BY <1>2, <1>3, <1>4, <1>7
  <2> QED
    BY <2>1, <2>2
<1>9. Eq(f)
  BY <1>5, <1>8 DEF Share
<1> DEFINE def == CHOOSE f1 : Eq(f1)
<1>10. Eq(def)
  <2> HIDE DEF Eq
  <2> QED
    BY <1>9
<1>11. \A n : Needed(scope, n) = def[n]
  BY DEF Needed
<1> HIDE DEF def
<1>12. def = [x \in D |-> IF x = 0 THEN 0 ELSE def[x - 1] + Share(scope, x)]
  BY <1>5, <1>10 DEF Share
<1> HIDE DEF Eq
<1>13. \A x \in D : x # 0 => x - 1 \in D
  BY DEF D
<1>14. \A k \in D : def[k] \in Nat
  <2> DEFINE Odd == {k \in D : def[k] \notin Nat}
  <2> SUFFICES ASSUME Odd # {} PROVE FALSE
    OBVIOUS
  <2>1. PICK k \in Odd : \A i \in Odd : k <= i
    <3>1. Odd \in SUBSET Nat
      BY <1>1
    <3> HIDE DEF Odd
    <3> QED
      BY <3>1, LeastExists
  <2>2. k \in D /\ k \in Nat /\ def[k] \notin Nat
    BY <2>1, <1>1
  <2>3. def[k] = IF k = 0 THEN 0 ELSE def[k - 1] + Share(scope, k)
    BY <2>2, <1>12
  <2>4. k # 0 /\ k - 1 \in D /\ k - 1 < k
    BY <2>2, <2>3, <1>13
  <2>5. def[k - 1] \in Nat
    BY <2>1, <2>2, <2>4
  <2> QED
    BY <2>2, <2>3, <2>4, <2>5, ShareType
<1>15. def[0] = 0
  BY <1>1, <1>12
<1>16. \A k \in 1 .. Len(lines) : k \in D /\ k # 0
  BY DEF D
<1>17. \A k \in 1 .. Len(lines) : def[k] = def[k - 1] + Share(scope, k)
  BY <1>12, <1>16
<1> QED
  BY <1>5, <1>11, <1>14, <1>15, <1>17

\* It grows, and stands still where nothing is added.
LEMMA NeededGrows ==
  ASSUME Len(lines) \in Nat, NEW scope, NEW i \in 0 .. Len(lines), NEW j \in i .. Len(lines)
  PROVE  /\ Needed(scope, i) <= Needed(scope, j)
         /\ (\A x \in i + 1 .. j : x \notin Variables(scope)) => Needed(scope, i) = Needed(scope, j)
<1> DEFINE Good(k) == /\ Needed(scope, i) <= Needed(scope, k)
                      /\ (\A x \in i + 1 .. k : x \notin Variables(scope)) => Needed(scope, i) = Needed(scope, k)
           Odd == {k \in i .. Len(lines) : ~Good(k)}
<1>1. \A k \in i .. Len(lines) : k \in Nat /\ Needed(scope, k) \in Nat
  <2>1. \A k \in i .. Len(lines) : k \in Nat /\ k \in 0 .. Len(lines)
    OBVIOUS
  <2> QED
    BY <2>1, NeededDef
<1>2. Good(i)
  BY <1>1
<1> SUFFICES ASSUME Odd # {} PROVE FALSE
  OBVIOUS
<1>3. PICK k \in Odd : \A n \in Odd : k <= n
  <2>1. Odd \in SUBSET Nat
    OBVIOUS
  <2> HIDE DEF Odd
  <2> QED
    BY <2>1, LeastExists
<1>4. k \in i .. Len(lines) /\ ~Good(k) /\ k # i
  BY <1>2, <1>3
<1>5. k - 1 \in i .. Len(lines) /\ k \in 1 .. Len(lines) /\ k - 1 < k
  BY <1>4
<1>6. Good(k - 1)
  <2> HIDE DEF Good
  <2> QED
    BY <1>3, <1>5
<1>7. Needed(scope, k) = Needed(scope, k - 1) + Share(scope, k) /\ Share(scope, k) \in Nat
  BY <1>5, NeededDef, ShareType
<1>8. Needed(scope, i) <= Needed(scope, k)
  BY <1>1, <1>4, <1>5, <1>6, <1>7
<1>9. ASSUME \A x \in i + 1 .. k : x \notin Variables(scope)
      PROVE  Needed(scope, i) = Needed(scope, k)
  <2>1. \A x \in i + 1 .. k - 1 : x \notin Variables(scope)
    BY <1>9, <1>4, <1>5
  <2>2. k \notin Variables(scope)
    BY <1>9, <1>4
  <2>3. Share(scope, k) = 0
    BY <2>2 DEF Share
  <2> QED
    BY <1>1, <1>5, <1>6, <1>7, <2>1, <2>3
<1> QED
  BY <1>4, <1>8, <1>9

\* What type_size computes for a variable that fits is what it needs.
LEMMA SizeIsExtent ==
  ASSUME NEW e, IsVariable(e), symbol[e].std_type \in VarType,
         BoundsFit(e), Extent(e) <= INT_MAX
  PROVE  SizeOf(e) = Extent(e)
<1> DEFINE d == Declared[symbol[e].std_type]
           t == TypeOf(symbol[e].std_type)
           u == IF d.elem = "INT" THEN 4 ELSE 8
<1>1. d \in Declaration
  OBVIOUS
<1>2. SizeOf(e) = type_size(t)
  BY DEF SizeOf
<1>3. d.array => d.from <= INT_MAX /\ d.to <= INT_MAX
  BY DEF BoundsFit
<1>4. Extent(e) = u * (IF ~d.array THEN 1 ELSE IF d.from > d.to THEN 0 ELSE d.to - d.from + 1)
  BY DEF Extent
<1>5. t = IF d.array THEN Types!ArrayRule(Bound(d.from), Bound(d.to), Types!Plain(d.elem)).t
          ELSE Types!Plain(d.elem)
  BY DEF TypeOf
<1> HIDE DEF d, t
<1>6. d.elem \in {"INT", "REAL"} /\ d.from \in Nat /\ d.to \in Nat /\ d.array \in BOOLEAN
  BY <1>1 DEF Declaration
<1>7. CASE ~d.array
  <2>1. t = Types!Plain(d.elem)
    BY <1>5, <1>7
  <2>2. t.std_type = d.elem
    BY <2>1 DEF Types!Plain
  <2>3. UnitSize(t) = u /\ t.std_type \notin Types!Arrays
    BY <2>2, <1>6 DEF UnitSize, Types!Arrays
  <2>4. type_size(t) = int(u)
    BY <2>3, <1>6 DEF type_size
  <2>5. Extent(e) = u
    BY <1>4, <1>7, <1>6
  <2> QED
    BY <1>2, <2>4, <2>5, IntWraps
<1>8. CASE d.array
  <2>1. /\ int(d.from) = d.from /\ int(d.to) = d.to
        /\ Bound(d.from) = [attribute |-> "INT", intval |-> d.from]
        /\ Bound(d.to) = [attribute |-> "INT", intval |-> d.to]
    BY <1>3, <1>6, <1>8, IntWraps DEF Bound
  <2> DEFINE a == IF d.elem = "INT" THEN "AINT" ELSE "AREAL"
  <2>2. t = IF d.from > d.to THEN Types!Array("ERR", d.from, d.to) ELSE Types!Array(a, d.from, d.to)
    BY <1>5, <1>6, <1>8, <2>1 DEF Types!ArrayRule, Types!Plain, Types!Reports, Types!Gives
  <2>3. CASE d.from > d.to
    <3>1. t.std_type = "ERR"
      BY <2>2, <2>3 DEF Types!Array, Types!Plain
    <3>2. UnitSize(t) = 0 /\ t.std_type \notin Types!Arrays
      BY <3>1 DEF UnitSize, Types!Arrays
    <3>3. type_size(t) = int(0)
      BY <3>2 DEF type_size
    <3>4. Extent(e) = 0
      BY <1>4, <1>8, <2>3
    <3> QED
      BY <1>2, <3>3, <3>4, IntWraps
  <2>4. CASE ~(d.from > d.to)
    <3>1. t.std_type = a /\ t.start = d.from /\ t.end = d.to
      BY <2>2, <2>4 DEF Types!Array, Types!Plain
    <3>2. UnitSize(t) = u /\ t.std_type \in Types!Arrays
      BY <3>1, <1>6 DEF UnitSize, Types!Arrays
    <3> DEFINE n == d.to - d.from + 1
    <3>3. Extent(e) = u * n /\ n \in Nat /\ n >= 1
      BY <1>4, <1>6, <1>8, <2>4
    <3>4. n <= INT_MAX
      BY <3>3
    <3>5. int(t.end - t.start) = d.to - d.from
      BY <3>1, <1>6, <2>4, <3>4, IntWraps
    <3>6. int(int(t.end - t.start) + 1) = n
      BY <3>5, <3>3, <3>4, IntWraps
    <3>7. type_size(t) = int(u * n)
      BY <3>2, <3>6 DEF type_size
    <3>8. u * n \in Int /\ 0 <= u * n /\ u * n <= INT_MAX
      BY <3>3
    <3>9. int(u * n) = u * n
      BY <3>8, IntWraps
    <3> QED
      BY <1>2, <3>3, <3>7, <3>9
  <2> QED
    BY <2>3, <2>4
<1> QED
  BY <1>6, <1>7, <1>8

\* Everything else takes nothing.
LEMMA OthersTakeNothing ==
  ASSUME TypeOK, NEW e \in Allocated, ~(IsVariable(e) /\ symbol[e].std_type \in VarType)
  PROVE  SizeOf(e) = 0
<1>1. CASE ~IsVariable(e)
  BY <1>1 DEF SizeOf
<1>2. CASE IsVariable(e)
  <2>1. symbol[e].std_type = "NONE" /\ "NONE" \notin VarType
    BY <1>2 DEF TypeOK, Symbol, StdType, IsVariable
  <2>2. TypeOf(symbol[e].std_type) = Types!Plain("NONE")
    BY <2>1 DEF TypeOf
  <2> DEFINE t == Types!Plain("NONE")
  <2>3. t.std_type = "NONE"
    BY DEF Types!Plain
  <2> HIDE DEF t
  <2>4. UnitSize(t) = 0 /\ t.std_type \notin Types!Arrays
    BY <2>3 DEF UnitSize, Types!Arrays
  <2>5. type_size(t) = int(0)
    BY <2>4 DEF type_size
  <2> QED
    BY <1>2, <2>2, <2>5, IntWraps DEF SizeOf, t
<1> QED
  BY <1>1, <1>2

\* In a scope whose variables fit, the offset of every line is what those
\* before it need: the loop carries the sum on over the methods in between.
LEMMA OffsetIsSum ==
  ASSUME TableInvariant, SourceOrder, LinesFollow, NEW scope \in Link, Fits(scope),
         NEW line \in 1 .. Len(lines), parent[line] = scope
  PROVE  lines[line].offset = Needed(scope, line - 1)
<1> USE DEF TableInvariant
<1>1. /\ Len(lines) \in Nat /\ size \in Nat /\ Len(lines) <= size /\ size <= MaxEntries
      /\ DOMAIN lines = 1 .. Len(lines)
      /\ \A k \in 1 .. Len(lines) : /\ lines[k].entry = k /\ lines[k].offset = Address(k)
                                    /\ k > 1 => ~IsNewTree(k)
  <2>1. lines \in Seq(Line) /\ size \in Nat /\ size <= MaxEntries
    BY DEF LinesFollow, TypeOK
  <2>2. Len(lines) \in Nat /\ DOMAIN lines = 1 .. Len(lines)
    BY <2>1
  <2>3. /\ Len(lines) <= size
        /\ \A k \in 1 .. Len(lines) : /\ lines[k].entry = k /\ lines[k].offset = Address(k)
                                      /\ k > 1 => ~IsNewTree(k)
    BY DEF LinesFollow
  <2> QED
    BY <2>1, <2>2, <2>3
<1>2. \A k \in 1 .. Len(lines) :
        /\ k \in Entry /\ k \in Allocated /\ k \in Nat
        /\ parent[k] \in Nat /\ prev[k] \in Nat /\ parent[k] < k /\ prev[k] < k
  BY <1>1 DEF TypeOK, Ordered, Entry, Allocated, Link, NULL
<1>3. \A k \in Variables(scope) : k \in 1 .. Len(lines) /\ parent[k] = scope
  BY <1>1 DEF Variables
<1>4. \A k \in 0 .. Len(lines) : /\ Needed(scope, k) \in Nat
                                 /\ 0 <= Needed(scope, k) /\ Needed(scope, k) <= INT_MAX
  <2> TAKE k \in 0 .. Len(lines)
  <2>1. Needed(scope, Len(lines)) <= INT_MAX
    BY DEF Fits
  <2>2. Needed(scope, k) \in Nat /\ Needed(scope, Len(lines)) \in Nat
    <3>1. Len(lines) \in 0 .. Len(lines)
      BY <1>1
    <3> QED
      BY <1>1, <3>1, NeededDef
  <2>3. Needed(scope, k) <= Needed(scope, Len(lines))
    <3>1. Len(lines) \in k .. Len(lines)
      BY <1>1
    <3> QED
      BY <1>1, <3>1, NeededGrows
  <2> QED
    BY <2>1, <2>2, <2>3
<1> DEFINE Odd == {k \in 1 .. Len(lines) : parent[k] = scope /\ lines[k].offset # Needed(scope, k - 1)}
<1> SUFFICES ASSUME Odd # {} PROVE FALSE
  OBVIOUS
<1>5. PICK k \in Odd : \A i \in Odd : k <= i
  <2>1. Odd \in SUBSET Nat
    OBVIOUS
  <2> HIDE DEF Odd
  <2> QED
    BY <2>1, LeastExists
<1>6. k \in 1 .. Len(lines) /\ parent[k] = scope /\ lines[k].offset # Needed(scope, k - 1)
  BY <1>5
<1> HIDE DEF Odd
<1>7. k - 1 \in 0 .. Len(lines) /\ k \in Entry /\ k \in Nat
  <2>1. k \in Entry /\ k \in Nat
    BY <1>2, <1>6
  <2> QED
    BY <2>1, <1>1, <1>6
<1>8. CASE prev[k] = NULL
  <2>1. \A x \in 1 .. k - 1 : parent[x] # scope
    <3>1. CASE scope = NULL
      BY <1>6, <1>8, <3>1, <1>1 DEF IsNewTree
    <3>2. CASE scope # NULL
      <4> SUFFICES ASSUME NEW x \in 1 .. k - 1, parent[x] = scope PROVE FALSE
        OBVIOUS
      <4>1. prev[k] \in x .. k
        BY <1>6, <1>7, <3>2 DEF ScopesAreChains
      <4> QED
        BY <4>1, <1>8 DEF NULL
    <3> QED
      BY <3>1, <3>2
  <2>2. \A x \in 0 + 1 .. k - 1 : x \notin Variables(scope)
    BY <2>1, <1>3
  <2>3. Needed(scope, 0) = Needed(scope, k - 1)
    <3>1. 0 \in 0 .. Len(lines)
      BY <1>1
    <3> QED
      BY <1>1, <1>7, <2>2, <3>1, NeededGrows
  <2>4. lines[k].offset = 0
    BY <1>1, <1>6, <1>8 DEF Address
  <2> QED
    BY <1>1, <1>6, <2>3, <2>4, NeededDef
<1>9. CASE prev[k] # NULL
  <2> DEFINE j == prev[k]
  <2>1. j \in 1 .. Len(lines) /\ j < k /\ parent[j] = scope /\ next[j] = k
    BY <1>2, <1>6, <1>7, <1>9 DEF WellLinked, NULL
  <2> HIDE DEF j
  <2>2. ASSUME NEW x \in j + 1 .. k - 1 PROVE x \notin Variables(scope)
    <3>1. parent[x] >= j
      <4>1. j \in Entry /\ next[j] = k /\ k # NULL
        BY <2>1, <1>2, <1>6 DEF NULL
      <4>2. x \in j + 1 .. next[j] - 1
        BY <4>1
      <4> QED
        BY <4>1, <4>2 DEF SourceOrder, NextIsBehind
    <3>2. parent[j] < j /\ j \in Nat /\ parent[x] \in Nat
      BY <1>2, <1>6, <2>1
    <3> QED
      BY <1>3, <2>1, <3>1, <3>2
  <2>3. Needed(scope, j) = Needed(scope, k - 1)
    <3>1. j \in 0 .. Len(lines) /\ k - 1 \in j .. Len(lines)
      BY <2>1, <1>6
    <3> QED
      BY <1>1, <2>2, <3>1, NeededGrows
  <2>4. Needed(scope, j) = Needed(scope, j - 1) + Share(scope, j) /\ Share(scope, j) \in Nat
    BY <1>1, <2>1, NeededDef, ShareType
  <2>5. j \in 0 .. Len(lines) /\ j - 1 \in 0 .. Len(lines)
    BY <2>1
  <2>6. SizeOf(j) = Share(scope, j)
    <3>1. CASE j \in Variables(scope)
      <4>1. IsVariable(j) /\ symbol[j].std_type \in VarType /\ lines[j].entry = j
        BY <3>1, <1>1, <2>1 DEF Variables
      <4>2. BoundsFit(j)
        BY <3>1, <4>1 DEF Fits
      <4>3. Extent(j) = Share(scope, j)
        BY <3>1, <4>1 DEF Share
      <4>4. Extent(j) <= INT_MAX
        BY <1>4, <2>4, <2>5, <4>3
      <4>5. SizeOf(j) = Extent(j)
        BY <4>1, <4>2, <4>4, SizeIsExtent
      <4> QED
        BY <4>3, <4>5
    <3>2. CASE j \notin Variables(scope)
      <4>1. ~(IsVariable(j) /\ symbol[j].std_type \in VarType)
        BY <3>2, <1>1, <2>1 DEF Variables
      <4>2. SizeOf(j) = 0
        BY <4>1, <1>2, <2>1, OthersTakeNothing
      <4> QED
        BY <3>2, <4>2 DEF Share
    <3> QED
      BY <3>1, <3>2
  <2>7. lines[j].offset = Needed(scope, j - 1)
    <3>1. j \notin Odd
      BY <1>5, <1>6, <2>1
    <3> QED
      BY <2>1, <3>1 DEF Odd
  <2>8. lines[k].offset = int(Needed(scope, j))
    <3>1. lines[k].offset = After(j)
      BY <1>1, <1>6, <1>9 DEF Address, j
    <3> QED
      BY <3>1, <2>4, <2>6, <2>7 DEF After
  <2>9. int(Needed(scope, j)) = Needed(scope, j)
    BY <1>4, <2>5, IntWraps
  <2> QED
    BY <1>6, <2>3, <2>8, <2>9
<1> QED
  BY <1>8, <1>9

\* In a scope whose variables fit, no two of them share a byte.
THEOREM StorageNeverOverlaps == ListSpec => []StorageIsDisjoint
<1>1. TableInvariant /\ ListInvariant => StorageIsDisjoint
  <2> SUFFICES ASSUME TableInvariant, ListInvariant, NEW scope \in Link, Fits(scope),
                      NEW k \in Variables(scope), NEW m \in Variables(scope)
               PROVE  /\ lines[k].offset >= 0
                      /\ k < m => lines[k].offset + Extent(lines[k].entry) <= lines[m].offset
    BY DEF StorageIsDisjoint
  <2>1. LinesFollow /\ SourceOrder
    BY DEF ListInvariant
  <2>2. Len(lines) \in Nat /\ DOMAIN lines = 1 .. Len(lines) /\ \A i \in 1 .. Len(lines) : lines[i].entry = i
    BY <2>1 DEF LinesFollow
  <2>3. /\ k \in 1 .. Len(lines) /\ parent[k] = scope
        /\ m \in 1 .. Len(lines) /\ parent[m] = scope
    BY <2>2 DEF Variables
  <2>4. lines[k].offset = Needed(scope, k - 1) /\ lines[m].offset = Needed(scope, m - 1)
    BY <2>1, <2>3, OffsetIsSum
  <2>5. Needed(scope, k - 1) \in Nat /\ Needed(scope, k) \in Nat /\ Needed(scope, m - 1) \in Nat
    <3>1. k - 1 \in 0 .. Len(lines) /\ m - 1 \in 0 .. Len(lines) /\ k \in 0 .. Len(lines)
      BY <2>2, <2>3
    <3> QED
      BY <2>2, <3>1, NeededDef
  <2>6. Needed(scope, k) = Needed(scope, k - 1) + Extent(lines[k].entry)
    BY <2>2, <2>3, NeededDef DEF Share
  <2>7. ASSUME k < m PROVE Needed(scope, k) <= Needed(scope, m - 1)
    <3>1. k \in 0 .. Len(lines) /\ m - 1 \in k .. Len(lines)
      BY <2>2, <2>3, <2>7
    <3> QED
      BY <2>2, <3>1, NeededGrows
  <2> QED
    BY <2>4, <2>5, <2>6, <2>7
<1> QED
  BY <1>1, ListingIsInOrder, PTL
=============================================================================
