-------------------------- MODULE TokenizerProofs --------------------------
(***************************************************************************)
(* For every source, line length, alphabet and limits, and however its     *)
(* callers mix peeks, takes and squashing, get_next_token deals with every *)
(* lexical error once and hands out one stream, that of TokenStream.tla.   *)
(*                                                                         *)
(* The stream is a function of the source (TokensIn): the k-th token is    *)
(* the one at the k-th place.  The proof follows get_next_token by the     *)
(* places that lie behind it: a line read and a lexeme skipped leave them  *)
(* as they are, a token returned adds its place, and their number is the   *)
(* index in the stream.                                                    *)
(***************************************************************************)
EXTENDS Tokenizer, SequenceTheorems, FiniteSetTheorems, WellFoundedInduction, TLAPS

-----------------------------------------------------------------------------
(* Least and greatest elements.                                            *)

LEMMA LeastExists ==
  ASSUME NEW S \in SUBSET Nat, S # {}
  PROVE  \E x \in S : \A y \in S : x <= y
<1> DEFINE R == OpToRel(<, Nat)
<1>1. IsWellFoundedOn(R, Nat)
  BY NatLessThanWellFounded
<1>2. \A x, y \in Nat : y < x => <<y, x>> \in R
  BY DEF OpToRel
<1> HIDE DEF R
<1>3. PICK x \in S : \A y \in S : ~(<<y, x>> \in R)
  BY <1>1, WFMin, Zenon
<1>4. \A y \in S : ~(y < x)
  BY <1>2, <1>3
<1> QED
  BY <1>4

LEMMA GreatestExists ==
  ASSUME NEW n \in Nat, NEW S \in SUBSET (0 .. n), S # {}
  PROVE  \E x \in S : \A y \in S : y <= x
<1> DEFINE T == { n - x : x \in S }
<1>1. T \in SUBSET Nat /\ T # {}
  <2>1. PICK y \in S : TRUE
    OBVIOUS
  <2>2. n - y \in T
    OBVIOUS
  <2> QED
    BY <2>2
<1>2. PICK t \in T : \A y \in T : t <= y
  BY <1>1, LeastExists
<1>3. PICK x \in S : t = n - x
  BY <1>2
<1>4. \A y \in S : n - x <= n - y
  BY <1>2, <1>3
<1> QED
  BY <1>4

-----------------------------------------------------------------------------
(* Places.                                                                 *)

Place == Nat \X Nat

LEMMA BeforeIsAnOrder ==
  ASSUME NEW a \in Place, NEW b \in Place, NEW c \in Place
  PROVE  /\ ~Before(a, a)
         /\ Before(a, b) /\ Before(b, c) => Before(a, c)
BY DEF Place, Before

-----------------------------------------------------------------------------
(* What steps lead to.                                                     *)

\* What steps that never go back reach from 1 holds 1 and is not left by a step,
\* and a step leaves nothing of it out.
LEMMA StepsReach ==
  ASSUME NEW n \in Nat \ {0}, NEW step \in [1 .. n -> 1 .. n],
         \A k \in 1 .. n : k <= step[k]
  PROVE  /\ Reached(n, step) \in SUBSET (1 .. n)
         /\ 1 \in Reached(n, step)
         /\ \A k \in Reached(n, step) : step[k] \in Reached(n, step)
         /\ \A k, j \in Reached(n, step) : k < j => k < step[k] /\ step[k] <= j
<1> DEFINE R == Reached(n, step)
           Closed(S) == 1 \in S /\ \A j \in S : step[j] \in S
<1>1. R = { k \in 1 .. n : \A S \in SUBSET (1 .. n) : Closed(S) => k \in S }
  BY DEF Reached
<1> HIDE DEF R
<1>2. R \in SUBSET (1 .. n) /\ 1 \in R
  BY <1>1
<1>6. n \in Nat /\ \A k \in R : k \in 1 .. n /\ k \in Nat /\ 1 <= k
  BY <1>2
<1>3. ASSUME NEW k \in R PROVE step[k] \in R
  <2>1. step[k] \in 1 .. n
    BY <1>2
  <2>2. ASSUME NEW S \in SUBSET (1 .. n), Closed(S) PROVE step[k] \in S
    BY <1>1, <2>2
  <2> QED
    BY <1>1, <2>1, <2>2
<1>4. ASSUME NEW S \in SUBSET (1 .. n), Closed(S) PROVE R \subseteq S
  BY <1>1, <1>4
<1> HIDE DEF Closed
<1> DEFINE Passes(k) == \A j \in R : k < j => k < step[k] /\ step[k] <= j
<1>5. \A k \in R : Passes(k)
  <2> HIDE DEF Passes
  <2> DEFINE bad == { k \in R : ~Passes(k) }
  <2> SUFFICES ASSUME bad # {} PROVE FALSE
    BY Zenon
  <2>1. bad \in SUBSET Nat
    BY <1>6
  <2>2. PICK k \in bad : \A j \in bad : k <= j
    <3> HIDE DEF bad
    <3> QED
      BY <2>1, LeastExists
  <2>3. k \in R /\ k \in 1 .. n /\ step[k] \in 1 .. n /\ k <= step[k]
    BY <1>2
  <2>4. \A j \in R : j < k => Passes(j)
    BY <1>2, <2>2, <2>3
  <2> DEFINE S == { j \in R : j <= k \/ (k < step[k] /\ step[k] <= j) }
  <2>5. ASSUME NEW j \in S PROVE step[j] \in S
    <3>1. j \in R /\ step[j] \in R /\ j \in 1 .. n /\ step[j] \in 1 .. n /\ j <= step[j]
      BY <1>2, <1>3
    <3>2. CASE j < k
      <4>1. step[j] <= k
        BY <2>3, <2>4, <3>1, <3>2 DEF Passes
      <4> QED
        BY <3>1, <4>1
    <3>3. CASE j = k
      BY <2>3, <3>1, <3>3
    <3>4. CASE k < j
      BY <2>3, <3>1, <3>4
    <3> QED
      BY <2>3, <3>1, <3>2, <3>3, <3>4
  <2>6. 1 \in S /\ S \in SUBSET (1 .. n)
    BY <1>2, <1>6, <2>3
  <2>7. R \subseteq S
    BY <1>4, <2>5, <2>6 DEF Closed
  <2>8. Passes(k)
    BY <1>2, <2>3, <2>7 DEF Passes
  <2> QED
    BY <2>8
<1> QED
  BY <1>2, <1>3, <1>5 DEF R

-----------------------------------------------------------------------------
(* Counting.                                                               *)

\* One more or fewer.
LEMMA SmallerByOne ==
  ASSUME NEW T, IsFiniteSet(T), NEW S \in SUBSET T, NEW x \in T, x \notin S
  PROVE  IsFiniteSet(S) /\ Cardinality(S) < Cardinality(T)
<1>1. IsFiniteSet(S) /\ Cardinality(S) <= Cardinality(T) /\ (Cardinality(T) = Cardinality(S) => T = S)
  BY FS_Subset
<1>2. Cardinality(S) \in Nat /\ Cardinality(T) \in Nat
  BY <1>1, FS_CardinalityType
<1> QED
  BY <1>1, <1>2

\* Different numbers up to how many there are: each is one of something.
LEMMA RanksFill ==
  ASSUME NEW P, IsFiniteSet(P), NEW rank \in [P -> 1 .. Cardinality(P)],
         \A p, q \in P : rank[p] = rank[q] => p = q
  PROVE  \A k \in 1 .. Cardinality(P) : \E p \in P : rank[p] = k
<1>1. Cardinality(P) \in Nat
  BY FS_CardinalityType
<1> SUFFICES ASSUME NEW k \in 1 .. Cardinality(P), \A p \in P : rank[p] # k PROVE FALSE
  OBVIOUS
<1> DEFINE T == (1 .. Cardinality(P)) \ {k}
<1>2. IsFiniteSet(1 .. Cardinality(P)) /\ Cardinality(1 .. Cardinality(P)) = Cardinality(P)
  BY <1>1, FS_Interval
<1>3. IsFiniteSet(T) /\ Cardinality(T) = Cardinality(P) - 1
  BY <1>2, FS_RemoveElement
<1>4. rank \in [P -> T]
  OBVIOUS
<1>5. \E p, q \in P : p # q /\ rank[p] = rank[q]
  <2> HIDE DEF T
  <2> QED
    BY <1>1, <1>3, <1>4, FS_PigeonHole
<1> QED
  BY <1>5

\* The numbers of a set are told apart by how many there are up to each.
LEMMA NumbersAreRanked ==
  ASSUME NEW B, IsFiniteSet(B), B \subseteq Nat
  PROVE  /\ \A p \in B : Cardinality(UpTo(B, p)) \in 1 .. Cardinality(B)
         /\ \A p, q \in B : p < q => Cardinality(UpTo(B, p)) < Cardinality(UpTo(B, q))
         /\ \A p, q \in B : Cardinality(UpTo(B, p)) = Cardinality(UpTo(B, q)) => p = q
         /\ \A k \in 1 .. Cardinality(B) : \E p \in B : Cardinality(UpTo(B, p)) = k
<1> DEFINE rank == [p \in B |-> Cardinality(UpTo(B, p))]
<1>0. Cardinality(B) \in Nat
  BY FS_CardinalityType
<1>1. ASSUME NEW p \in B
      PROVE  IsFiniteSet(UpTo(B, p)) /\ Cardinality(UpTo(B, p)) \in 1 .. Cardinality(B)
  <2>1. UpTo(B, p) \in SUBSET B /\ p \in UpTo(B, p)
    BY DEF UpTo
  <2>2. IsFiniteSet(UpTo(B, p)) /\ Cardinality(UpTo(B, p)) <= Cardinality(B)
    BY <2>1, FS_Subset
  <2>3. Cardinality(UpTo(B, p)) \in Nat /\ Cardinality(UpTo(B, p)) # 0
    BY <2>1, <2>2, FS_CardinalityType, FS_EmptySet
  <2> QED
    BY <1>0, <2>2, <2>3
<1>2. ASSUME NEW p \in B, NEW q \in B, p < q
      PROVE  Cardinality(UpTo(B, p)) < Cardinality(UpTo(B, q))
  <2>1. p \in Nat /\ q \in Nat /\ \A x \in B : x \in Nat
    OBVIOUS
  <2>2. q \in UpTo(B, q) /\ q \notin UpTo(B, p)
    BY <1>2, <2>1 DEF UpTo
  <2>3. UpTo(B, p) \in SUBSET UpTo(B, q)
    <3> SUFFICES ASSUME NEW x \in B, x <= p PROVE x <= q
      BY DEF UpTo
    <3> QED
      BY <1>2, <2>1
  <2> QED
    BY <1>1, <2>2, <2>3, SmallerByOne
<1>3. ASSUME NEW p \in B, NEW q \in B, Cardinality(UpTo(B, p)) = Cardinality(UpTo(B, q))
      PROVE  p = q
  <2>1. p = q \/ p < q \/ q < p
    OBVIOUS
  <2> QED
    BY <1>1, <1>2, <1>3, <2>1
<1>4. \A k \in 1 .. Cardinality(B) : \E p \in B : rank[p] = k
  <2>1. rank \in [B -> 1 .. Cardinality(B)] /\ \A p, q \in B : rank[p] = rank[q] => p = q
    BY <1>1, <1>3
  <2> HIDE DEF rank
  <2> QED
    BY <2>1, RanksFill
<1> QED
  BY <1>1, <1>2, <1>3, <1>4

\* So are places.
LEMMA PlacesAreRanked ==
  ASSUME NEW P, IsFiniteSet(P), P \subseteq Place
  PROVE  /\ \A p \in P : Cardinality(Through(P, p)) \in 1 .. Cardinality(P)
         /\ \A p, q \in P : Before(p, q) => Cardinality(Through(P, p)) < Cardinality(Through(P, q))
         /\ \A p, q \in P : Cardinality(Through(P, p)) = Cardinality(Through(P, q)) => p = q
         /\ \A k \in 1 .. Cardinality(P) : \E p \in P : Cardinality(Through(P, p)) = k
<1> DEFINE rank == [p \in P |-> Cardinality(Through(P, p))]
<1>0. Cardinality(P) \in Nat
  BY FS_CardinalityType
<1>1. ASSUME NEW p \in P
      PROVE  /\ IsFiniteSet(Through(P, p)) /\ Cardinality(Through(P, p)) \in 1 .. Cardinality(P)
  <2>1. Through(P, p) \in SUBSET P /\ p \in Through(P, p)
    BY DEF Through
  <2>2. IsFiniteSet(Through(P, p)) /\ Cardinality(Through(P, p)) <= Cardinality(P)
    BY <2>1, FS_Subset
  <2>3. Cardinality(Through(P, p)) \in Nat /\ Cardinality(Through(P, p)) # 0
    BY <2>1, <2>2, FS_CardinalityType, FS_EmptySet
  <2> QED
    BY <1>0, <2>2, <2>3
<1>2. ASSUME NEW p \in P, NEW q \in P, Before(p, q)
      PROVE  Cardinality(Through(P, p)) < Cardinality(Through(P, q))
  <2>1. p \in Place /\ q \in Place /\ ~Before(q, p) /\ p # q
    BY <1>2 DEF Place, Before
  <2>2. Through(P, p) \in SUBSET Through(P, q)
    <3> SUFFICES ASSUME NEW x \in P, x = p \/ Before(x, p) PROVE Before(x, q)
      BY DEF Through
    <3>1. x \in Place
      OBVIOUS
    <3> QED
      BY <1>2, <2>1, <3>1, BeforeIsAnOrder
  <2>3. q \in Through(P, q) /\ q \notin Through(P, p)
    BY <2>1 DEF Through
  <2> QED
    BY <1>1, <2>2, <2>3, SmallerByOne
<1>3. ASSUME NEW p \in P, NEW q \in P, Cardinality(Through(P, p)) = Cardinality(Through(P, q))
      PROVE  p = q
  <2>1. p = q \/ Before(p, q) \/ Before(q, p)
    BY DEF Place, Before
  <2> QED
    BY <1>1, <1>2, <1>3, <2>1
<1>4. \A k \in 1 .. Cardinality(P) : \E p \in P : rank[p] = k
  <2>1. rank \in [P -> 1 .. Cardinality(P)] /\ \A p, q \in P : rank[p] = rank[q] => p = q
    BY <1>1, <1>3
  <2> HIDE DEF rank
  <2> QED
    BY <2>1, RanksFill
<1> QED
  BY <1>1, <1>2, <1>3, <1>4

-----------------------------------------------------------------------------
(* Reading lines.                                                          *)

\* Where a read may stop; it stops at the first of these.
Stops(src, p) ==
  {p + MAX_LINE_LENGTH - 1, Len(src) + 1} \cup { q + 1 : q \in { z \in p .. Len(src) : src[z] = NL } }

LEMMA ReadStops ==
  ASSUME NEW src \in Sources, NEW p \in 1 .. Len(src) + 1
  PROVE  ReadEnd(src, p) \in Stops(src, p) /\ \A z \in Stops(src, p) : ReadEnd(src, p) <= z
<1> DEFINE stops == Stops(src, p)
<1>1. stops \in SUBSET Nat /\ stops # {}
  BY SourcesAssumption, LineLengthAssumption DEF Stops
<1>2. \E q \in stops : \A z \in stops : q <= z
  BY <1>1, LeastExists
<1>3. ReadEnd(src, p) = CHOOSE q \in stops : \A z \in stops : q <= z
  BY DEF ReadEnd, Stops
<1> QED
  BY <1>2, <1>3

\* A read goes forward, unless it starts at the end, and no further than a
\* buffer.
LEMMA ReadAdvances ==
  ASSUME NEW src \in Sources, NEW p \in 1 .. Len(src) + 1
  PROVE  /\ ReadEnd(src, p) \in p .. Len(src) + 1
         /\ p <= Len(src) => ReadEnd(src, p) > p
         /\ ReadEnd(src, p) <= p + MAX_LINE_LENGTH - 1
<1>1. Len(src) \in Nat
  BY SourcesAssumption
<1>2. ReadEnd(src, p) \in Stops(src, p) /\ \A z \in Stops(src, p) : ReadEnd(src, p) <= z
  BY ReadStops
<1>3. Stops(src, p) \subseteq Nat /\ \A z \in Stops(src, p) : z >= p /\ (p <= Len(src) => z > p)
  BY <1>1, LineLengthAssumption DEF Stops
<1>4. p + MAX_LINE_LENGTH - 1 \in Stops(src, p) /\ Len(src) + 1 \in Stops(src, p)
  BY DEF Stops
<1> QED
  BY <1>1, <1>2, <1>3, <1>4, LineLengthAssumption

\* What it reads is short enough for the buffer, and so is what chomp leaves.
LEMMA ChunkFits ==
  ASSUME NEW src \in Sources, NEW p \in 1 .. Len(src) + 1
  PROVE  /\ Chunk(src, p) \in Seq(Char \cup {NL, CR})
         /\ Len(Chunk(src, p)) < MAX_LINE_LENGTH
         /\ p = Len(src) + 1 => Chunk(src, p) = <<>>
<1>1. src \in Seq(Char \cup {NL, CR}) /\ Len(src) \in Nat
  BY SourcesAssumption
<1> DEFINE end == ReadEnd(src, p)
<1>2. end \in p .. Len(src) + 1 /\ end <= p + MAX_LINE_LENGTH - 1
  BY ReadAdvances
<1>3. Chunk(src, p) = SubSeq(src, p, end - 1)
  BY DEF Chunk
<1> HIDE DEF end
<1>4. Chunk(src, p) \in Seq(Char \cup {NL, CR})
  BY <1>1, <1>2, <1>3
<1>5. Len(Chunk(src, p)) = IF p <= end - 1 THEN end - p ELSE 0
  BY <1>1, <1>2, <1>3
<1>6. Len(Chunk(src, p)) < MAX_LINE_LENGTH
  BY <1>1, <1>2, <1>5, LineLengthAssumption
<1>7. ASSUME p = Len(src) + 1 PROVE Chunk(src, p) = <<>>
  BY <1>1, <1>2, <1>4, <1>5, <1>7
<1> QED
  BY <1>4, <1>6, <1>7

LEMMA ChompCuts ==
  ASSUME NEW w \in Seq(Char \cup {NL, CR})
  PROVE  chomp(w) \in Seq(Char \cup {NL, CR}) /\ Len(chomp(w)) <= Len(w)
<1> DEFINE ends == { k \in DOMAIN w : w[k] \in {NL, CR} }
<1>1. CASE ends = {}
  BY <1>1 DEF chomp
<1>2. CASE ends # {}
  <2>1. ends \in SUBSET Nat
    OBVIOUS
  <2>2. \E k \in ends : \A z \in ends : k <= z
    BY <1>2, <2>1, LeastExists
  <2> DEFINE k == CHOOSE k \in ends : \A z \in ends : k <= z
  <2>3. k \in 1 .. Len(w)
    BY <2>2
  <2>4. chomp(w) = SubSeq(w, 1, k - 1)
    BY <1>2 DEF chomp
  <2> HIDE DEF k
  <2>5. SubSeq(w, 1, k - 1) \in Seq(Char \cup {NL, CR}) /\ Len(SubSeq(w, 1, k - 1)) = k - 1
    BY <2>3
  <2> QED
    BY <2>3, <2>4, <2>5
<1> QED
  BY <1>1, <1>2

\* The read that finds nothing meets the end of the file.
LEMMA EndIsMet ==
  ASSUME NEW src \in Sources
  PROVE  HitsEnd(src, Len(src) + 1)
<1>1. Len(src) \in Nat
  BY SourcesAssumption
<1>2. Chunk(src, Len(src) + 1) = <<>>
  BY <1>1, ChunkFits
<1> QED
  BY <1>2, LineLengthAssumption DEF HitsEnd

-----------------------------------------------------------------------------
(* Lexemes.                                                                *)

\* A lexeme is not empty and stays on its line.
LEMMA LexemeAdvances ==
  ASSUME NEW w, Len(w) \in Nat, NEW k \in 1 .. Len(w)
  PROVE  Lexeme(w, k).to \in k + 1 .. Len(w) + 1
<1> DEFINE ends == { j \in k + 1 .. Len(w) + 1 : IsLexeme(SubSeq(w, k, j - 1)) }
<1>1. LexemeEnd(w, k) \in k + 1 .. Len(w) + 1
  <2>1. CASE ends = {}
    BY <2>1 DEF LexemeEnd
  <2>2. CASE ends # {}
    <3>1. ends \in SUBSET (0 .. Len(w) + 1) /\ Len(w) + 1 \in Nat
      OBVIOUS
    <3>2. \E j \in ends : \A z \in ends : z <= j
      <4> HIDE DEF ends
      <4> QED
        BY <2>2, <3>1, GreatestExists
    <3>3. LexemeEnd(w, k) = CHOOSE j \in ends : \A z \in ends : z <= j
      BY <2>2 DEF LexemeEnd
    <3>4. LexemeEnd(w, k) \in ends
      <4> HIDE DEF ends
      <4> QED
        BY <3>2, <3>3
    <3> QED
      BY <3>4
  <2> QED
    BY <2>1, <2>2
<1> QED
  BY <1>1 DEF Lexeme

\* The line that stands for the end of the file holds one token, TOKEN_EOF.
LEMMA EofIsEof ==
  /\ Lexeme(EofLine, 1).token.type = "EOF" /\ Lexeme(EofLine, 1).to = 2 /\ Len(EofLine) = 1
<1> DEFINE w == SubSeq(EofLine, 1, 1)
<1>1. LexemeEnd(EofLine, 1) = 2
  BY DEF LexemeEnd, EofLine
<1>2. EofLine \in Seq({EOFC}) /\ Len(EofLine) = 1 /\ EofLine[1] = EOFC
  BY DEF EofLine
<1>3. w = EofLine
  BY <1>2, SubSeqFull, Zenon
<1>4. EOFC \notin Letter /\ EOFC \notin Digit /\ EOFC \notin Blank
  BY ClassAssumption DEF Punctuation, Single
<1> HIDE DEF w
<1>5. ~IsBlank(w) /\ ~IsName(w) /\ ~IsInt(w)
  BY <1>2, <1>3, <1>4 DEF IsBlank, IsName, IsInt, All
<1>6. w \in Symbols /\ IsLexeme(w)
  BY <1>3 DEF EofLine, Symbols, Punctuation, Single, IsLexeme
<1>7. TokenOf(w) = SymbolToken(w)
  BY <1>5, <1>6 DEF TokenOf
<1>8. SymbolToken(w) = SingleToken(EOFC)
  BY <1>3 DEF EofLine, SymbolToken, EOFC
<1>9. SingleToken(EOFC).type = "EOF"
  BY DEF SingleToken, EOFC, Tok
<1>10. Lexeme(EofLine, 1).token = TokenOf(w) /\ Lexeme(EofLine, 1).to = 2
  BY <1>1 DEF Lexeme, w
<1> QED
  BY <1>2, <1>7, <1>8, <1>9, <1>10

-----------------------------------------------------------------------------
(* The lines of a file.                                                    *)

Text == Char \cup {NL, CR}

LEMMA LineReadFits ==
  ASSUME NEW src \in Sources, NEW buffer \in Junk \cup {<<>>}, NEW p \in 1 .. Len(src) + 1
  PROVE  /\ LineRead(src, buffer, p) \in Seq(Text)
         /\ Len(LineRead(src, buffer, p)) \in Nat
         /\ Len(LineRead(src, buffer, p)) < MAX_LINE_LENGTH
<1>1. buffer \in Seq(Text) /\ Len(buffer) < MAX_LINE_LENGTH
  <2>1. CASE buffer \in Junk
    BY <2>1, JunkAssumption DEF Text
  <2>2. CASE buffer = <<>>
    BY <2>2, LineLengthAssumption
  <2> QED
    BY <2>1, <2>2
<1>2. Chunk(src, p) \in Seq(Text) /\ Len(Chunk(src, p)) < MAX_LINE_LENGTH
  BY ChunkFits DEF Text
<1>3. chomp(Chunk(src, p)) \in Seq(Text) /\ Len(chomp(Chunk(src, p))) <= Len(Chunk(src, p))
  BY <1>2, ChompCuts DEF Text
<1>4. Len(chomp(Chunk(src, p))) < MAX_LINE_LENGTH
  BY <1>2, <1>3, LineLengthAssumption
<1> QED
  BY <1>1, <1>3, <1>4 DEF LineRead

\* Where the reads begin: at the beginning, and where one ends that does not meet
\* the end of the file; the one that does is the last.
LEMMA ReadsFollow ==
  ASSUME NEW src \in Sources
  PROVE  LET B == Begins(src) IN
         /\ IsFiniteSet(B) /\ B \subseteq 1 .. Len(src) + 1
         /\ 1 \in B /\ Cardinality(UpTo(B, 1)) = 1
         /\ Cardinality(B) \in 1 .. Len(src) + 1
         /\ \A p \in B : ~HitsEnd(src, p) =>
              /\ ReadEnd(src, p) \in B
              /\ Cardinality(UpTo(B, ReadEnd(src, p))) = Cardinality(UpTo(B, p)) + 1
         /\ \A p \in B : HitsEnd(src, p) => Cardinality(UpTo(B, p)) = Cardinality(B)
<1> DEFINE n == Len(src) + 1
           step == [p \in 1 .. n |-> IF HitsEnd(src, p) THEN p ELSE ReadEnd(src, p)]
           B == Begins(src)
<1>1. n \in Nat \ {0} /\ Len(src) \in Nat
  BY SourcesAssumption
<1>2. \A p \in 1 .. n : ReadEnd(src, p) \in 1 .. n /\ p <= ReadEnd(src, p)
  BY <1>1, ReadAdvances
<1>3. step \in [1 .. n -> 1 .. n] /\ \A p \in 1 .. n : p <= step[p]
  BY <1>1, <1>2
<1>4. B = Reached(n, step)
  BY DEF Begins
<1>5. /\ B \in SUBSET (1 .. n) /\ 1 \in B
      /\ \A p \in B : step[p] \in B
      /\ \A p, q \in B : p < q => p < step[p] /\ step[p] <= q
  <2> HIDE DEF step, n, B
  <2> QED
    BY <1>1, <1>3, <1>4, StepsReach
<1>6. \A p \in B : p \in 1 .. n /\ step[p] = IF HitsEnd(src, p) THEN p ELSE ReadEnd(src, p)
  BY <1>5
<1> HIDE DEF step, n, B
<1>7. IsFiniteSet(1 .. n) /\ Cardinality(1 .. n) = n
  BY <1>1, FS_Interval
<1>8. IsFiniteSet(B) /\ Cardinality(B) <= n
  BY <1>5, <1>7, FS_Subset
<1>9. B \subseteq Nat /\ \A p \in B : p \in Nat /\ 1 <= p
  BY <1>1, <1>5
<1>10. \A p \in B : IsFiniteSet(UpTo(B, p)) /\ UpTo(B, p) \subseteq B
  BY <1>8, FS_Subset DEF UpTo
<1>11. Cardinality(UpTo(B, 1)) = 1
  <2>1. \A x \in B : x <= 1 <=> x = 1
    BY <1>9
  <2>2. UpTo(B, 1) = {1}
    BY <1>5, <2>1, Zenon DEF UpTo
  <2> QED
    BY <2>2, FS_Singleton
<1>12. Cardinality(B) \in 1 .. n
  BY <1>1, <1>5, <1>8, FS_CardinalityType, FS_EmptySet
<1>13. ASSUME NEW p \in B, ~HitsEnd(src, p)
       PROVE  /\ ReadEnd(src, p) \in B
              /\ Cardinality(UpTo(B, ReadEnd(src, p))) = Cardinality(UpTo(B, p)) + 1
  <2> DEFINE q == ReadEnd(src, p)
  <2>1. q = step[p] /\ q \in B
    BY <1>5, <1>6, <1>13
  <2>2. p # Len(src) + 1
    BY <1>13, EndIsMet
  <2>3. p < q
    BY <1>1, <1>5, <2>2, ReadAdvances DEF n
  <2> HIDE DEF q
  <2>4. \A x \in B : x <= q <=> x <= p \/ x = q
    <3> SUFFICES ASSUME NEW x \in B PROVE x <= q <=> x <= p \/ x = q
      OBVIOUS
    <3>1. x \in Nat /\ p \in Nat /\ q \in Nat /\ (p < x => q <= x)
      BY <1>5, <1>9, <2>1
    <3> QED
      BY <2>3, <3>1
  <2>5. ~(q <= p)
    BY <1>9, <2>1, <2>3
  <2>7. UpTo(B, q) = UpTo(B, p) \cup {q} /\ q \notin UpTo(B, p)
    BY <2>1, <2>4, <2>5, Zenon DEF UpTo
  <2>6. Cardinality(UpTo(B, q)) = Cardinality(UpTo(B, p)) + 1
    BY <1>10, <2>7, FS_AddElement
  <2> QED
    BY <2>1, <2>6 DEF q
<1>14. ASSUME NEW p \in B, HitsEnd(src, p) PROVE Cardinality(UpTo(B, p)) = Cardinality(B)
  <2>1. \A x \in B : x <= p
    <3> SUFFICES ASSUME NEW x \in B, p < x PROVE FALSE
      BY <1>9
    <3>1. p < step[p] /\ step[p] = p /\ p \in Nat
      BY <1>5, <1>6, <1>9, <1>14
    <3> QED
      BY <3>1
  <2>2. UpTo(B, p) = B
    BY <2>1 DEF UpTo
  <2> QED
    BY <2>2
<1> QED
  BY <1>5, <1>8, <1>11, <1>12, <1>13, <1>14 DEF B, n

\* The line of a row is what the read that has its number gives.
LEMMA LinesAreRead ==
  ASSUME NEW src \in Sources, NEW buffer \in Junk \cup {<<>>}
  PROVE  LET B == Begins(src)
             lines == AllLines(src, buffer) IN
         /\ lines \in Seq(Seq(Text)) /\ Len(lines) = Cardinality(B) /\ DOMAIN lines = 1 .. Cardinality(B)
         /\ \A n \in DOMAIN lines : Len(lines[n]) \in Nat /\ Len(lines[n]) < MAX_LINE_LENGTH
         /\ \A p \in B : lines[Cardinality(UpTo(B, p))] = LineRead(src, buffer, p)
<1> DEFINE B == Begins(src)
           lines == AllLines(src, buffer)
           begin(n) == CHOOSE p \in B : Cardinality(UpTo(B, p)) = n
<1>1. IsFiniteSet(B) /\ B \subseteq 1 .. Len(src) + 1 /\ Cardinality(B) \in Nat
  BY ReadsFollow, SourcesAssumption
<1>2. B \subseteq Nat
  BY <1>1
<1>3. lines = [n \in 1 .. Cardinality(B) |-> LineRead(src, buffer, begin(n))]
  BY DEF AllLines
<1>4. /\ \A p \in B : Cardinality(UpTo(B, p)) \in 1 .. Cardinality(B)
      /\ \A p, q \in B : Cardinality(UpTo(B, p)) = Cardinality(UpTo(B, q)) => p = q
      /\ \A k \in 1 .. Cardinality(B) : \E p \in B : Cardinality(UpTo(B, p)) = k
  <2> HIDE DEF B
  <2> QED
    BY <1>1, <1>2, NumbersAreRanked
<1> HIDE DEF B, lines
<1>5. \A n \in 1 .. Cardinality(B) : begin(n) \in B /\ Cardinality(UpTo(B, begin(n))) = n
  BY <1>4
<1> HIDE DEF begin
<1>6. \A p \in B : begin(Cardinality(UpTo(B, p))) = p
  BY <1>4, <1>5
<1>7. \A n \in 1 .. Cardinality(B) : lines[n] = LineRead(src, buffer, begin(n))
  BY <1>3
<1>8. \A n \in 1 .. Cardinality(B) :
        lines[n] \in Seq(Text) /\ Len(lines[n]) \in Nat /\ Len(lines[n]) < MAX_LINE_LENGTH
  <2> SUFFICES ASSUME NEW n \in 1 .. Cardinality(B)
               PROVE  lines[n] \in Seq(Text) /\ Len(lines[n]) \in Nat /\ Len(lines[n]) < MAX_LINE_LENGTH
    OBVIOUS
  <2>1. begin(n) \in 1 .. Len(src) + 1
    BY <1>1, <1>5
  <2> QED
    BY <1>7, <2>1, LineReadFits
<1>9. DOMAIN lines = 1 .. Cardinality(B) /\ lines \in Seq(Seq(Text)) /\ Len(lines) = Cardinality(B)
  <2>1. lines \in [1 .. Cardinality(B) -> Seq(Text)]
    BY <1>3, <1>8
  <2> QED
    BY <1>1, <2>1
<1>10. \A p \in B : lines[Cardinality(UpTo(B, p))] = LineRead(src, buffer, p)
  BY <1>4, <1>6, <1>7
<1> QED
  BY <1>8, <1>9, <1>10 DEF B, lines

\* The starts of the lexemes of a line: its first place, and with each the place
\* behind the lexeme, and none in between.
LEMMA LexemesFollow ==
  ASSUME NEW w, Len(w) \in Nat
  PROVE  /\ Starts(w) \in SUBSET (1 .. Len(w) + 1)
         /\ 1 \in Starts(w)
         /\ \A k \in Starts(w) : k <= Len(w) =>
              /\ Lexeme(w, k).to \in Starts(w)
              /\ \A j \in Starts(w) : k < j => Lexeme(w, k).to <= j
<1> DEFINE n == Len(w) + 1
           step == [k \in 1 .. n |-> IF k > Len(w) THEN k ELSE Lexeme(w, k).to]
<1>1. \A k \in 1 .. Len(w) : Lexeme(w, k).to \in k + 1 .. n
  BY LexemeAdvances
<1>2. n \in Nat \ {0} /\ step \in [1 .. n -> 1 .. n] /\ \A k \in 1 .. n : k <= step[k]
  BY <1>1
<1>3. Starts(w) = Reached(n, step)
  BY DEF Starts
<1>4. \A k \in 1 .. n : k <= Len(w) => step[k] = Lexeme(w, k).to
  OBVIOUS
<1> HIDE DEF step, n
<1>5. /\ Starts(w) \in SUBSET (1 .. n) /\ 1 \in Starts(w)
      /\ \A k \in Starts(w) : step[k] \in Starts(w)
      /\ \A k, j \in Starts(w) : k < j => k < step[k] /\ step[k] <= j
  BY <1>2, <1>3, StepsReach
<1>6. \A k \in Starts(w) : k <= Len(w) => step[k] = Lexeme(w, k).to
  BY <1>4, <1>5
<1> QED
  BY <1>5, <1>6 DEF n

-----------------------------------------------------------------------------
(* Sequences.                                                              *)

LEMMA AppendAddsOne ==
  ASSUME NEW S, NEW q \in Seq(S), NEW e \in S
  PROVE  ToSet(Append(q, e)) = ToSet(q) \cup {e}
<1> DEFINE p == Append(q, e)
<1>1. /\ p \in Seq(S) /\ Len(p) = Len(q) + 1 /\ p[Len(q) + 1] = e
      /\ \A k \in 1 .. Len(q) : p[k] = q[k]
  BY AppendProperties
<1> HIDE DEF p
<1>2. Len(q) \in Nat /\ DOMAIN q = 1 .. Len(q) /\ DOMAIN p = 1 .. Len(q) + 1
  BY <1>1
<1>3. ASSUME NEW x \in ToSet(p) PROVE x \in ToSet(q) \cup {e}
  <2>1. PICK k \in 1 .. Len(q) + 1 : x = p[k]
    BY <1>2 DEF ToSet
  <2>2. CASE k = Len(q) + 1
    BY <1>1, <2>1, <2>2
  <2>3. CASE k # Len(q) + 1
    <3>1. k \in 1 .. Len(q)
      BY <1>2, <2>3
    <3> QED
      BY <1>1, <1>2, <2>1, <3>1 DEF ToSet
  <2> QED
    BY <2>2, <2>3
<1>4. ASSUME NEW x \in ToSet(q) PROVE x \in ToSet(p)
  <2>1. PICK k \in 1 .. Len(q) : x = q[k]
    BY <1>2 DEF ToSet
  <2>2. k \in 1 .. Len(q) + 1 /\ x = p[k]
    BY <1>1, <1>2, <2>1
  <2> QED
    BY <1>2, <2>2 DEF ToSet
<1>5. e \in ToSet(p)
  BY <1>1, <1>2 DEF ToSet
<1>6. ToSet(p) = ToSet(q) \cup {e}
  BY <1>3, <1>4, <1>5
<1> QED
  BY <1>6 DEF p

-----------------------------------------------------------------------------
(* The errors dealt with.                                                  *)

\* Moving on keeps what was behind behind.
LEMMA MovingOn ==
  ASSUME ErrorInvariant,
         NEW n \in Nat, NEW k \in Nat,
         (row = n /\ f <= k) \/ row < n \/ n = EofRow
  PROVE  \A p \in Dealt : Before(p, <<n, k>>)
<1> SUFFICES ASSUME NEW p \in Dealt PROVE Before(p, <<n, k>>)
  OBVIOUS
<1>1. Len(file) \in Nat /\ row \in Nat /\ f \in Nat
  BY SourcesAssumption DEF ErrorInvariant, Position
<1>2. p[1] \in 1 .. Len(file) + 1 /\ p[2] \in Nat
  BY LineLengthAssumption DEF ErrorInvariant
<1>3. p[1] < row \/ (p[1] = row /\ p[2] < f)
  BY DEF ErrorInvariant, Before
<1> QED
  BY <1>1, <1>2, <1>3 DEF Before, EofRow

\* The errors dealt with stay as they are.
LEMMA SamePlaces ==
  ASSUME ErrorInvariant, Position', UNCHANGED <<file, reports>>,
         \A p \in Dealt : Before(p, <<row', f'>>)
  PROVE  ErrorInvariant'
<1>1. UNCHANGED <<errors, hidden>> /\ Dealt' = Dealt
  BY DEF reports, Dealt
<1>2. ErrorsAreDealtWithOnce'
  BY <1>1 DEF ErrorInvariant, ErrorsAreDealtWithOnce
<1> QED
  BY <1>1, <1>2 DEF ErrorInvariant

-----------------------------------------------------------------------------
(* The steps.                                                              *)

LEMMA InitIsSound == TInit => ErrorInvariant
<1> SUFFICES ASSUME TInit PROVE ErrorInvariant
  OBVIOUS
<1>1. /\ file \in Sources /\ pos = 1 /\ eof = FALSE
      /\ l = <<>> /\ f = 1 /\ row = 0 /\ i = 0
      /\ errors = <<>> /\ hidden = {}
  BY Zenon DEF TInit
<1>2. junk \in Junk \cup {<<>>}
  BY Zenon DEF TInit
<1>3. Position
  <2>1. Len(file) \in Nat
    BY <1>1, SourcesAssumption
  <2>2. l \in Seq(Char \cup {NL, CR}) /\ Len(l) = 0
    BY <1>1
  <2>3. Len(l) < MAX_LINE_LENGTH /\ f \in 1 .. Len(l) + 1 /\ pos \in 1 .. Len(file) + 1
    BY <1>1, <2>1, <2>2, LineLengthAssumption
  <2>4. eof \in BOOLEAN /\ ~eof
    BY <1>1
  <2>5. row \in Nat /\ i \in Int /\ row < pos
    BY <1>1
  <2> QED
    BY <1>1, <1>2, <2>2, <2>3, <2>4, <2>5, Zenon DEF Position
<1>4. Dealt = {} /\ ErrorsAreDealtWithOnce
  <2>1. Len(errors) = 0 /\ DOMAIN errors = {}
    BY <1>1
  <2>2. ToSet(errors) = {}
    BY <2>1 DEF ToSet
  <2> QED
    BY <1>1, <2>1, <2>2 DEF Dealt, ErrorsAreDealtWithOnce
<1>5. errors \in Seq(Nat \X Nat)
  BY <1>1
<1> QED
  BY <1>3, <1>4, <1>5 DEF ErrorInvariant

\* A step that moves nothing.
LEMMA StayingKeeps ==
  ASSUME ErrorInvariant, UNCHANGED <<fileVars, readVars, f, reports>>, i' \in Int
  PROVE  ErrorInvariant'
<1>1. UNCHANGED <<file, junk, pos, eof, row, l, f>>
  BY DEF fileVars, readVars
<1>2. Position'
  BY <1>1 DEF ErrorInvariant, Position, EofRow, EofLine
<1>3. \A p \in Dealt : Before(p, <<row', f'>>)
  BY <1>1 DEF ErrorInvariant
<1> QED
  BY <1>1, <1>2, <1>3, SamePlaces

\* A step along the line.
LEMMA MovingKeeps ==
  ASSUME ErrorInvariant, pc = "call", ~AtEndOfLine, f' = Found.to, i' \in Int,
         UNCHANGED <<fileVars, readVars, reports>>
  PROVE  ErrorInvariant'
<1>1. UNCHANGED <<file, junk, pos, eof, row, l>>
  BY DEF fileVars, readVars
<1>2. f \in 1 .. Len(l) /\ Len(l) \in Nat /\ row \in Nat
  BY DEF ErrorInvariant, Position, AtEndOfLine
<1>3. f' \in f + 1 .. Len(l) + 1
  BY <1>2, LexemeAdvances DEF Found
<1>4. Position'
  BY <1>1, <1>2, <1>3 DEF ErrorInvariant, Position, EofRow, EofLine
<1>5. \A p \in Dealt : Before(p, <<row', f'>>)
  BY <1>1, <1>2, <1>3, MovingOn
<1> QED
  BY <1>1, <1>4, <1>5, SamePlaces

\* The next line, and where the file is read on after it.
LEMMA GrabLineMoves ==
  ASSUME Position, GrabLine
  PROVE  /\ Position'
         /\ row < row' \/ row' = EofRow
<1> DEFINE text == Char \cup {NL, CR}
<1>1. UNCHANGED <<file, junk>> /\ f' = 1 /\ i' = i + 1 /\ get_next_line
  BY DEF GrabLine, fileVars
<1>2. Len(file) \in Nat /\ row \in Nat /\ pos \in 1 .. Len(file) + 1
  BY SourcesAssumption DEF Position
<1>3. EofRow' = EofRow /\ EofLine' = EofLine /\ EofRow \in Nat
  BY <1>1, <1>2 DEF EofRow, EofLine
<1>4. CASE eof
  <2>1. l' = EofLine /\ row' = EofRow /\ UNCHANGED <<pos, eof>>
    BY <1>1, <1>4 DEF get_next_line
  <2>2. EofLine \in Seq(text) /\ Len(EofLine) = 1
    BY DEF EofLine, Char, Punctuation, Single
  <2> QED
    BY <1>1, <1>2, <1>3, <1>4, <2>1, <2>2, LineLengthAssumption DEF Position
<1>5. CASE ~eof
  <2>1. /\ l' = LineRead(file, junk, pos)
        /\ pos' = ReadEnd(file, pos)
        /\ eof' = HitsEnd(file, pos)
        /\ row' = row + 1
    BY <1>1, <1>5 DEF get_next_line
  <2>5. l' \in Seq(text) /\ Len(l') < MAX_LINE_LENGTH /\ Len(l') \in Nat
    BY <2>1, LineReadFits DEF Position, Text
  <2>6. pos' \in 1 .. Len(file) + 1 /\ (pos <= Len(file) => pos' > pos)
    BY <1>2, <2>1, ReadAdvances DEF Position
  <2>7. row < pos /\ eof' \in BOOLEAN
    BY <1>5, <2>1 DEF Position, HitsEnd
  <2>8. row' <= Len(file) + 1 /\ (~eof' => row' < pos')
    <3>1. CASE pos <= Len(file)
      BY <1>2, <2>1, <2>6, <2>7, <3>1
    <3>2. CASE pos = Len(file) + 1
      BY <1>2, <2>1, <2>7, <3>2, EndIsMet DEF Position
    <3> QED
      BY <1>2, <3>1, <3>2
  <2> QED
    BY <1>1, <1>2, <1>3, <2>1, <2>5, <2>6, <2>7, <2>8 DEF Position
<1> QED
  BY <1>4, <1>5

LEMMA GrabLineKeeps == ErrorInvariant /\ GrabLine => ErrorInvariant'
<1> SUFFICES ASSUME ErrorInvariant, GrabLine PROVE ErrorInvariant'
  OBVIOUS
<1>1. Position' /\ (row < row' \/ row' = EofRow)
  BY GrabLineMoves DEF ErrorInvariant
<1>2. row' \in Nat /\ f' = 1 /\ UNCHANGED <<file, reports>>
  BY <1>1 DEF Position, GrabLine, fileVars
<1>3. \A p \in Dealt : Before(p, <<row', f'>>)
  BY <1>1, <1>2, MovingOn
<1> QED
  BY <1>1, <1>2, <1>3, SamePlaces

\* A lexical error is found at a place where none was dealt with before.
LEMMA SkipErrorKeeps == ErrorInvariant /\ SkipError => ErrorInvariant'
<1> SUFFICES ASSUME ErrorInvariant, SkipError PROVE ErrorInvariant'
  OBVIOUS
<1> DEFINE here == <<row, f>>
<1>1. UNCHANGED <<file, junk, pos, eof, row, l, i>> /\ pc = "call" /\ ~AtEndOfLine
  BY DEF SkipError, IsA, fileVars, readVars
<1>2. f \in 1 .. Len(l) /\ Len(l) \in Nat /\ row \in Nat \ {0} /\ Len(l) < MAX_LINE_LENGTH
  BY <1>1 DEF ErrorInvariant, Position, AtEndOfLine
<1>3. f' = Found.to /\ Found.to \in f + 1 .. Len(l) + 1
  BY <1>2, LexemeAdvances DEF Found, SkipError
<1>4. Position'
  BY <1>1, <1>2, <1>3 DEF ErrorInvariant, Position, EofRow, EofLine
<1>5. l # EofLine
  <2> SUFFICES ASSUME l = EofLine PROVE FALSE
    OBVIOUS
  <2>1. f = 1
    BY <1>2 DEF EofLine
  <2> QED
    BY <2>1, EofIsEof DEF SkipError, IsA, Found
<1>6. Len(file) \in Nat /\ pos \in 1 .. Len(file) + 1
  BY SourcesAssumption DEF ErrorInvariant, Position
<1>7. here \in (1 .. Len(file) + 1) \X (1 .. MAX_LINE_LENGTH)
  BY <1>2, <1>5, <1>6, LineLengthAssumption DEF ErrorInvariant, Position
<1>8. here \notin Dealt /\ \A p \in Dealt : Before(p, here)
  BY <1>2 DEF ErrorInvariant, Before
<1>9. Dealt' = Dealt \cup {here} /\ errors' \in Seq(Nat \X Nat) /\ ErrorsAreDealtWithOnce'
  <2>1. errors \in Seq(Nat \X Nat) /\ here \in Nat \X Nat
    BY <1>2 DEF ErrorInvariant
  <2>2. CASE "SQUASH" \in opt
    <3>1. hidden' = hidden \cup {here} /\ errors' = errors
      BY <2>2 DEF SkipError
    <3> QED
      BY <1>8, <2>1, <3>1 DEF Dealt, ErrorInvariant, ErrorsAreDealtWithOnce
  <2>3. CASE "SQUASH" \notin opt
    <3>1. errors' = Append(errors, here) /\ hidden' = hidden
      BY <2>3 DEF SkipError
    <3>2. /\ errors' \in Seq(Nat \X Nat) /\ Len(errors') = Len(errors) + 1
          /\ \A k \in 1 .. Len(errors) : errors'[k] = errors[k]
          /\ errors'[Len(errors) + 1] = here
      BY <2>1, <3>1, AppendProperties
    <3>3. /\ Len(errors) \in Nat /\ DOMAIN errors = 1 .. Len(errors)
          /\ DOMAIN errors' = 1 .. Len(errors) + 1
      BY <2>1, <3>2
    <3>4. ToSet(errors') = ToSet(errors) \cup {here}
      BY <2>1, <3>1, AppendAddsOne
    <3>5. ASSUME NEW k \in 2 .. Len(errors') PROVE Before(errors'[k - 1], errors'[k])
      <4>1. CASE k <= Len(errors)
        <5>1. k \in 2 .. Len(errors) /\ k - 1 \in 1 .. Len(errors) /\ k \in 1 .. Len(errors)
          BY <3>2, <3>3, <4>1
        <5>2. errors'[k - 1] = errors[k - 1] /\ errors'[k] = errors[k]
          BY <3>2, <3>3, <5>1
        <5>3. Before(errors[k - 1], errors[k])
          BY <5>1 DEF ErrorInvariant, ErrorsAreDealtWithOnce
        <5> QED
          BY <5>2, <5>3
      <4>2. CASE k = Len(errors) + 1
        <5>1. k - 1 = Len(errors) /\ Len(errors) \in 1 .. Len(errors)
          BY <3>2, <3>3, <4>2
        <5>2. errors'[k - 1] = errors[Len(errors)]
          BY <3>2, <5>1
        <5>3. errors[Len(errors)] \in Dealt
          BY <3>3, <5>1 DEF Dealt, ToSet
        <5> QED
          BY <1>8, <3>2, <4>2, <5>2, <5>3
      <4> QED
        BY <3>2, <3>3, <4>1, <4>2
    <3> QED
      BY <1>8, <3>1, <3>2, <3>4, <3>5 DEF Dealt, ErrorInvariant, ErrorsAreDealtWithOnce
  <2> QED
    BY <2>2, <2>3
<1>10. \A p \in Dealt : Before(p, <<row', f'>>)
  BY <1>1, <1>2, <1>3, MovingOn
<1>11. Before(here, <<row', f'>>)
  BY <1>1, <1>2, <1>3 DEF Before
<1> QED
  BY <1>1, <1>4, <1>7, <1>9, <1>10, <1>11 DEF ErrorInvariant

LEMMA NextKeepsErrors == ErrorInvariant /\ [TNext]_tVars => ErrorInvariant'
<1> SUFFICES ASSUME ErrorInvariant, [TNext]_tVars PROVE ErrorInvariant'
  OBVIOUS
<1>1. i \in Int
  BY DEF ErrorInvariant, Position
<1>2. ASSUME NEW options \in Options, Recall(options) PROVE ErrorInvariant'
  BY <1>1, <1>2, StayingKeeps DEF Recall
<1>3. ASSUME NEW options \in Options, Call(options) PROVE ErrorInvariant'
  BY <1>1, <1>3, StayingKeeps DEF Call
<1>4. CASE GrabLine
  BY <1>4, GrabLineKeeps
<1>5. CASE SkipWhitespace
  BY <1>1, <1>5, MovingKeeps DEF SkipWhitespace, IsA
<1>6. CASE SkipError
  BY <1>6, SkipErrorKeeps
<1>7. CASE Return
  BY <1>1, <1>7, MovingKeeps DEF Return
<1>8. CASE UNCHANGED tVars
  BY <1>1, <1>8, StayingKeeps DEF tVars
<1> QED
  BY <1>2, <1>3, <1>4, <1>5, <1>6, <1>7, <1>8 DEF TNext, Continue

-----------------------------------------------------------------------------
(* The stream of a file.                                                   *)

PlacesOf(src, buffer)    == Places(AllLines(src, buffer), Len(src) + 2)
StreamOf(src, buffer)    == TokensIn(AllLines(src, buffer), Len(src) + 2)
LexemeOf(src, buffer, p) == Lexeme(IF p[1] = Len(src) + 2 THEN EofLine ELSE AllLines(src, buffer)[p[1]], p[2])
NumberOf(src, p)         == IF p[1] = Len(src) + 2 THEN Cardinality(Begins(src)) + 1 ELSE p[1]
PlacesTo(places, x)      == { q \in places : Before(q, x) }
Eofs(src, buffer, S)     == { q \in S : LexemeOf(src, buffer, q).token.type = "EOF" }

LEMMA PlacesArePlaces ==
  ASSUME NEW src \in Sources, NEW buffer \in Junk \cup {<<>>}
  PROVE  LET P == PlacesOf(src, buffer)
             lines == AllLines(src, buffer) IN
         /\ IsFiniteSet(P) /\ P \subseteq Place
         /\ <<Len(src) + 2, 1>> \in P
         /\ \A p \in P : \/ p = <<Len(src) + 2, 1>>
                         \/ /\ p[1] \in DOMAIN lines
                            /\ p = <<p[1], p[2]>>
                            /\ p[2] \in TokensOf(lines[p[1]])
                            /\ p[2] \in 1 .. Len(lines[p[1]])
         /\ \A n \in DOMAIN lines : \A k \in TokensOf(lines[n]) : <<n, k>> \in P
         /\ DOMAIN lines \subseteq 1 .. Len(src) + 1
<1> DEFINE lines == AllLines(src, buffer)
           P == PlacesOf(src, buffer)
           end == Len(src) + 2
           all == (1 .. Len(src) + 2) \X (1 .. MAX_LINE_LENGTH)
<1>1. Len(src) \in Nat
  BY SourcesAssumption
<1>2. /\ DOMAIN lines \subseteq 1 .. Len(src) + 1
      /\ \A n \in DOMAIN lines : Len(lines[n]) \in Nat /\ Len(lines[n]) < MAX_LINE_LENGTH
  BY <1>1, LinesAreRead, ReadsFollow
<1>3. P = {<<end, 1>>} \cup UNION { {n} \X TokensOf(lines[n]) : n \in DOMAIN lines }
  BY DEF PlacesOf, Places
<1> HIDE DEF lines, P, end
<1>12. \A p : p \in P <=> p = <<end, 1>> \/ \E n \in DOMAIN lines : p \in {n} \X TokensOf(lines[n])
  BY <1>3
<1>4. ASSUME NEW n \in DOMAIN lines PROVE TokensOf(lines[n]) \subseteq 1 .. Len(lines[n])
  <2>1. Starts(lines[n]) \subseteq 1 .. Len(lines[n]) + 1
    BY <1>2, LexemesFollow
  <2>2. TokensOf(lines[n]) \subseteq Starts(lines[n]) \ {Len(lines[n]) + 1}
    BY DEF TokensOf
  <2> QED
    BY <1>2, <2>1, <2>2
<1>5. \A n \in DOMAIN lines : \A k \in TokensOf(lines[n]) : <<n, k>> \in P
  <2> SUFFICES ASSUME NEW n \in DOMAIN lines, NEW k \in TokensOf(lines[n]) PROVE <<n, k>> \in P
    OBVIOUS
  <2>1. <<n, k>> \in {n} \X TokensOf(lines[n])
    OBVIOUS
  <2> QED
    BY <1>12, <2>1
<1>6. \A p \in P : \/ p = <<end, 1>>
                   \/ /\ p[1] \in DOMAIN lines
                      /\ p = <<p[1], p[2]>>
                      /\ p[2] \in TokensOf(lines[p[1]])
                      /\ p[2] \in 1 .. Len(lines[p[1]])
  <2> SUFFICES ASSUME NEW p \in P, p # <<end, 1>>
               PROVE  /\ p[1] \in DOMAIN lines
                      /\ p = <<p[1], p[2]>>
                      /\ p[2] \in TokensOf(lines[p[1]])
                      /\ p[2] \in 1 .. Len(lines[p[1]])
    OBVIOUS
  <2>1. PICK n \in DOMAIN lines : p \in {n} \X TokensOf(lines[n])
    BY <1>12
  <2>2. p[1] = n /\ p = <<p[1], p[2]>> /\ p[2] \in TokensOf(lines[n])
    BY <2>1
  <2> QED
    BY <1>4, <2>2
<1>7. P \subseteq all
  <2> SUFFICES ASSUME NEW p \in P PROVE p \in all
    OBVIOUS
  <2>1. CASE p = <<end, 1>>
    BY <1>1, <2>1, LineLengthAssumption DEF end
  <2>2. CASE p # <<end, 1>>
    <3>1. p[1] \in 1 .. Len(src) + 2 /\ p = <<p[1], p[2]>>
      BY <1>1, <1>2, <1>6, <2>2
    <3>2. p[2] \in 1 .. MAX_LINE_LENGTH
      BY <1>2, <1>6, <2>2, LineLengthAssumption
    <3> QED
      BY <3>1, <3>2
  <2> QED
    BY <2>1, <2>2
<1>8. IsFiniteSet(all)
  <2>1. IsFiniteSet(1 .. Len(src) + 2) /\ IsFiniteSet(1 .. MAX_LINE_LENGTH)
    BY <1>1, LineLengthAssumption, FS_Interval
  <2> QED
    BY <2>1, FS_Product
<1>9. IsFiniteSet(P)
  BY <1>7, <1>8, FS_Subset
<1>10. P \subseteq Place
  <2>1. all \subseteq Place
    BY <1>1, LineLengthAssumption DEF Place
  <2> QED
    BY <1>7, <2>1
<1>11. <<end, 1>> \in P
  BY <1>12
<1> QED
  BY <1>2, <1>5, <1>6, <1>9, <1>10, <1>11 DEF P, lines, end

\* What stands in the stream for a place.
LEMMA TokenOfPlace ==
  ASSUME NEW src \in Sources, NEW buffer \in Junk \cup {<<>>}, NEW p
  PROVE  LET P == PlacesOf(src, buffer) IN
         TokenAt(AllLines(src, buffer), Len(src) + 2, p) =
           [token |-> LexemeOf(src, buffer, p).token, row |-> p[1], from |-> p[2],
            line_no |-> NumberOf(src, p) - Cardinality(Eofs(src, buffer, Through(P, p)))]
<1>1. Len(AllLines(src, buffer)) = Cardinality(Begins(src))
  BY LinesAreRead
<1> QED
  BY <1>1 DEF TokenAt, LexemeOf, NumberOf, PlacesOf, Eofs

LEMMA StreamIsRanked ==
  ASSUME NEW src \in Sources, NEW buffer \in Junk \cup {<<>>}
  PROVE  LET P == PlacesOf(src, buffer)
             s == StreamOf(src, buffer) IN
         /\ Cardinality(P) \in Nat \ {0}
         /\ DOMAIN s = 1 .. Cardinality(P) /\ Len(s) = Cardinality(P)
         /\ \A p \in P : s[Cardinality(Through(P, p))] = TokenAt(AllLines(src, buffer), Len(src) + 2, p)
<1> DEFINE P == PlacesOf(src, buffer)
           s == StreamOf(src, buffer)
           T(p) == TokenAt(AllLines(src, buffer), Len(src) + 2, p)
           place(k) == CHOOSE p \in P : Cardinality(Through(P, p)) = k
<1>1. IsFiniteSet(P) /\ P \subseteq Place /\ P # {}
  BY PlacesArePlaces
<1>2. Cardinality(P) \in Nat \ {0}
  BY <1>1, FS_CardinalityType, FS_EmptySet
<1>3. s = [k \in 1 .. Cardinality(P) |-> T(place(k))]
  BY DEF StreamOf, TokensIn, PlacesOf
<1> HIDE DEF P, s, T
<1>4. /\ \A p \in P : Cardinality(Through(P, p)) \in 1 .. Cardinality(P)
      /\ \A p, q \in P : Cardinality(Through(P, p)) = Cardinality(Through(P, q)) => p = q
  BY <1>1, PlacesAreRanked
<1>5. \A p \in P : place(Cardinality(Through(P, p))) = p
  BY <1>4
<1> HIDE DEF place
<1>6. DOMAIN s = 1 .. Cardinality(P) /\ Len(s) = Cardinality(P)
  BY <1>2, <1>3
<1>7. \A p \in P : s[Cardinality(Through(P, p))] = T(p)
  BY <1>3, <1>4, <1>5
<1> QED
  BY <1>2, <1>6, <1>7 DEF P, s, T

\* Of the stream, as many tokens are behind a place as there are places.
LEMMA StreamBehind ==
  ASSUME NEW src \in Sources, NEW buffer \in Junk \cup {<<>>}, NEW n \in Nat, NEW c \in Nat
  PROVE  LET P == PlacesOf(src, buffer)
             s == StreamOf(src, buffer)
             u == Cardinality(PlacesTo(P, <<n, c>>)) IN
         /\ IsFiniteSet(PlacesTo(P, <<n, c>>)) /\ u \in 0 .. Cardinality(P)
         /\ { k \in DOMAIN s : s[k].row < n \/ (s[k].row = n /\ s[k].from < c) } = 1 .. u
         /\ Cardinality({ k \in 1 .. u : s[k].token.type = "EOF" })
            = Cardinality(Eofs(src, buffer, PlacesTo(P, <<n, c>>)))
<1> DEFINE P == PlacesOf(src, buffer)
           s == StreamOf(src, buffer)
           x == <<n, c>>
           B == PlacesTo(P, x)
           u == Cardinality(B)
           rank(p) == Cardinality(Through(P, p))
<1>0. x \in Place /\ x[1] = n /\ x[2] = c
  BY DEF Place
<1>1. IsFiniteSet(P) /\ P \subseteq Place
  BY PlacesArePlaces
<1>2. /\ \A p \in P : s[rank(p)] = TokenAt(AllLines(src, buffer), Len(src) + 2, p)
      /\ DOMAIN s = 1 .. Cardinality(P) /\ Cardinality(P) \in Nat
  BY StreamIsRanked
<1>3. \A p \in P : s[rank(p)].row = p[1] /\ s[rank(p)].from = p[2]
                   /\ s[rank(p)].token = LexemeOf(src, buffer, p).token
  <2> SUFFICES ASSUME NEW p \in P
               PROVE  /\ s[rank(p)].row = p[1] /\ s[rank(p)].from = p[2]
                      /\ s[rank(p)].token = LexemeOf(src, buffer, p).token
    OBVIOUS
  <2>1. TokenAt(AllLines(src, buffer), Len(src) + 2, p) =
           [token |-> LexemeOf(src, buffer, p).token, row |-> p[1], from |-> p[2],
            line_no |-> NumberOf(src, p) - Cardinality(Eofs(src, buffer, Through(P, p)))]
    BY TokenOfPlace
  <2>2. s[rank(p)] = TokenAt(AllLines(src, buffer), Len(src) + 2, p)
    BY <1>2
  <2> QED
    BY <2>1, <2>2
<1> HIDE DEF P, s, x
<1>4. /\ \A p \in P : rank(p) \in 1 .. Cardinality(P)
      /\ \A p, q \in P : rank(p) = rank(q) => p = q
      /\ \A k \in 1 .. Cardinality(P) : \E p \in P : rank(p) = k
  BY <1>1, PlacesAreRanked
<1>5. B \in SUBSET P /\ IsFiniteSet(B) /\ u \in Nat /\ u <= Cardinality(P)
  <2>1. B \in SUBSET P
    BY DEF PlacesTo
  <2> QED
    BY <1>1, <2>1, FS_Subset, FS_CardinalityType
<1>6. ASSUME NEW p \in P PROVE Before(p, x) <=> rank(p) <= u
  <2>1. p \in Place /\ IsFiniteSet(Through(P, p)) /\ Through(P, p) \subseteq P
    BY <1>1, FS_Subset DEF Through
  <2>2. rank(p) \in Nat
    BY <1>4
  <2>3. CASE Before(p, x)
    <3>1. Through(P, p) \in SUBSET B
      <4> SUFFICES ASSUME NEW q \in P, q = p \/ Before(q, p) PROVE Before(q, x)
        BY DEF Through, PlacesTo
      <4>1. q \in Place
        BY <1>1
      <4> QED
        BY <1>0, <2>1, <2>3, <4>1, BeforeIsAnOrder
    <3> QED
      BY <1>5, <2>3, <3>1, FS_Subset
  <2>4. CASE ~Before(p, x)
    <3>1. B \in SUBSET Through(P, p)
      <4> SUFFICES ASSUME NEW q \in P, Before(q, x) PROVE q = p \/ Before(q, p)
        BY DEF Through, PlacesTo
      <4>1. q \in Place
        BY <1>1
      <4>2. p = q \/ Before(p, q) \/ Before(q, p)
        BY <2>1, <4>1 DEF Place, Before
      <4> QED
        BY <1>0, <2>1, <2>4, <4>1, <4>2, BeforeIsAnOrder
    <3>2. p \in Through(P, p) /\ p \notin B
      BY <2>4 DEF Through, PlacesTo
    <3> QED
      BY <1>5, <2>1, <2>2, <2>4, <3>1, <3>2, SmallerByOne
  <2> QED
    BY <2>3, <2>4
<1> DEFINE behind(k) == s[k].row < n \/ (s[k].row = n /\ s[k].from < c)
<1> HIDE DEF rank
<1>7. \A p \in P : behind(rank(p)) <=> rank(p) <= u
  BY <1>0, <1>3, <1>6 DEF Before
<1>8. \A k \in DOMAIN s : behind(k) <=> k <= u
  BY <1>2, <1>4, <1>7
<1>9. { k \in DOMAIN s : behind(k) } = 1 .. u
  <2> HIDE DEF behind, B
  <2>1. \A k \in 1 .. u : k \in DOMAIN s
    BY <1>2, <1>5
  <2>2. \A k \in DOMAIN s : k <= u <=> k \in 1 .. u
    BY <1>2, <1>5
  <2> QED
    BY <1>8, <2>1, <2>2
<1>10. Cardinality({ k \in 1 .. u : s[k].token.type = "EOF" }) = Cardinality(Eofs(src, buffer, B))
  <2> DEFINE T == { k \in 1 .. u : s[k].token.type = "EOF" }
             E == Eofs(src, buffer, B)
             g == [p \in E |-> rank(p)]
  <2>1. E \subseteq B /\ IsFiniteSet(E)
    BY <1>5, FS_Subset DEF Eofs
  <2>2. \A p \in E : p \in P /\ Before(p, x) /\ LexemeOf(src, buffer, p).token.type = "EOF"
    BY <1>5 DEF Eofs, PlacesTo
  <2>3. \A p \in E : rank(p) \in T
    BY <1>3, <1>4, <1>5, <1>6, <2>2
  <2>4. \A p, q \in E : rank(p) = rank(q) => p = q
    BY <1>4, <2>2
  <2>5. ASSUME NEW k \in T PROVE \E p \in E : rank(p) = k
    <3>1. k \in 1 .. Cardinality(P) /\ k <= u
      BY <1>2, <1>5
    <3>2. PICK p \in P : rank(p) = k
      BY <1>4, <3>1
    <3>3. Before(p, x) /\ LexemeOf(src, buffer, p).token.type = "EOF"
      BY <1>3, <1>6, <3>1, <3>2
    <3> QED
      BY <3>2, <3>3 DEF Eofs, PlacesTo
  <2> HIDE DEF T, E
  <2>6. g \in Bijection(E, T)
    BY <2>3, <2>4, <2>5 DEF Bijection, Injection, Surjection, IsInjective
  <2>7. ExistsBijection(E, T)
    BY <2>6, Zenon DEF ExistsBijection
  <2>8. Cardinality(T) = Cardinality(E)
    BY <2>1, <2>7, FS_Bijection
  <2> QED
    BY <2>8 DEF T, E
<1> QED
  BY <1>5, <1>9, <1>10 DEF P, s, x

-----------------------------------------------------------------------------
(* Where get_next_token is in the stream.                                  *)

StreamIsGiven == stream = StreamOf(file, junk)
StreamInvariant == TokenizerInvariant /\ StreamIsGiven

\* The places behind the one where get_next_token reads on.
BehindHere == PlacesTo(PlacesOf(file, junk), <<row, f>>)

LEMMA InvariantTypes ==
  ASSUME ErrorInvariant
  PROVE  /\ file \in Sources /\ junk \in Junk \cup {<<>>} /\ Len(file) \in Nat
         /\ row \in Nat /\ f \in Nat /\ <<row, f>> \in Place /\ Len(l) \in Nat /\ i \in Int
         /\ f \in 1 .. Len(l) + 1 /\ EofRow = Len(file) + 2 /\ eof \in BOOLEAN
  BY SourcesAssumption DEF ErrorInvariant, Position, Place, EofRow

LEMMA UsedIsBehind ==
  ASSUME ErrorInvariant, StreamIsGiven
  PROVE  /\ Used = Cardinality(BehindHere) /\ IsFiniteSet(BehindHere)
         /\ Used \in 0 .. Len(stream) /\ Len(stream) \in Nat \ {0}
         /\ Cardinality({ k \in 1 .. Used : stream[k].token.type = "EOF" })
            = Cardinality(Eofs(file, junk, BehindHere))
<1>1. file \in Sources /\ junk \in Junk \cup {<<>>} /\ row \in Nat /\ f \in Nat
  BY InvariantTypes
<1>2. Used = Cardinality({ k \in DOMAIN stream : stream[k].row < row \/ (stream[k].row = row /\ stream[k].from < f) })
  BY DEF Used, Behind
<1>3. /\ Cardinality(PlacesOf(file, junk)) \in Nat \ {0}
      /\ DOMAIN stream = 1 .. Cardinality(PlacesOf(file, junk))
      /\ Len(stream) = Cardinality(PlacesOf(file, junk))
  BY <1>1, StreamIsRanked DEF StreamIsGiven
<1> DEFINE u == Cardinality(BehindHere)
<1>4. /\ IsFiniteSet(BehindHere) /\ u \in 0 .. Cardinality(PlacesOf(file, junk))
      /\ { k \in DOMAIN stream : stream[k].row < row \/ (stream[k].row = row /\ stream[k].from < f) } = 1 .. u
      /\ Cardinality({ k \in 1 .. u : stream[k].token.type = "EOF" }) = Cardinality(Eofs(file, junk, BehindHere))
  <2> DEFINE P == PlacesOf(file, junk)
             s == StreamOf(file, junk)
  <2>1. /\ IsFiniteSet(PlacesTo(P, <<row, f>>)) /\ Cardinality(PlacesTo(P, <<row, f>>)) \in 0 .. Cardinality(P)
        /\ { k \in DOMAIN s : s[k].row < row \/ (s[k].row = row /\ s[k].from < f) }
           = 1 .. Cardinality(PlacesTo(P, <<row, f>>))
        /\ Cardinality({ k \in 1 .. Cardinality(PlacesTo(P, <<row, f>>)) : s[k].token.type = "EOF" })
           = Cardinality(Eofs(file, junk, PlacesTo(P, <<row, f>>)))
    BY <1>1, StreamBehind
  <2>2. stream = s
    BY DEF StreamIsGiven
  <2> HIDE DEF s
  <2> QED
    BY <2>1, <2>2 DEF BehindHere
<1>5. Used = u
  <2>1. u \in Nat
    BY <1>3, <1>4
  <2>2. Cardinality(1 .. u) = u
    BY <2>1, FS_Interval
  <2> QED
    BY <1>2, <1>4, <2>2
<1>6. Used \in 0 .. Len(stream)
  BY <1>3, <1>4, <1>5
<1> QED
  BY <1>3, <1>4, <1>5, <1>6

\* The rows are numbers of lines, and one behind them.
LEMMA RowsAreLines ==
  ASSUME ErrorInvariant, ReadsInOrder
  PROVE  LET last == Cardinality(Begins(file)) IN
         /\ last \in 1 .. Len(file) + 1
         /\ DOMAIN AllLines(file, junk) = 1 .. last
         /\ row \in 0 .. last \/ row = EofRow
         /\ EofRow > last
         /\ ~eof => row < last
<1> DEFINE B == Begins(file)
           last == Cardinality(B)
<1>1. file \in Sources /\ junk \in Junk \cup {<<>>} /\ Len(file) \in Nat /\ row \in Nat /\ eof \in BOOLEAN
  BY InvariantTypes
<1>2. IsFiniteSet(B) /\ B \subseteq 1 .. Len(file) + 1 /\ last \in 1 .. Len(file) + 1
  BY <1>1, ReadsFollow
<1>3. DOMAIN AllLines(file, junk) = 1 .. last
  BY <1>1, LinesAreRead
<1>4. EofRow > last /\ EofRow \in Nat
  BY <1>1, <1>2 DEF EofRow
<1>5. ASSUME ~eof PROVE row + 1 \in 1 .. last
  <2>1. pos \in B /\ Cardinality(UpTo(B, pos)) = row + 1
    BY <1>5 DEF ReadsInOrder
  <2>2. B \subseteq Nat
    BY <1>1, <1>2
  <2>3. \A p \in B : Cardinality(UpTo(B, p)) \in 1 .. last
    <3> HIDE DEF B
    <3> QED
      BY <1>2, <2>2, NumbersAreRanked
  <2> QED
    BY <2>1, <2>3
<1>6. eof => row \in {last, EofRow}
  BY DEF ReadsInOrder
<1> HIDE DEF B, last
<1>7. row \in 0 .. last \/ row = EofRow
  BY <1>1, <1>2, <1>5, <1>6
<1>8. ~eof => row < last
  BY <1>1, <1>2, <1>5
<1> QED
  BY <1>2, <1>3, <1>4, <1>7, <1>8 DEF B, last

\* On a line: the next lexeme is a token exactly where there is a place of the
\* stream, and stepping over it leaves no other behind.
LEMMA OnTheLine ==
  ASSUME ErrorInvariant, ReadsInOrder, ~AtEndOfLine
  PROVE  LET P == PlacesOf(file, junk)
             last == Cardinality(Begins(file)) IN
         /\ <<row, f>> \in P <=> Found.token.type \notin {"WHITESPACE", "LEXERR"}
         /\ <<row, f>> \in P => LexemeOf(file, junk, <<row, f>>) = Found
         /\ PlacesTo(P, <<row, Found.to>>) = BehindHere \cup (P \cap {<<row, f>>})
         /\ row \in 1 .. last => Found.to \in Starts(l)
         /\ row \in Nat \ {0} /\ Found.to \in Nat /\ f < Found.to
         /\ row \in 1 .. last \/ row = EofRow
<1> DEFINE P == PlacesOf(file, junk)
           lines == AllLines(file, junk)
           last == Cardinality(Begins(file))
           x == <<row, f>>
           y == <<row, Found.to>>
<1>1. /\ file \in Sources /\ junk \in Junk \cup {<<>>} /\ Len(file) \in Nat
      /\ row \in Nat /\ f \in Nat /\ EofRow = Len(file) + 2 /\ Len(l) \in Nat
      /\ f \in 1 .. Len(l) + 1
  BY InvariantTypes
<1>2. row # 0 /\ f \in 1 .. Len(l)
  BY <1>1 DEF AtEndOfLine
<1>3. /\ last \in 1 .. Len(file) + 1 /\ DOMAIN lines = 1 .. last
      /\ row \in 1 .. last \/ row = EofRow
      /\ EofRow > last
  BY <1>1, <1>2, RowsAreLines
<1>4. /\ P \subseteq Place
      /\ <<EofRow, 1>> \in P
      /\ \A p \in P : \/ p = <<EofRow, 1>>
                      \/ p[1] \in 1 .. last /\ p = <<p[1], p[2]>> /\ p[2] \in TokensOf(lines[p[1]])
      /\ \A n \in 1 .. last : \A k \in TokensOf(lines[n]) : <<n, k>> \in P
  <2> HIDE DEF P, lines, last
  <2> QED
    BY <1>1, <1>3, PlacesArePlaces DEF P, lines
<1>5. Found = Lexeme(l, f) /\ Found.to \in f + 1 .. Len(l) + 1
  BY <1>1, <1>2, LexemeAdvances DEF Found
<1>6. Found.to \in Nat /\ f < Found.to
  BY <1>1, <1>5
<1> HIDE DEF P, lines, last
<1>7. ASSUME NEW p \in P, Before(p, x) PROVE Before(p, y)
  BY <1>1, <1>4, <1>6, <1>7 DEF Before, Place
<1>8. x \in Place /\ y \in Place /\ ~Before(x, x) /\ Before(x, y)
  BY <1>1, <1>6 DEF Place, Before
<1>9. CASE row \in 1 .. last
  <2>1. l = lines[row] /\ f \in Starts(l)
    BY <1>9 DEF ReadsInOrder, last, lines
  <2>2. /\ Starts(l) \subseteq 1 .. Len(l) + 1
        /\ Found.to \in Starts(l) /\ \A j \in Starts(l) : f < j => Found.to <= j
    BY <1>1, <1>2, <1>5, <2>1, LexemesFollow
  <2>3. f \in TokensOf(l) <=> Found.token.type \notin {"WHITESPACE", "LEXERR"}
    BY <1>2, <1>5, <2>1 DEF TokensOf
  <2>4. row # EofRow
    BY <1>3, <1>9
  <2>5. x \in P <=> f \in TokensOf(l)
    BY <1>1, <1>4, <1>9, <2>1, <2>4
  <2>6. LexemeOf(file, junk, x) = Found
    BY <1>1, <1>5, <2>1, <2>4 DEF LexemeOf, lines
  <2>7. ASSUME NEW p \in P, Before(p, y) PROVE p = x \/ Before(p, x)
    <3>1. CASE p[1] < row
      BY <3>1 DEF Before
    <3>2. CASE p[1] = row
      <4>1. p = <<row, p[2]>> /\ p[2] \in TokensOf(l) /\ p[2] \in Nat
        BY <1>1, <1>4, <2>1, <2>4, <3>2 DEF Place
      <4>2. p[2] \in Starts(l)
        BY <4>1 DEF TokensOf
      <4>4. p[2] < Found.to
        BY <1>1, <2>7, <3>2 DEF Before
      <4>3. ~(f < p[2])
        BY <1>6, <2>2, <4>1, <4>2, <4>4
      <4> QED
        BY <1>1, <3>2, <4>1, <4>3 DEF Before
    <3> QED
      BY <2>7, <3>1, <3>2 DEF Before
  <2>8. PlacesTo(P, y) = PlacesTo(P, x) \cup (P \cap {x})
    BY <1>7, <1>8, <2>7 DEF PlacesTo
  <2> QED
    BY <1>1, <1>2, <1>6, <1>9, <2>2, <2>3, <2>5, <2>6, <2>8 DEF BehindHere, P, last
<1>10. CASE row = EofRow
  <2>1. l = EofLine /\ f = 1
    <3>1. l = EofLine
      BY <1>10, Zenon DEF ReadsInOrder
    <3> QED
      BY <1>2, <3>1, EofIsEof
  <2>2. Found.token.type = "EOF" /\ x \in P
    BY <1>4, <1>5, <1>10, <2>1, EofIsEof
  <2>3. LexemeOf(file, junk, x) = Found
    BY <1>1, <1>5, <1>10, <2>1 DEF LexemeOf
  <2>4. ASSUME NEW p \in P, Before(p, y) PROVE p = x \/ Before(p, x)
    <3>1. CASE p[1] < row
      BY <3>1 DEF Before
    <3>2. CASE p[1] = row
      BY <1>3, <1>4, <1>10, <2>1, <3>2
    <3> QED
      BY <2>4, <3>1, <3>2 DEF Before
  <2>5. PlacesTo(P, y) = PlacesTo(P, x) \cup (P \cap {x})
    BY <1>7, <1>8, <2>4 DEF PlacesTo
  <2>6. row \notin 1 .. last
    BY <1>3, <1>10
  <2> QED
    BY <1>1, <1>2, <1>6, <1>10, <2>2, <2>3, <2>5, <2>6 DEF BehindHere, P, last
<1> QED
  BY <1>3, <1>9, <1>10

-----------------------------------------------------------------------------
(* The counts, by places.                                                  *)

\* The conjuncts of ReadsInOrder, the number of tokens behind taken from places.
AtALine ==
  LET begins == Begins(file)
      last   == Cardinality(begins)
  IN  /\ row = 0 => ~eof /\ l = <<>>
      /\ ~eof => pos \in begins /\ Cardinality(UpTo(begins, pos)) = row + 1
      /\ eof => row \in {last, EofRow}
      /\ row \in 1 .. last => l = AllLines(file, junk)[row] /\ f \in Starts(l)
      /\ row = EofRow => eof /\ l = EofLine
NumberHere  == IF row = EofRow THEN Cardinality(Begins(file)) + 1 ELSE row
LinesBehind == i = NumberHere - Cardinality(Eofs(file, junk, BehindHere))

\* In every state.
LEMMA CountedByPlaces ==
  ErrorInvariant /\ StreamIsGiven =>
    /\ Used = Cardinality(BehindHere)
    /\ Used \in 0 .. Len(stream)
    /\ ReadsInOrder <=> AtALine /\ LinesBehind
<1> SUFFICES ASSUME ErrorInvariant, StreamIsGiven
             PROVE  /\ Used = Cardinality(BehindHere)
                    /\ Used \in 0 .. Len(stream)
                    /\ ReadsInOrder <=> AtALine /\ LinesBehind
  OBVIOUS
<1>1. /\ Used = Cardinality(BehindHere) /\ Used \in 0 .. Len(stream)
      /\ Cardinality({ k \in 1 .. Used : stream[k].token.type = "EOF" })
         = Cardinality(Eofs(file, junk, BehindHere))
  BY UsedIsBehind
<1>2. ReadsInOrder <=> AtALine /\ LinesBehind
  BY <1>1, Zenon DEF ReadsInOrder, AtALine, LinesBehind, NumberHere
<1> QED
  BY <1>1, <1>2

LEMMA CountedByPlacesNext ==
  ASSUME ErrorInvariant', StreamIsGiven'
  PROVE  /\ Used' = Cardinality(BehindHere')
         /\ Used' \in 0 .. Len(stream')
         /\ ReadsInOrder' <=> AtALine' /\ LinesBehind'
<1>1. (ErrorInvariant /\ StreamIsGiven =>
    /\ Used = Cardinality(BehindHere)
    /\ Used \in 0 .. Len(stream)
    /\ ReadsInOrder <=> AtALine /\ LinesBehind)'
  BY CountedByPlaces, PTL
<1> QED
  BY <1>1

-----------------------------------------------------------------------------
(* The steps, in the stream.                                               *)

\* What does not move loses nothing.
LEMMA StayingIsInOrder ==
  ASSUME StreamInvariant, ErrorInvariant', UNCHANGED <<fileVars, readVars, f, i>>
  PROVE  StreamIsGiven' /\ ReadsInOrder' /\ Used' = Used
<1>1. UNCHANGED <<file, junk, stream, pos, eof, l, row, f, i>>
  BY DEF fileVars, readVars
<1>2. StreamIsGiven'
  BY <1>1 DEF StreamInvariant, StreamIsGiven
<1>3. AtALine /\ LinesBehind
  BY CountedByPlaces DEF StreamInvariant, TokenizerInvariant
<1>4. BehindHere' = BehindHere
  BY <1>1 DEF BehindHere
<1>5. AtALine'
  BY <1>1, <1>3 DEF AtALine, EofRow, EofLine
<1>6. LinesBehind'
  BY <1>1, <1>3, <1>4 DEF LinesBehind, NumberHere, EofRow
<1>7. Used' = Used
  BY <1>1 DEF Used, Behind
<1> QED
  BY <1>2, <1>5, <1>6, <1>7, CountedByPlacesNext

\* At the end of a line, the tokens behind are those up to its row.
LEMMA LineIsBehind ==
  ASSUME ErrorInvariant, ReadsInOrder, AtEndOfLine
  PROVE  LET P == PlacesOf(file, junk)
             last == Cardinality(Begins(file)) IN
         /\ IsFiniteSet(P) /\ <<EofRow, 1>> \in P
         /\ row # EofRow => BehindHere = PlacesTo(P, <<row + 1, 1>>)
         /\ row = last => BehindHere = PlacesTo(P, <<EofRow, 1>>)
         /\ row = EofRow => BehindHere = P /\ PlacesTo(P, <<EofRow, 1>>) = P \ {<<EofRow, 1>>}
<1> DEFINE P == PlacesOf(file, junk)
           lines == AllLines(file, junk)
           last == Cardinality(Begins(file))
           x == <<row, f>>
<1>1. /\ file \in Sources /\ junk \in Junk \cup {<<>>} /\ Len(file) \in Nat
      /\ row \in Nat /\ f \in Nat /\ EofRow = Len(file) + 2 /\ Len(l) \in Nat
      /\ f \in 1 .. Len(l) + 1
  BY InvariantTypes
<1>2. /\ last \in 1 .. Len(file) + 1 /\ DOMAIN lines = 1 .. last
      /\ row \in 0 .. last \/ row = EofRow
      /\ EofRow > last
  BY RowsAreLines
<1>3. /\ IsFiniteSet(P) /\ P \subseteq Place
      /\ <<EofRow, 1>> \in P
      /\ \A p \in P : \/ p = <<EofRow, 1>>
                      \/ p[1] \in 1 .. last /\ p = <<p[1], p[2]>> /\ p[2] \in 1 .. Len(lines[p[1]])
  <2> HIDE DEF P, lines, last
  <2> QED
    BY <1>1, <1>2, PlacesArePlaces DEF P, lines
<1>4. row \in 1 .. last => l = lines[row]
  BY DEF ReadsInOrder
<1>5. row = EofRow => Len(l) = 1
  <2> SUFFICES ASSUME row = EofRow PROVE Len(l) = 1
    OBVIOUS
  <2>1. l = EofLine
    BY Zenon DEF ReadsInOrder
  <2> QED
    BY <2>1, EofIsEof
<1>6. row = 0 \/ f = Len(l) + 1
  BY <1>1 DEF AtEndOfLine
<1> HIDE DEF P, lines, last
<1>7. \A p \in P : p[1] \in Nat /\ p[2] \in Nat /\ 1 <= p[2] /\ 1 <= p[1]
  <2> SUFFICES ASSUME NEW p \in P PROVE p[1] \in Nat /\ p[2] \in Nat /\ 1 <= p[2] /\ 1 <= p[1]
    OBVIOUS
  <2>1. p[1] \in Nat /\ p[2] \in Nat
    BY <1>3 DEF Place
  <2> QED
    BY <1>1, <1>3, <2>1
<1>8. \A p \in P : p[1] = row => p[2] < f
  <2> SUFFICES ASSUME NEW p \in P, p[1] = row PROVE p[2] < f
    OBVIOUS
  <2>1. CASE row = EofRow
    <3>1. p[1] \notin 1 .. last
      BY <1>2, <2>1
    <3>2. p = <<EofRow, 1>>
      BY <1>3, <3>1
    <3>3. Len(l) = 1 /\ row # 0
      BY <1>1, <1>5, <2>1
    <3>4. f = 2
      BY <1>6, <3>3
    <3> QED
      BY <3>2, <3>4
  <2>2. CASE row # EofRow
    <3>1. p[1] \in 1 .. last /\ p[2] \in 1 .. Len(lines[p[1]])
      BY <1>3, <2>2
    <3> QED
      BY <1>1, <1>4, <1>6, <1>7, <3>1
  <2> QED
    BY <2>1, <2>2
<1>9. ASSUME NEW p \in P PROVE Before(p, x) <=> p[1] <= row
  BY <1>1, <1>7, <1>8 DEF Before
<1>10. ASSUME NEW p \in P, NEW n \in Nat PROVE Before(p, <<n, 1>>) <=> p[1] < n
  BY <1>7 DEF Before
<1>11. ASSUME row # EofRow PROVE BehindHere = PlacesTo(P, <<row + 1, 1>>)
  <2>1. \A p \in P : Before(p, x) <=> Before(p, <<row + 1, 1>>)
    <3> SUFFICES ASSUME NEW p \in P PROVE Before(p, x) <=> Before(p, <<row + 1, 1>>)
      OBVIOUS
    <3>1. row + 1 \in Nat /\ p[1] \in Nat /\ (p[1] <= row <=> p[1] < row + 1)
      BY <1>1, <1>7
    <3> QED
      BY <1>9, <1>10, <3>1
  <2> QED
    BY <2>1 DEF BehindHere, PlacesTo, P
<1>12. ASSUME row = last PROVE BehindHere = PlacesTo(P, <<EofRow, 1>>)
  <2>1. \A p \in P : Before(p, x) <=> Before(p, <<EofRow, 1>>)
    <3> SUFFICES ASSUME NEW p \in P PROVE Before(p, x) <=> Before(p, <<EofRow, 1>>)
      OBVIOUS
    <3>1. p[1] \in 1 .. last \/ p[1] = EofRow
      BY <1>3
    <3>2. EofRow \in Nat /\ (p[1] <= row <=> p[1] < EofRow)
      BY <1>1, <1>2, <1>7, <1>12, <3>1
    <3> QED
      BY <1>9, <1>10, <3>2
  <2> QED
    BY <2>1 DEF BehindHere, PlacesTo, P
<1>13. ASSUME row = EofRow PROVE BehindHere = P /\ PlacesTo(P, <<EofRow, 1>>) = P \ {<<EofRow, 1>>}
  <2>1. \A p \in P : p[1] <= EofRow /\ (p[1] < EofRow <=> p # <<EofRow, 1>>)
    <3> SUFFICES ASSUME NEW p \in P PROVE p[1] <= EofRow /\ (p[1] < EofRow <=> p # <<EofRow, 1>>)
      OBVIOUS
    <3>1. CASE p = <<EofRow, 1>>
      BY <1>1, <3>1
    <3>2. CASE p # <<EofRow, 1>>
      BY <1>1, <1>2, <1>3, <1>7, <3>2
    <3> QED
      BY <3>1, <3>2
  <2>2. EofRow \in Nat
    BY <1>1
  <2>3. \A p \in P : Before(p, x) /\ (Before(p, <<EofRow, 1>>) <=> p # <<EofRow, 1>>)
    BY <1>9, <1>10, <1>13, <2>1, <2>2
  <2> QED
    BY <2>3 DEF BehindHere, PlacesTo, P
<1> QED
  BY <1>3, <1>11, <1>12, <1>13 DEF P, last

\* The places behind are finitely many, and so are the TOKEN_EOFs among them.
LEMMA PlacesBehind ==
  ASSUME ErrorInvariant
  PROVE  /\ BehindHere \in SUBSET PlacesOf(file, junk) /\ IsFiniteSet(BehindHere)
         /\ Cardinality(BehindHere) \in Nat
         /\ IsFiniteSet(Eofs(file, junk, BehindHere))
         /\ Cardinality(Eofs(file, junk, BehindHere)) \in Nat
         /\ Cardinality(Begins(file)) \in Nat /\ NumberHere \in Nat
<1>1. file \in Sources /\ junk \in Junk \cup {<<>>} /\ row \in Nat
  BY InvariantTypes
<1>2. IsFiniteSet(PlacesOf(file, junk))
  BY <1>1, PlacesArePlaces
<1>3. BehindHere \in SUBSET PlacesOf(file, junk)
  BY DEF BehindHere, PlacesTo
<1>4. IsFiniteSet(BehindHere)
  BY <1>2, <1>3, FS_Subset
<1>5. Eofs(file, junk, BehindHere) \in SUBSET BehindHere
  BY DEF Eofs
<1>6. IsFiniteSet(Eofs(file, junk, BehindHere))
  BY <1>4, <1>5, FS_Subset
<1>7. Cardinality(Begins(file)) \in Nat
  BY <1>1, ReadsFollow, FS_CardinalityType
<1> QED
  BY <1>1, <1>3, <1>4, <1>6, <1>7, FS_CardinalityType DEF NumberHere

-----------------------------------------------------------------------------
\* The next line is the one that the next row stands for.
LEMMA GrabLineIsInOrder ==
  ASSUME StreamInvariant, ErrorInvariant', GrabLine
  PROVE  /\ StreamIsGiven' /\ ReadsInOrder'
         /\ row # EofRow => Used' = Used
         /\ row = EofRow => Used = Len(stream) /\ Used' = Len(stream) - 1
<1> DEFINE P == PlacesOf(file, junk)
           B == Begins(file)
           lines == AllLines(file, junk)
           last == Cardinality(B)
           end == <<EofRow, 1>>
<1>0. ErrorInvariant /\ ReadsInOrder /\ StreamIsGiven
  BY DEF StreamInvariant, TokenizerInvariant
<1>1. /\ file \in Sources /\ junk \in Junk \cup {<<>>} /\ Len(file) \in Nat
      /\ row \in Nat /\ i \in Int /\ EofRow = Len(file) + 2 /\ eof \in BOOLEAN
  BY <1>0, InvariantTypes
<1>2. /\ UNCHANGED <<file, junk, stream>> /\ f' = 1 /\ i' = i + 1 /\ get_next_line
      /\ AtEndOfLine
  BY DEF GrabLine, fileVars
<1>3. StreamIsGiven' /\ EofRow' = EofRow /\ EofLine' = EofLine
  BY <1>0, <1>2 DEF StreamIsGiven, EofRow, EofLine
<1>4. /\ last \in 1 .. Len(file) + 1
      /\ row \in 0 .. last \/ row = EofRow
      /\ EofRow > last
      /\ ~eof => row < last
  BY <1>0, RowsAreLines
<1>5. AtALine /\ LinesBehind /\ Used = Cardinality(BehindHere)
  BY <1>0, CountedByPlaces
<1>6. /\ IsFiniteSet(P) /\ end \in P
      /\ row # EofRow => BehindHere = PlacesTo(P, <<row + 1, 1>>)
      /\ row = last => BehindHere = PlacesTo(P, <<EofRow, 1>>)
      /\ row = EofRow => BehindHere = P /\ PlacesTo(P, <<EofRow, 1>>) = P \ {end}
  BY <1>0, <1>2, LineIsBehind
<1>7. BehindHere' = PlacesTo(P, <<row', 1>>)
  BY <1>2 DEF BehindHere
<1>8. Len(stream) = Cardinality(P) /\ Cardinality(P) \in Nat \ {0}
  BY <1>0, <1>1, StreamIsRanked DEF StreamIsGiven
<1>9. Used' = Cardinality(BehindHere')
  BY <1>0, <1>3, CountedByPlacesNext
<1>10. NumberHere' = (IF row' = EofRow THEN last + 1 ELSE row')
  BY <1>2, <1>3 DEF NumberHere
<1>13. /\ i = NumberHere - Cardinality(Eofs(file, junk, BehindHere))
       /\ LinesBehind' <=> i' = NumberHere' - Cardinality(Eofs(file, junk, BehindHere'))
  <2>1. i = NumberHere - Cardinality(Eofs(file, junk, BehindHere))
    BY <1>5, Zenon DEF LinesBehind
  <2>2. LinesBehind' <=> i' = NumberHere' - Cardinality(Eofs(file', junk', BehindHere'))
    BY Zenon DEF LinesBehind
  <2> QED
    BY <1>2, <2>1, <2>2
<1>14. NumberHere \in Nat /\ Cardinality(Eofs(file, junk, BehindHere)) \in Nat
  BY <1>0, PlacesBehind
<1>11. CASE ~eof
  <2>1. /\ l' = LineRead(file, junk, pos) /\ row' = row + 1
        /\ pos' = ReadEnd(file, pos) /\ eof' = HitsEnd(file, pos)
    BY <1>2, <1>11 DEF get_next_line
  <2>2. pos \in B /\ Cardinality(UpTo(B, pos)) = row + 1
    BY <1>5, <1>11, Zenon DEF AtALine
  <2>3. row + 1 \in 1 .. last /\ row # EofRow /\ row' # EofRow
    BY <1>1, <1>4, <1>11, <2>1
  <2>4. l' = lines[row']
    BY <1>1, <2>1, <2>2, LinesAreRead
  <2>5. 1 \in Starts(l')
    <3>1. Len(lines[row']) \in Nat
      BY <1>1, <2>1, <2>3, LinesAreRead
    <3> QED
      BY <2>4, <3>1, LexemesFollow
  <2>6. /\ ~HitsEnd(file, pos) => /\ pos' \in B
                                  /\ Cardinality(UpTo(B, pos')) = row' + 1
        /\ HitsEnd(file, pos) => row' = last
    BY <1>1, <2>1, <2>2, ReadsFollow
  <2>7. AtALine'
    <3>1. Begins(file') = B /\ AllLines(file', junk') = lines
      BY <1>2
    <3> HIDE DEF B, lines, last
    <3>2. row' # 0
      BY <1>1, <2>1
    <3> QED
      BY <1>2, <1>3, <2>1, <2>3, <2>4, <2>5, <2>6, <3>1, <3>2, Zenon DEF AtALine, last
  <2>8. BehindHere' = BehindHere
    BY <1>6, <1>7, <2>1, <2>3
  <2>9. NumberHere' = NumberHere + 1
    BY <1>10, <2>1, <2>3 DEF NumberHere
  <2>10. LinesBehind'
    BY <1>1, <1>2, <1>13, <1>14, <2>8, <2>9
  <2> QED
    BY <1>0, <1>3, <1>5, <1>9, <2>3, <2>7, <2>8, <2>10, CountedByPlacesNext
<1>12. CASE eof
  <2>1. l' = EofLine /\ row' = EofRow /\ UNCHANGED <<pos, eof>>
    BY <1>2, <1>12 DEF get_next_line
  <2>2. AtALine'
    <3>1. EofRow \notin 0 .. Cardinality(Begins(file'))
      BY <1>1, <1>2, <1>4
    <3>2. row' # 0 /\ row' \notin 1 .. Cardinality(Begins(file'))
      BY <1>1, <2>1, <3>1
    <3> QED
      BY <1>2, <1>3, <1>12, <2>1, <3>2, Zenon DEF AtALine
  <2>3. row \in {last, EofRow}
    BY <1>5, <1>12, Zenon DEF AtALine
  <2>4. NumberHere' = last + 1
    BY <1>10, <2>1
  <2>5. CASE row = last
    <3>1. row # EofRow /\ BehindHere' = BehindHere
      BY <1>1, <1>4, <1>6, <1>7, <2>1, <2>5
    <3>2. NumberHere' = NumberHere + 1
      BY <2>4, <2>5, <3>1 DEF NumberHere
    <3>3. LinesBehind'
      BY <1>1, <1>2, <1>13, <1>14, <3>1, <3>2
    <3> QED
      BY <1>0, <1>3, <1>5, <1>9, <2>2, <3>1, <3>3, CountedByPlacesNext
  <2>6. CASE row = EofRow
    <3> DEFINE n == Cardinality(Eofs(file, junk, P))
    <3>1. BehindHere = P /\ BehindHere' = P \ {end}
      BY <1>6, <1>7, <2>1, <2>6
    <3>2. Cardinality(P \ {end}) = Cardinality(P) - 1
      BY <1>6, FS_RemoveElement
    <3>3. Used = Len(stream) /\ Used' = Len(stream) - 1
      BY <1>5, <1>8, <1>9, <3>1, <3>2
    <3>4. LexemeOf(file, junk, end).token.type = "EOF"
      BY <1>1, EofIsEof DEF LexemeOf
    <3>5. /\ Eofs(file, junk, P \ {end}) = Eofs(file, junk, P) \ {end}
          /\ end \in Eofs(file, junk, P) /\ IsFiniteSet(Eofs(file, junk, P))
      <4>1. Eofs(file, junk, P) \in SUBSET P
        BY DEF Eofs
      <4>2. IsFiniteSet(Eofs(file, junk, P))
        BY <1>6, <4>1, FS_Subset
      <4>3. end \in Eofs(file, junk, P)
        BY <1>6, <3>4 DEF Eofs
      <4>4. Eofs(file, junk, P \ {end}) = Eofs(file, junk, P) \ {end}
        BY Zenon DEF Eofs
      <4> QED
        BY <4>2, <4>3, <4>4
    <3>6. /\ Cardinality(Eofs(file, junk, P \ {end})) = Cardinality(Eofs(file, junk, P)) - 1
          /\ Cardinality(Eofs(file, junk, P)) \in Nat
      BY <3>5, FS_RemoveElement, FS_CardinalityType
    <3>7. NumberHere = last + 1
      BY <2>6 DEF NumberHere
    <3>8. LinesBehind'
      <4>1. Eofs(file, junk, BehindHere) = Eofs(file, junk, P)
        BY <3>1
      <4>2. Eofs(file, junk, BehindHere') = Eofs(file, junk, P \ {end})
        BY <3>1
      <4>3. i = (last + 1) - n /\ i' = i + 1
        BY <1>2, <1>13, <3>7, <4>1
      <4>4. n \in Nat /\ last \in Nat /\ Cardinality(Eofs(file, junk, P \ {end})) = n - 1
        BY <1>4, <1>1, <3>6
      <4> HIDE DEF n, last
      <4>5. i' = (last + 1) - (n - 1)
        BY <4>3, <4>4
      <4> QED
        BY <1>13, <2>4, <4>2, <4>4, <4>5
    <3> QED
      BY <1>0, <1>3, <2>2, <2>6, <3>3, <3>8, CountedByPlacesNext
  <2> QED
    BY <2>3, <2>5, <2>6
<1> QED
  BY <1>1, <1>11, <1>12

-----------------------------------------------------------------------------
\* A step over a lexeme leaves its place behind, if that is one of the stream.
LEMMA MovingIsInOrder ==
  ASSUME StreamInvariant, ErrorInvariant', ~AtEndOfLine, f' = Found.to,
         UNCHANGED <<fileVars, readVars>>
  PROVE  LET x == <<row, f>>
             token == Found.token.type \notin {"WHITESPACE", "LEXERR"} IN
         /\ StreamIsGiven' /\ AtALine' /\ NumberHere' = NumberHere
         /\ token <=> x \in PlacesOf(file, junk)
         /\ x \notin BehindHere
         /\ ~token => BehindHere' = BehindHere /\ Used' = Used
         /\ token => BehindHere' = BehindHere \cup {x} /\ Used' = Used + 1
<1> DEFINE P == PlacesOf(file, junk)
           x == <<row, f>>
           last == Cardinality(Begins(file))
<1>0. ErrorInvariant /\ ReadsInOrder /\ StreamIsGiven
  BY DEF StreamInvariant, TokenizerInvariant
<1>1. UNCHANGED <<file, junk, stream, pos, eof, l, row>>
  BY DEF fileVars, readVars
<1>2. StreamIsGiven' /\ EofRow' = EofRow
  BY <1>0, <1>1 DEF StreamIsGiven, EofRow
<1>3. AtALine /\ Used = Cardinality(BehindHere)
  BY <1>0, CountedByPlaces
<1>4. /\ x \in P <=> Found.token.type \notin {"WHITESPACE", "LEXERR"}
      /\ PlacesTo(P, <<row, Found.to>>) = BehindHere \cup (P \cap {x})
      /\ row \in 1 .. last => Found.to \in Starts(l)
      /\ row \in Nat
  BY <1>0, OnTheLine
<1>5. AtALine'
  <2>1. Begins(file') = Begins(file) /\ AllLines(file', junk') = AllLines(file, junk) /\ EofLine' = EofLine
    BY <1>1 DEF EofLine
  <2>2. row \in 1 .. last => f' \in Starts(l')
    BY <1>1, <1>4
  <2> QED
    BY <1>1, <1>2, <1>3, <2>1, <2>2, Zenon DEF AtALine
<1>6. NumberHere' = NumberHere
  BY <1>1, <1>2 DEF NumberHere
<1>7. BehindHere' = BehindHere \cup (P \cap {x})
  BY <1>1, <1>4 DEF BehindHere
<1>8. x \notin BehindHere
  BY <1>0, InvariantTypes DEF BehindHere, PlacesTo, Before
<1>9. Used' = Cardinality(BehindHere')
  BY <1>2, CountedByPlacesNext
<1>10. IsFiniteSet(BehindHere)
  BY <1>0, PlacesBehind
<1>11. ASSUME x \notin P PROVE BehindHere' = BehindHere /\ Used' = Used
  <2>1. BehindHere' = BehindHere
    BY <1>7, <1>11
  <2> QED
    BY <1>3, <1>9, <2>1
<1>12. ASSUME x \in P PROVE BehindHere' = BehindHere \cup {x} /\ Used' = Used + 1
  <2>1. BehindHere' = BehindHere \cup {x}
    BY <1>7, <1>12
  <2> QED
    BY <1>3, <1>8, <1>9, <1>10, <2>1, FS_AddElement
<1> QED
  BY <1>2, <1>4, <1>5, <1>6, <1>8, <1>11, <1>12

\* Blanks and errors are not in the stream.
LEMMA SkippingIsInOrder ==
  ASSUME StreamInvariant, ErrorInvariant', SkipWhitespace \/ SkipError
  PROVE  StreamIsGiven' /\ ReadsInOrder' /\ Used' = Used
<1>1. /\ ~AtEndOfLine /\ f' = Found.to /\ i' = i /\ UNCHANGED <<fileVars, readVars>>
      /\ Found.token.type \in {"WHITESPACE", "LEXERR"}
  BY DEF SkipWhitespace, SkipError, IsA
<1>2. /\ StreamIsGiven' /\ AtALine' /\ NumberHere' = NumberHere
      /\ BehindHere' = BehindHere /\ Used' = Used
  BY <1>1, MovingIsInOrder
<1>3. LinesBehind
  BY CountedByPlaces DEF StreamInvariant, TokenizerInvariant
<1>4. LinesBehind'
  BY <1>1, <1>2, <1>3 DEF LinesBehind, fileVars
<1> QED
  BY <1>2, <1>4, CountedByPlacesNext

\* The token returned is the next one of the stream.
LEMMA ReturnIsInOrder ==
  ASSUME StreamInvariant, ErrorInvariant', Return
  PROVE  /\ StreamIsGiven' /\ ReadsInOrder' /\ Used' = Used + 1
         /\ ret' = stream[Used + 1] /\ ret' # NULL
<1> DEFINE P == PlacesOf(file, junk)
           x == <<row, f>>
           eofs == Eofs(file, junk, BehindHere)
<1>0. ErrorInvariant /\ ReadsInOrder /\ StreamIsGiven
  BY DEF StreamInvariant, TokenizerInvariant
<1>1. /\ ~AtEndOfLine /\ f' = Found.to /\ UNCHANGED <<fileVars, readVars>>
      /\ Found.token.type \notin {"WHITESPACE", "LEXERR"}
      /\ i' = IF Found.token.type = "EOF" THEN i - 1 ELSE i
      /\ ret' = [token |-> Found.token, row |-> row, from |-> f, line_no |-> i']
  BY DEF Return
<1>2. UNCHANGED <<file, junk, stream, row>>
  BY <1>1 DEF fileVars, readVars
<1>3. /\ StreamIsGiven' /\ AtALine' /\ NumberHere' = NumberHere
      /\ x \in P /\ x \notin BehindHere
      /\ BehindHere' = BehindHere \cup {x} /\ Used' = Used + 1
  BY <1>1, MovingIsInOrder
<1>4. LexemeOf(file, junk, x) = Found /\ row \in Nat \ {0}
      /\ PlacesTo(P, <<row, Found.to>>) = BehindHere \cup (P \cap {x})
  BY <1>0, <1>1, <1>3, OnTheLine
<1>5. i = NumberHere - Cardinality(eofs) /\ Used = Cardinality(BehindHere)
  <2>1. LinesBehind /\ Used = Cardinality(BehindHere)
    BY <1>0, CountedByPlaces
  <2> QED
    BY <2>1, Zenon DEF LinesBehind
<1>6. /\ NumberHere \in Nat /\ Cardinality(eofs) \in Nat /\ IsFiniteSet(eofs)
      /\ IsFiniteSet(BehindHere)
  BY <1>0, PlacesBehind
<1>7. Through(P, x) = BehindHere \cup {x}
  <2>1. \A p \in P : p \in BehindHere <=> Before(p, x)
    BY DEF BehindHere, PlacesTo
  <2>2. BehindHere \subseteq P
    BY DEF BehindHere, PlacesTo
  <2> QED
    BY <1>3, <2>1, <2>2 DEF Through
<1>8. Cardinality(Through(P, x)) = Used + 1
  BY <1>3, <1>5, <1>6, <1>7, FS_AddElement
<1>9. i' = NumberHere - Cardinality(Eofs(file, junk, BehindHere \cup {x}))
  <2>1. CASE Found.token.type = "EOF"
    <3>1. Eofs(file, junk, BehindHere \cup {x}) = eofs \cup {x} /\ x \notin eofs
      BY <1>3, <1>4, <2>1 DEF Eofs
    <3>2. Cardinality(eofs \cup {x}) = Cardinality(eofs) + 1
      BY <1>6, <3>1, FS_AddElement
    <3>3. Cardinality(Eofs(file, junk, BehindHere \cup {x})) = Cardinality(eofs) + 1
      BY <3>1, <3>2
    <3>4. i' = i - 1
      BY <1>1, <2>1
    <3> HIDE DEF eofs
    <3> QED
      BY <1>5, <1>6, <3>3, <3>4
  <2>2. CASE Found.token.type # "EOF"
    <3>1. Eofs(file, junk, BehindHere \cup {x}) = eofs
      BY <1>4, <2>2 DEF Eofs
    <3> QED
      BY <1>1, <1>5, <2>2, <3>1
  <2> QED
    BY <2>1, <2>2
<1>10. LinesBehind'
  <2>1. LinesBehind' <=> i' = NumberHere' - Cardinality(Eofs(file', junk', BehindHere'))
    BY Zenon DEF LinesBehind
  <2> QED
    BY <1>2, <1>3, <1>9, <2>1
<1>11. ret' = stream[Used + 1]
  <2>1. file \in Sources /\ junk \in Junk \cup {<<>>} /\ EofRow = Len(file) + 2
    BY <1>0, InvariantTypes
  <2>2. stream[Used + 1] = TokenAt(AllLines(file, junk), Len(file) + 2, x)
    <3>1. StreamOf(file, junk)[Cardinality(Through(P, x))] = TokenAt(AllLines(file, junk), Len(file) + 2, x)
      BY <1>3, <2>1, StreamIsRanked
    <3> QED
      BY <1>0, <1>8, <3>1 DEF StreamIsGiven
  <2>3. TokenAt(AllLines(file, junk), Len(file) + 2, x) =
          [token |-> LexemeOf(file, junk, x).token, row |-> x[1], from |-> x[2],
           line_no |-> NumberOf(file, x) - Cardinality(Eofs(file, junk, Through(P, x)))]
    BY <2>1, TokenOfPlace
  <2>4. NumberOf(file, x) = NumberHere
    BY <2>1 DEF NumberOf, NumberHere
  <2>5. NumberOf(file, x) - Cardinality(Eofs(file, junk, Through(P, x))) = i'
    BY <1>7, <1>9, <2>4
  <2> QED
    BY <1>1, <1>4, <2>2, <2>3, <2>5
<1>12. ret' # NULL
  <2>1. ret'.row = row /\ NULL.row = 0
    BY <1>1 DEF NULL
  <2> QED
    BY <1>4, <2>1
<1> QED
  BY <1>3, <1>10, <1>11, <1>12, CountedByPlacesNext

-----------------------------------------------------------------------------
LEMMA InitIsInOrder == TInit => StreamInvariant /\ Used = 0 /\ Len(stream) \in Nat \ {0}
<1> SUFFICES ASSUME TInit PROVE StreamInvariant /\ Used = 0 /\ Len(stream) \in Nat \ {0}
  OBVIOUS
<1>1. ErrorInvariant
  BY InitIsSound
<1>2. /\ pos = 1 /\ eof = FALSE /\ l = <<>> /\ f = 1 /\ row = 0 /\ i = 0 /\ o = {}
      /\ stream = TokensIn(AllLines(file, junk), EofRow)
  BY Zenon DEF TInit
<1>3. file \in Sources /\ junk \in Junk \cup {<<>>} /\ Len(file) \in Nat
  BY <1>1, InvariantTypes
<1>4. StreamIsGiven
  BY <1>2 DEF StreamIsGiven, StreamOf, EofRow
<1>5. Len(stream) \in Nat \ {0}
  BY <1>3, <1>4, StreamIsRanked DEF StreamIsGiven
<1>6. BehindHere = {}
  <2> DEFINE P == PlacesOf(file, junk)
  <2>1. P \subseteq Place
    BY <1>3, PlacesArePlaces
  <2>2. \A p \in P : ~Before(p, <<0, 1>>)
    <3> SUFFICES ASSUME NEW p \in P PROVE ~Before(p, <<0, 1>>)
      OBVIOUS
    <3>1. p[1] \in Nat /\ p[2] \in Nat
      BY <2>1 DEF Place
    <3>2. p = <<Len(file) + 2, 1>> \/ p[2] \in 1 .. Len(AllLines(file, junk)[p[1]])
      BY <1>3, PlacesArePlaces
    <3>3. p[2] # 0
      BY <1>3, <3>1, <3>2
    <3> QED
      BY <3>1, <3>3 DEF Before
  <2> QED
    BY <1>2, <2>2 DEF BehindHere, PlacesTo
<1>7. Used = 0
  BY <1>1, <1>4, <1>6, CountedByPlaces, FS_EmptySet
<1>8. LinesBehind
  <2>1. Eofs(file, junk, BehindHere) = {}
    BY <1>6 DEF Eofs
  <2>2. NumberHere = 0
    BY <1>2, <1>3 DEF NumberHere, EofRow
  <2>3. i = NumberHere - Cardinality(Eofs(file, junk, BehindHere))
    BY <1>2, <2>1, <2>2, FS_EmptySet
  <2> QED
    BY <2>3, Zenon DEF LinesBehind
<1>9. AtALine
  <2>1. 1 \in Begins(file) /\ Cardinality(UpTo(Begins(file), 1)) = 1
    BY <1>3, ReadsFollow
  <2>2. row # EofRow /\ row \notin 1 .. Cardinality(Begins(file)) /\ row + 1 = 1
    BY <1>2, <1>3 DEF EofRow
  <2>3. ~eof
    BY <1>2
  <2> QED
    BY <1>2, <2>1, <2>2, <2>3, Zenon DEF AtALine
<1>10. ReadsInOrder
  BY <1>1, <1>4, <1>8, <1>9, CountedByPlaces
<1>11. RemembersLast
  BY <1>2 DEF RemembersLast
<1> QED
  BY <1>1, <1>4, <1>5, <1>7, <1>10, <1>11 DEF StreamInvariant, TokenizerInvariant

\* What one step does with the stream.
LEMMA NextKeepsOrder == StreamInvariant /\ [TNext]_tVars => StreamInvariant'
<1> SUFFICES ASSUME StreamInvariant, [TNext]_tVars PROVE StreamInvariant'
  OBVIOUS
<1>0. ErrorInvariant /\ RemembersLast /\ StreamIsGiven
  BY DEF StreamInvariant, TokenizerInvariant
<1>1. ErrorInvariant'
  BY <1>0, NextKeepsErrors
<1>2. SUFFICES StreamIsGiven' /\ ReadsInOrder' /\ RemembersLast'
  BY <1>1 DEF StreamInvariant, TokenizerInvariant
<1>3. Used \in 0 .. Len(stream) /\ Len(stream) \in Nat
  BY <1>0, UsedIsBehind
<1>4. ASSUME NEW options \in Options, Recall(options) PROVE StreamIsGiven' /\ ReadsInOrder' /\ RemembersLast'
  <2>1. /\ UNCHANGED <<fileVars, readVars, f, i>> /\ r' = r /\ pc' = pc /\ pc = "idle"
        /\ "NOP" \in o /\ r # NULL
    BY <1>4 DEF Recall
  <2>2. StreamIsGiven' /\ ReadsInOrder' /\ Used' = Used
    BY <1>1, <2>1, StayingIsInOrder
  <2>3. Used > 0 /\ r = stream[Used]
    BY <1>0, <2>1 DEF RemembersLast
  <2> QED
    BY <2>1, <2>2, <2>3 DEF RemembersLast, fileVars, NULL
<1>5. ASSUME NEW options \in Options, Call(options) PROVE StreamIsGiven' /\ ReadsInOrder' /\ RemembersLast'
  <2>1. /\ UNCHANGED <<fileVars, readVars, f, i>> /\ o' = o /\ ~("NOP" \in o /\ r # NULL)
    BY <1>5 DEF Call, memory
  <2>2. StreamIsGiven' /\ ReadsInOrder'
    BY <1>1, <2>1, StayingIsInOrder
  <2>3. "NOP" \notin o
    BY <1>0, <2>1 DEF RemembersLast
  <2> QED
    BY <2>1, <2>2, <2>3 DEF RemembersLast
<1>6. pc = "call" /\ UNCHANGED memory => RemembersLast'
  <2> SUFFICES ASSUME pc = "call", UNCHANGED memory PROVE RemembersLast'
    OBVIOUS
  <2>1. "NOP" \notin o'
    BY <1>0 DEF RemembersLast, memory
  <2> QED
    BY <2>1 DEF RemembersLast
<1>7. CASE Return
  <2>1. /\ StreamIsGiven' /\ ReadsInOrder' /\ Used' = Used + 1
        /\ ret' = stream[Used + 1] /\ ret' # NULL
    BY <1>1, <1>7, ReturnIsInOrder
  <2>2. /\ o' = opt /\ r' = (IF "NOP" \in opt THEN ret' ELSE r) /\ pc' = "idle" /\ stream' = stream
        /\ NULL' = NULL
    BY <1>7 DEF Return, fileVars, NULL
  <2>3. Used + 1 > 0
    BY <1>3
  <2> QED
    BY <2>1, <2>2, <2>3 DEF RemembersLast
<1>8. CASE GrabLine
  BY <1>1, <1>6, <1>8, GrabLineIsInOrder DEF GrabLine
<1>9. CASE SkipWhitespace \/ SkipError
  BY <1>1, <1>6, <1>9, SkippingIsInOrder DEF SkipWhitespace, SkipError, IsA
<1>10. CASE UNCHANGED tVars
  <2>1. UNCHANGED <<fileVars, readVars, f, i, o, r, pc, stream>> /\ NULL' = NULL
    BY <1>10 DEF tVars, memory, fileVars, NULL
  <2>2. StreamIsGiven' /\ ReadsInOrder' /\ Used' = Used
    BY <1>1, <2>1, StayingIsInOrder
  <2> QED
    BY <1>0, <2>1, <2>2 DEF RemembersLast
<1> QED
  BY <1>4, <1>5, <1>7, <1>8, <1>9, <1>10 DEF TNext, Continue

-----------------------------------------------------------------------------
(* The calls implement the stream.                                         *)

\* Nothing is remembered during a call: there the next token is the one behind
\* those used up.
LEMMA NextInCall ==
  ASSUME pc = "call"
  PROVE  NextIndex = IF Used = Len(stream) THEN Used ELSE Used + 1
BY DEF NextIndex, Remembering

LEMMA InitImplements == TInit => Stream!StreamInit
<1> SUFFICES ASSUME TInit PROVE Stream!StreamInit
  OBVIOUS
<1>1. Used = 0 /\ Len(stream) \in Nat \ {0}
  BY InitIsInOrder
<1>2. ret = NULL /\ took = FALSE /\ o = {}
  BY Zenon DEF TInit
<1>3. stream # <<>>
  BY <1>1
<1>4. ~Remembering
  BY <1>2 DEF Remembering
<1>5. NextIndex = 1
  BY <1>1, <1>4 DEF NextIndex
<1> QED
  BY <1>2, <1>3, <1>5 DEF Stream!StreamInit

\* Every step looks at the next token, takes it, or does not show.
LEMMA NextImplements ==
  StreamInvariant /\ [TNext]_tVars => [Stream!Peek \/ Stream!Take]_Stream!streamVars
<1> SUFFICES ASSUME StreamInvariant, [TNext]_tVars
             PROVE  [Stream!Peek \/ Stream!Take]_Stream!streamVars
  OBVIOUS
<1>0. ErrorInvariant /\ RemembersLast /\ StreamIsGiven
  BY DEF StreamInvariant, TokenizerInvariant
<1>1. ErrorInvariant'
  BY <1>0, NextKeepsErrors
<1>2. Used \in 0 .. Len(stream) /\ Len(stream) \in Nat \ {0}
  BY <1>0, UsedIsBehind
<1>3. ASSUME UNCHANGED <<stream, NextIndex, ret, took>>
      PROVE  [Stream!Peek \/ Stream!Take]_Stream!streamVars
  BY <1>3 DEF Stream!streamVars
<1>4. ASSUME NEW options \in Options, Recall(options) PROVE Stream!Peek \/ Stream!Take
  <2>1. /\ UNCHANGED <<fileVars, readVars, f, i>> /\ r' = r /\ pc' = pc /\ pc = "idle"
        /\ "NOP" \in o /\ r # NULL
        /\ o' = options /\ ret' = r /\ took' = ("NOP" \notin options)
    BY <1>4 DEF Recall
  <2>2. Used' = Used /\ stream' = stream /\ NULL' = NULL
    BY <1>1, <2>1, StayingIsInOrder DEF fileVars, NULL
  <2>3. NextIndex = Used /\ r = stream[Used]
    BY <1>0, <2>1 DEF RemembersLast, NextIndex, Remembering
  <2>4. CASE "NOP" \in options
    <3>1. NextIndex' = NextIndex
      BY <2>1, <2>2, <2>3, <2>4 DEF NextIndex, Remembering
    <3> QED
      BY <2>1, <2>2, <2>3, <2>4, <3>1 DEF Stream!Peek
  <2>5. CASE "NOP" \notin options
    <3>1. NextIndex' = IF Used = Len(stream) THEN Used ELSE Used + 1
      BY <2>1, <2>2, <2>5 DEF NextIndex, Remembering
    <3>2. NextIndex' = IF NextIndex < Len(stream) THEN NextIndex + 1 ELSE NextIndex
      BY <1>2, <2>3, <3>1
    <3> QED
      BY <2>1, <2>2, <2>3, <2>5, <3>2 DEF Stream!Take
  <2> QED
    BY <2>4, <2>5
<1>5. ASSUME NEW options \in Options, Call(options) PROVE UNCHANGED <<stream, NextIndex, ret, took>>
  <2>1. /\ UNCHANGED <<fileVars, readVars, f, i>> /\ UNCHANGED <<o, r, ret, took>>
        /\ ~("NOP" \in o /\ r # NULL) /\ NULL' = NULL
    BY <1>5 DEF Call, memory, NULL
  <2>2. Used' = Used /\ stream' = stream
    BY <1>1, <2>1, StayingIsInOrder DEF fileVars
  <2> QED
    BY <2>1, <2>2 DEF NextIndex, Remembering
<1>6. CASE GrabLine
  <2>1. pc = "call" /\ pc' = "call" /\ UNCHANGED <<stream, ret, took>>
    BY <1>6 DEF GrabLine, memory, fileVars
  <2>2. NextIndex' = IF Used' = Len(stream) THEN Used' ELSE Used' + 1
    BY <2>1 DEF NextIndex, Remembering
  <2>3. \/ Used' = Used
        \/ Used = Len(stream) /\ Used' = Len(stream) - 1
    BY <1>1, <1>6, GrabLineIsInOrder
  <2>4. NextIndex' = NextIndex
    BY <1>2, <2>1, <2>2, <2>3, NextInCall
  <2> QED
    BY <1>3, <2>1, <2>4
<1>7. CASE SkipWhitespace \/ SkipError
  <2>1. pc = "call" /\ pc' = "call" /\ UNCHANGED <<stream, ret, took>>
    BY <1>7 DEF SkipWhitespace, SkipError, IsA, memory, fileVars
  <2>2. Used' = Used
    BY <1>1, <1>7, SkippingIsInOrder
  <2>3. NextIndex' = NextIndex
    BY <2>1, <2>2 DEF NextIndex, Remembering
  <2> QED
    BY <1>3, <2>1, <2>3
<1>8. CASE Return
  <2>1. /\ Used' = Used + 1 /\ ret' = stream[Used + 1] /\ ret' # NULL
        /\ StreamIsGiven'
    BY <1>1, <1>8, ReturnIsInOrder
  <2>2. /\ pc = "call" /\ pc' = "idle" /\ o' = opt /\ took' = ("NOP" \notin opt)
        /\ r' = (IF "NOP" \in opt THEN ret' ELSE r) /\ stream' = stream /\ NULL' = NULL
    BY <1>8 DEF Return, fileVars, NULL
  <2>3. Used + 1 \in 1 .. Len(stream)
    <3>1. Used' \in 0 .. Len(stream')
      BY <1>1, <2>1, CountedByPlacesNext
    <3> QED
      BY <1>2, <2>1, <2>2, <3>1
  <2>4. NextIndex = Used + 1
    BY <1>2, <2>2, <2>3, NextInCall
  <2>5. CASE "NOP" \in opt
    <3>1. Remembering'
      BY <2>1, <2>2, <2>5 DEF Remembering
    <3>2. NextIndex' = NextIndex
      BY <2>1, <2>4, <3>1 DEF NextIndex
    <3> QED
      BY <2>1, <2>2, <2>4, <2>5, <3>2 DEF Stream!Peek
  <2>6. CASE "NOP" \notin opt
    <3>1. ~Remembering'
      BY <2>2, <2>6 DEF Remembering
    <3>2. NextIndex' = IF Used' = Len(stream) THEN Used' ELSE Used' + 1
      BY <2>2, <3>1 DEF NextIndex
    <3>3. NextIndex' = IF NextIndex < Len(stream) THEN NextIndex + 1 ELSE NextIndex
      BY <1>2, <2>1, <2>3, <2>4, <3>2
    <3> QED
      BY <2>1, <2>2, <2>4, <2>6, <3>3 DEF Stream!Take
  <2> QED
    BY <2>5, <2>6
<1>9. CASE UNCHANGED tVars
  <2>1. UNCHANGED <<fileVars, readVars, f, i, pc>> /\ UNCHANGED <<o, r, ret, took>> /\ NULL' = NULL
    BY <1>9 DEF tVars, memory, NULL
  <2>2. Used' = Used /\ stream' = stream
    BY <1>1, <2>1, StayingIsInOrder DEF fileVars
  <2> QED
    BY <1>3, <2>1, <2>2 DEF NextIndex, Remembering
<1> QED
  BY <1>3, <1>4, <1>5, <1>6, <1>7, <1>8, <1>9 DEF TNext, Continue

LEMMA OrderHolds == TSpec => []StreamInvariant
<1>1. TInit => StreamInvariant
  BY InitIsInOrder
<1> QED
  BY <1>1, NextKeepsOrder, PTL DEF TSpec

-----------------------------------------------------------------------------
(* Plain sources.                                                          *)

\* Where the lines of a file begin, and where the one that begins at a place ends.
LineStarts == {1} \cup { q + 1 : q \in Newlines }
LineEnd(p) == CHOOSE n \in Newlines \cup {Len(file) + 1} :
                n >= p /\ \A q \in Newlines : q >= p => n <= q

LEMMA PlainTypes ==
  ASSUME file \in Sources, Plain
  PROVE  /\ Len(file) \in Nat /\ file \in Seq(Text) /\ DOMAIN file = 1 .. Len(file)
         /\ Newlines \subseteq 1 .. Len(file) /\ IsFiniteSet(Newlines)
         /\ LineStarts \subseteq 1 .. Len(file) + 1 /\ 1 \in LineStarts
<1>1. file \in Seq(Text)
  BY SourcesAssumption DEF Text
<1>2. Len(file) \in Nat /\ DOMAIN file = 1 .. Len(file)
  BY <1>1
<1>4. Newlines \subseteq 1 .. Len(file)
  BY <1>2 DEF Newlines
<1>5. IsFiniteSet(1 .. Len(file))
  BY <1>2, FS_Interval
<1>6. IsFiniteSet(Newlines)
  BY <1>4, <1>5, FS_Subset
<1>7. LineStarts \subseteq 1 .. Len(file) + 1
  BY <1>2, <1>4 DEF LineStarts
<1> QED
  BY <1>1, <1>2, <1>4, <1>6, <1>7 DEF LineStarts

LEMMA LineEndIs ==
  ASSUME file \in Sources, Plain, NEW p \in 1 .. Len(file) + 1
  PROVE  LET n == LineEnd(p) IN
         /\ n \in p .. Len(file) + 1
         /\ n \in Newlines \/ n = Len(file) + 1
         /\ \A q \in Newlines : q >= p => n <= q
         /\ n <= p + MAX_LINE_LENGTH - 2
<1> DEFINE S == { q \in Newlines : q >= p }
<1>1. /\ Len(file) \in Nat /\ DOMAIN file = 1 .. Len(file)
      /\ \A q \in Newlines : q \in 1 .. Len(file)
  BY PlainTypes
<1>2. \E n \in Newlines \cup {Len(file) + 1} : n >= p /\ \A q \in Newlines : q >= p => n <= q
  <2>1. CASE S = {}
    <3>1. Len(file) + 1 >= p /\ \A q \in Newlines : ~(q >= p)
      BY <1>1, <2>1
    <3> QED
      BY <3>1
  <2>2. CASE S # {}
    <3>1. S \in SUBSET Nat
      BY <1>1
    <3>2. PICK n \in S : \A q \in S : n <= q
      <4> HIDE DEF S
      <4> QED
        BY <2>2, <3>1, LeastExists
    <3> QED
      BY <3>2
  <2> QED
    BY <2>1, <2>2
<1>3. /\ LineEnd(p) \in Newlines \cup {Len(file) + 1} /\ LineEnd(p) >= p
      /\ \A q \in Newlines : q >= p => LineEnd(p) <= q
  BY <1>2 DEF LineEnd
<1>4. LineEnd(p) \in p .. Len(file) + 1
  <2>1. CASE LineEnd(p) \in Newlines
    BY <1>1, <1>3, <2>1
  <2>2. CASE LineEnd(p) = Len(file) + 1
    BY <1>1, <1>3, <2>2
  <2> QED
    BY <1>3, <2>1, <2>2
<1>5. PICK q \in p .. p + MAX_LINE_LENGTH - 2 : q > Len(file) \/ file[q] = NL
  <2>1. CASE p \in DOMAIN file
    BY <2>1 DEF Plain
  <2>2. CASE p \notin DOMAIN file
    <3>1. p > Len(file) /\ p \in p .. p + MAX_LINE_LENGTH - 2
      BY <1>1, <2>2, LineLengthAssumption
    <3> QED
      BY <3>1
  <2> QED
    BY <2>1, <2>2
<1>6. LineEnd(p) <= q
  <2>1. CASE q > Len(file)
    BY <1>1, <1>4, <2>1
  <2>2. CASE q <= Len(file)
    <3>1. q \in Newlines
      BY <1>1, <1>5, <2>2 DEF Newlines
    <3> QED
      BY <1>3, <3>1
  <2> QED
    BY <1>1, <2>1, <2>2
<1>7. LineEnd(p) <= p + MAX_LINE_LENGTH - 2
  BY <1>1, <1>4, <1>5, <1>6, LineLengthAssumption
<1> QED
  BY <1>3, <1>4, <1>7

\* A read takes a line, and only the one of the last line meets the end.
LEMMA PlainRead ==
  ASSUME file \in Sources, Plain, NEW p \in 1 .. Len(file) + 1
  PROVE  LET n == LineEnd(p) IN
         /\ n \in Newlines => ReadEnd(file, p) = n + 1 /\ ~HitsEnd(file, p)
         /\ n = Len(file) + 1 => ReadEnd(file, p) = n /\ HitsEnd(file, p)
<1> DEFINE n == LineEnd(p)
           end == ReadEnd(file, p)
           w == Chunk(file, p)
<1>1. /\ Len(file) \in Nat /\ DOMAIN file = 1 .. Len(file) /\ file \in Seq(Text)
      /\ Newlines \subseteq 1 .. Len(file)
  BY PlainTypes
<1>2. /\ n \in p .. Len(file) + 1
      /\ n \in Newlines \/ n = Len(file) + 1
      /\ \A q \in Newlines : q >= p => n <= q
      /\ n <= p + MAX_LINE_LENGTH - 2
  BY LineEndIs
<1>3. end \in Stops(file, p) /\ \A z \in Stops(file, p) : end <= z
  BY <1>1, ReadStops
<1>4. \A z : z \in Stops(file, p) <=> \/ z = p + MAX_LINE_LENGTH - 1 \/ z = Len(file) + 1
                                      \/ \E q \in Newlines : q >= p /\ z = q + 1
  <2>1. \A q : q \in { z \in p .. Len(file) : file[z] = NL } <=> q \in Newlines /\ q >= p
    BY <1>1 DEF Newlines
  <2> QED
    BY <2>1 DEF Stops
<1> HIDE DEF n, end
<1>5. CASE n \in Newlines
  <2>1. n + 1 \in Stops(file, p)
    BY <1>2, <1>4, <1>5
  <2>2. \A z \in Stops(file, p) : n + 1 <= z
    BY <1>1, <1>2, <1>4, <1>5, LineLengthAssumption
  <2>3. end = n + 1
    <3>1. end \in Nat
      BY <1>1, ReadAdvances DEF end
    <3> QED
      BY <1>1, <1>2, <1>3, <2>1, <2>2, <3>1
  <2>4. w = SubSeq(file, p, n)
    BY <1>1, <1>2, <2>3 DEF Chunk, end
  <2>5. Len(w) = n - p + 1 /\ w[Len(w)] = file[n] /\ w # <<>>
    <3>1. n \in p .. Len(file)
      BY <1>1, <1>2, <1>5
    <3> HIDE DEF w
    <3>2. Len(w) = n - p + 1 /\ \A k \in 1 .. n - p + 1 : w[k] = file[p + k - 1]
      BY <1>1, <2>4, <3>1
    <3>3. n - p + 1 \in 1 .. n - p + 1 /\ p + (n - p + 1) - 1 = n
      BY <1>1, <3>1
    <3> QED
      BY <3>2, <3>3
  <2>6. Last(w) = NL
    BY <1>5, <2>5 DEF Last, Newlines
  <2> QED
    BY <1>2, <1>5, <2>3, <2>5, <2>6, <1>1 DEF HitsEnd, n, end
<1>6. CASE n = Len(file) + 1
  <2>1. \A q \in Newlines : ~(q >= p)
    BY <1>1, <1>2, <1>6
  <2>2. end = Len(file) + 1
    <3>1. \A z \in Stops(file, p) : z >= Len(file) + 1
      BY <1>1, <1>2, <1>4, <1>6, <2>1, LineLengthAssumption
    <3>2. Len(file) + 1 \in Stops(file, p) /\ end \in Nat
      BY <1>1, <1>4, ReadAdvances DEF end
    <3> QED
      BY <1>1, <1>3, <3>1, <3>2
  <2>3. w = SubSeq(file, p, Len(file))
    BY <1>1, <2>2 DEF Chunk, end
  <2>4. Len(w) = Len(file) + 1 - p
    BY <1>1, <2>3
  <2>5. w = <<>> \/ Last(w) # NL
    <3>1. CASE p = Len(file) + 1
      BY <1>1, <2>3, <3>1
    <3>2. CASE p # Len(file) + 1
      <4> HIDE DEF w
      <4>1. p \in 1 .. Len(file)
        BY <1>1, <3>2
      <4>2. Len(w) = Len(file) - p + 1 /\ \A k \in 1 .. Len(file) - p + 1 : w[k] = file[p + k - 1]
        BY <1>1, <2>3, <4>1
      <4>3. Len(file) - p + 1 \in 1 .. Len(file) - p + 1 /\ p + (Len(file) - p + 1) - 1 = Len(file)
        BY <1>1, <4>1
      <4>4. w[Len(w)] = file[Len(file)]
        BY <4>2, <4>3
      <4>5. file[Len(file)] # NL
        BY <1>1, <2>1, <4>1 DEF Newlines
      <4> QED
        BY <4>4, <4>5 DEF Last
    <3> QED
      BY <3>1, <3>2
  <2>6. Len(w) < MAX_LINE_LENGTH - 1
    BY <1>1, <1>2, <1>6, <2>4, LineLengthAssumption
  <2>7. n \notin Newlines
    BY <1>1, <1>6
  <2> QED
    BY <1>6, <2>2, <2>5, <2>6, <2>7 DEF HitsEnd, n, end
<1> QED
  BY <1>2, <1>5, <1>6 DEF n

\* The reads of a plain source begin where its lines do.
LEMMA PlainBegins ==
  ASSUME file \in Sources, Plain
  PROVE  Begins(file) = LineStarts
<1> DEFINE B == Begins(file)
           S == LineStarts
           n == Len(file) + 1
           step == [p \in 1 .. n |-> IF HitsEnd(file, p) THEN p ELSE ReadEnd(file, p)]
<1>1. /\ Len(file) \in Nat
      /\ \A q \in Newlines : q \in 1 .. Len(file)
      /\ S \subseteq 1 .. Len(file) + 1 /\ 1 \in S
  BY PlainTypes
<1>2. ASSUME NEW p \in S PROVE step[p] \in S
  <2>1. p \in 1 .. Len(file) + 1 /\ p \in 1 .. n
    BY <1>1
  <2>2. LineEnd(p) \in Newlines \/ LineEnd(p) = Len(file) + 1
    BY <2>1, LineEndIs
  <2>3. CASE LineEnd(p) \in Newlines
    <3>1. ReadEnd(file, p) = LineEnd(p) + 1 /\ ~HitsEnd(file, p)
      BY <2>1, <2>3, PlainRead
    <3> QED
      BY <2>1, <2>3, <3>1 DEF LineStarts
  <2>4. CASE LineEnd(p) = Len(file) + 1
    <3>1. HitsEnd(file, p)
      BY <2>1, <2>4, PlainRead
    <3> QED
      BY <2>1, <3>1
  <2> QED
    BY <2>2, <2>3, <2>4
<1>3. B \subseteq S
  <2>1. B = Reached(n, step)
    BY DEF Begins
  <2>2. S \in SUBSET (1 .. n)
    BY <1>1
  <2>3. \A k \in Reached(n, step) : \A T \in SUBSET (1 .. n) : 1 \in T /\ (\A j \in T : step[j] \in T) => k \in T
    BY Zenon DEF Reached
  <2> HIDE DEF n, step, S
  <2>4. \A k \in Reached(n, step) : k \in S
    BY <1>1, <1>2, <2>2, <2>3
  <2> QED
    BY <2>1, <2>4
<1>4. /\ 1 \in B
      /\ \A p \in B : ~HitsEnd(file, p) => ReadEnd(file, p) \in B
  BY ReadsFollow
<1>5. ASSUME NEW q \in Newlines PROVE q + 1 \in B
  <2> DEFINE T == { b \in B : b <= q }
  <2>1. q \in 1 .. Len(file) /\ q \in Nat
    BY <1>1
  <2>2. T \in SUBSET (0 .. q) /\ 1 \in T
    <3>1. \A b \in B : b \in 1 .. Len(file) + 1
      BY <1>1, <1>3
    <3>2. 1 \in B /\ 1 <= q
      BY <1>4, <2>1
    <3> HIDE DEF B
    <3> QED
      BY <1>1, <2>1, <3>1, <3>2
  <2>3. PICK b \in T : \A z \in T : z <= b
    <3> HIDE DEF T
    <3> QED
      BY <2>1, <2>2, GreatestExists
  <2>4. b \in B /\ b <= q /\ b \in 1 .. Len(file) + 1
    BY <1>1, <1>3
  <2>5. /\ LineEnd(b) \in b .. Len(file) + 1 /\ LineEnd(b) <= q
        /\ LineEnd(b) \in Newlines \/ LineEnd(b) = Len(file) + 1
    BY <2>1, <2>4, LineEndIs
  <2>6. LineEnd(b) \in Newlines
    BY <1>1, <2>1, <2>5
  <2>7. ReadEnd(file, b) = LineEnd(b) + 1 /\ ~HitsEnd(file, b)
    BY <2>4, <2>6, PlainRead
  <2>8. LineEnd(b) + 1 \in B
    BY <1>4, <2>4, <2>7
  <2>9. ~(LineEnd(b) + 1 <= q)
    BY <2>1, <2>3, <2>4, <2>5, <2>8
  <2>10. LineEnd(b) + 1 = q + 1
    BY <2>1, <2>4, <2>5, <2>9
  <2> QED
    BY <2>8, <2>10
<1>6. S \subseteq B
  BY <1>4, <1>5 DEF LineStarts
<1> QED
  BY <1>3, <1>6

\* One more line begins than there are newlines.
LEMMA StartsAreOneMore ==
  ASSUME NEW N, IsFiniteSet(N), N \subseteq Nat \ {0}
  PROVE  /\ IsFiniteSet({1} \cup { q + 1 : q \in N })
         /\ Cardinality({1} \cup { q + 1 : q \in N }) = Cardinality(N) + 1
<1> DEFINE T == { q + 1 : q \in N }
           g == [q \in N |-> q + 1]
<1>1. \A q \in N : q \in Nat /\ q >= 1
  OBVIOUS
<1>2. g \in Bijection(N, T)
  BY <1>1 DEF Bijection, Injection, Surjection, IsInjective
<1>3. ExistsBijection(N, T)
  BY <1>2, Zenon DEF ExistsBijection
<1>4. IsFiniteSet(T) /\ Cardinality(T) = Cardinality(N)
  BY <1>3, FS_Bijection
<1>5. 1 \notin T
  BY <1>1
<1> HIDE DEF T
<1>6. IsFiniteSet(T \cup {1}) /\ Cardinality(T \cup {1}) = Cardinality(T) + 1
  BY <1>4, <1>5, FS_AddElement
<1>7. {1} \cup T = T \cup {1}
  OBVIOUS
<1> QED
  BY <1>4, <1>6, <1>7 DEF T

LEMMA PlainNumbers ==
  ASSUME file \in Sources, Plain
  PROVE  /\ Cardinality(Begins(file)) = PhysicalLines
         /\ \A p \in Begins(file) : /\ Cardinality(UpTo(Begins(file), p)) = Cardinality(NewlinesTo(p)) + 1
                                    /\ Cardinality(NewlinesTo(p)) \in Nat
<1>1. /\ \A q \in Newlines : q \in Nat /\ q >= 1
      /\ IsFiniteSet(Newlines) /\ LineStarts \subseteq 1 .. Len(file) + 1
  BY PlainTypes
<1>2. Begins(file) = LineStarts
  BY PlainBegins
<1>3. Cardinality(Begins(file)) = PhysicalLines
  <2>1. Newlines \subseteq Nat \ {0}
    BY <1>1
  <2>2. Cardinality(LineStarts) = Cardinality(Newlines) + 1 /\ Cardinality(Newlines) \in Nat
    BY <1>1, <2>1, StartsAreOneMore, FS_CardinalityType DEF LineStarts
  <2> QED
    BY <1>2, <2>2 DEF PhysicalLines
<1>4. ASSUME NEW p \in LineStarts
      PROVE  /\ Cardinality(UpTo(LineStarts, p)) = Cardinality(NewlinesTo(p)) + 1
             /\ Cardinality(NewlinesTo(p)) \in Nat
  <2>1. p \in Nat /\ p >= 1
    BY <1>1
  <2>2. NewlinesTo(p) \in SUBSET Newlines
    BY DEF NewlinesTo
  <2>3. IsFiniteSet(NewlinesTo(p)) /\ NewlinesTo(p) \subseteq Nat \ {0}
    BY <1>1, <2>2, FS_Subset
  <2>4. UpTo(LineStarts, p) = {1} \cup { q + 1 : q \in NewlinesTo(p) }
    <3>1. \A x \in UpTo(LineStarts, p) : x \in {1} \cup { q + 1 : q \in NewlinesTo(p) }
      <4> SUFFICES ASSUME NEW x \in UpTo(LineStarts, p), x # 1
                   PROVE  \E q \in NewlinesTo(p) : x = q + 1
        OBVIOUS
      <4>1. PICK q \in Newlines : x = q + 1
        BY DEF UpTo, LineStarts
      <4>2. q < p
        BY <1>1, <2>1, <4>1 DEF UpTo
      <4> QED
        BY <4>1, <4>2 DEF NewlinesTo
    <3>2. \A q \in NewlinesTo(p) : q + 1 \in UpTo(LineStarts, p)
      BY <1>1, <2>1 DEF NewlinesTo, UpTo, LineStarts
    <3>3. 1 \in UpTo(LineStarts, p)
      BY <2>1 DEF UpTo, LineStarts
    <3> QED
      BY <3>1, <3>2, <3>3
  <2> QED
    BY <2>3, <2>4, StartsAreOneMore, FS_CardinalityType
<1> QED
  BY <1>2, <1>3, <1>4

\* What chomp leaves of a line.
LEMMA ChompedLine ==
  ASSUME file \in Sources, Plain, NEW p \in 1 .. Len(file)
  PROVE  LET n == LineEnd(p) IN
         /\ chomp(Chunk(file, p)) = SubSeq(file, p, IF p < n /\ file[n - 1] = CR THEN n - 2 ELSE n - 1)
         /\ Chunk(file, p) # <<>>
<1> DEFINE n == LineEnd(p)
           m == IF n \in Newlines THEN n ELSE Len(file)
           w == Chunk(file, p)
           ends == { k \in DOMAIN w : w[k] \in {NL, CR} }
           first == CHOOSE k \in ends : \A z \in ends : k <= z
           cr == p < n /\ file[n - 1] = CR
<1>1. /\ Len(file) \in Nat /\ DOMAIN file = 1 .. Len(file) /\ file \in Seq(Text)
      /\ \A q \in Newlines : q \in 1 .. Len(file)
  BY PlainTypes
<1>2. /\ n \in p .. Len(file) + 1
      /\ n \in Newlines \/ n = Len(file) + 1
      /\ \A q \in Newlines : q >= p => n <= q
  BY LineEndIs
<1>3. w = SubSeq(file, p, m)
  <2>1. CASE n \in Newlines
    BY <1>1, <1>2, <2>1, PlainRead DEF Chunk
  <2>2. CASE n \notin Newlines
    BY <1>1, <1>2, <2>2, PlainRead DEF Chunk
  <2> QED
    BY <2>1, <2>2
<1> HIDE DEF n
<1>4. m \in p .. Len(file)
  <2>1. CASE n \in Newlines
    BY <1>1, <1>2, <2>1
  <2>2. CASE n \notin Newlines
    BY <1>1, <2>2
  <2> QED
    BY <2>1, <2>2
<1>5. n \in Newlines => file[n] = NL /\ m = n
  BY DEF Newlines
<1>6. n \notin Newlines => m = Len(file) /\ n = Len(file) + 1
  BY <1>2
<1> HIDE DEF m
<1> HIDE DEF w
<1>7. /\ Len(w) = m - p + 1 /\ DOMAIN w = 1 .. m - p + 1 /\ w \in Seq(Text)
      /\ \A k \in 1 .. m - p + 1 : w[k] = file[p + k - 1]
  BY <1>1, <1>3, <1>4
<1>8. w # <<>>
  BY <1>1, <1>4, <1>7
<1>9. \A x \in p .. m : file[x] = NL <=> x = n
  <2> SUFFICES ASSUME NEW x \in p .. m PROVE file[x] = NL <=> x = n
    OBVIOUS
  <2>1. file[x] = NL => x \in Newlines
    BY <1>1, <1>4 DEF Newlines
  <2>2. file[x] = NL => n <= x
    BY <1>1, <1>2, <1>4, <2>1
  <2>3. CASE n \in Newlines
    BY <1>1, <1>4, <1>5, <2>2, <2>3
  <2>4. CASE n \notin Newlines
    <3>1. x # n /\ x < n
      BY <1>1, <1>4, <1>6, <2>4
    <3> QED
      BY <1>1, <1>4, <1>6, <2>2, <2>4, <3>1
  <2> QED
    BY <2>3, <2>4
<1>10. \A x \in p .. m : file[x] = CR => x = n - 1 /\ n \in Newlines
  <2> SUFFICES ASSUME NEW x \in p .. m, file[x] = CR PROVE x = n - 1 /\ n \in Newlines
    OBVIOUS
  <2>0. x \in DOMAIN file
    BY <1>1, <1>4
  <2>1. x < Len(file) /\ file[x + 1] = NL /\ x \in 1 .. Len(file)
    <3>1. \A z \in DOMAIN file : file[z] = CR => z < Len(file) /\ file[z + 1] = NL
      BY Zenon DEF Plain
    <3> QED
      BY <1>1, <2>0, <3>1
  <2>2. x + 1 \in Newlines
    BY <1>1, <2>1 DEF Newlines
  <2>3. n <= x + 1
    BY <1>1, <1>2, <1>4, <2>2
  <2>4. n \in Newlines
    BY <1>1, <1>2, <2>1, <2>3
  <2>5. n # x
    BY <1>9 DEF NL, CR
  <2> QED
    BY <1>1, <1>2, <1>4, <1>5, <2>3, <2>4, <2>5
<1>11. \A k \in 1 .. m - p + 1 : p + k - 1 \in p .. m
  BY <1>1, <1>4
<1>12. \A k : k \in ends <=> k \in 1 .. m - p + 1 /\ (file[p + k - 1] = NL \/ file[p + k - 1] = CR)
  BY <1>7
<1>13. \A k \in ends : p + k - 1 = n \/ (p + k - 1 = n - 1 /\ file[n - 1] = CR)
  BY <1>9, <1>10, <1>11, <1>12
<1> HIDE DEF ends
<1>14. CASE n \in Newlines
  <2> DEFINE c == IF cr THEN n - p ELSE n - p + 1
  <2>1. n - p + 1 \in ends
    <3>1. n - p + 1 \in 1 .. m - p + 1 /\ p + (n - p + 1) - 1 = n
      BY <1>1, <1>2, <1>4, <1>5, <1>14
    <3> QED
      BY <1>5, <1>12, <1>14, <3>1
  <2>2. ASSUME cr PROVE n - p \in ends
    <3>1. n - p \in 1 .. m - p + 1 /\ p + (n - p) - 1 = n - 1
      BY <1>1, <1>2, <1>4, <1>5, <1>14, <2>2
    <3> QED
      BY <1>12, <2>2, <3>1
  <2>3. c \in ends /\ c \in 1 .. m - p + 1
    BY <1>12, <2>1, <2>2
  <2>4. \A z \in ends : c <= z
    <3> SUFFICES ASSUME NEW z \in ends PROVE c <= z
      OBVIOUS
    <3>1. z \in 1 .. m - p + 1 /\ (p + z - 1 = n \/ (p + z - 1 = n - 1 /\ file[n - 1] = CR))
      BY <1>12, <1>13
    <3>2. n \in Nat /\ p \in Nat
      BY <1>1, <1>2
    <3>3. z = n - p + 1 \/ (z = n - p /\ file[n - 1] = CR /\ p < n)
      BY <1>1, <1>4, <3>1, <3>2
    <3> QED
      BY <3>2, <3>3
  <2>5. first = c
    <3>1. first \in ends /\ \A z \in ends : first <= z
      BY <2>3, <2>4
    <3>2. first \in 1 .. m - p + 1
      BY <1>12, <3>1
    <3> HIDE DEF first, c
    <3>3. first <= c /\ c <= first
      BY <2>3, <2>4, <3>1
    <3> QED
      BY <1>1, <1>4, <2>3, <3>2, <3>3
  <2>6. chomp(w) = SubSeq(w, 1, c - 1)
    <3>1. ends # {}
      BY <2>1
    <3>2. chomp(w) = SubSeq(w, 1, first - 1)
      BY <3>1 DEF chomp, ends
    <3> QED
      BY <2>5, <3>2
  <2>7. n \in Nat /\ p \in Nat /\ m \in Nat /\ c - 1 \in Nat /\ c - 1 <= m - p
    BY <1>1, <1>2, <1>4, <2>3
  <2>8. SubSeq(w, 1, c - 1) = SubSeq(file, p, p + (c - 1) - 1)
    <3> HIDE DEF c
    <3>1. CASE c = 1
      <4>1. SubSeq(w, 1, 0) = <<>> /\ SubSeq(file, p, p - 1) = <<>>
        BY <2>7, SubSeqEmpty
      <4>2. c - 1 = 0 /\ p + (c - 1) - 1 = p - 1
        BY <2>7, <3>1
      <4> QED
        BY <4>1, <4>2
    <3>2. CASE c # 1
      <4>1. /\ 1 \in 1 .. m - p + 1 /\ c - 1 \in 1 .. m - p + 1
            /\ p \in 1 .. Len(file) /\ m \in 1 .. Len(file)
        BY <1>1, <1>4, <2>7, <2>3, <3>2
      <4>2. SubSeq(SubSeq(file, p, m), 1, c - 1) = SubSeq(file, p + 1 - 1, p + (c - 1) - 1)
        BY <1>1, <4>1, SubSeqOfSubSeq
      <4>3. p + 1 - 1 = p
        BY <2>7
      <4> QED
        BY <1>3, <4>2, <4>3
    <3> QED
      BY <3>1, <3>2
  <2>9. p + (c - 1) - 1 = IF cr THEN n - 2 ELSE n - 1
    BY <2>7
  <2> QED
    BY <1>8, <2>6, <2>8, <2>9 DEF n, w
<1>15. CASE n \notin Newlines
  <2>1. \A k \in ends : FALSE
    <3> SUFFICES ASSUME NEW k \in ends PROVE FALSE
      OBVIOUS
    <3>1. k \in 1 .. m - p + 1 /\ p + k - 1 \in p .. m
      BY <1>11, <1>12
    <3>2. p + k - 1 = n \/ (p + k - 1 = n - 1 /\ file[n - 1] = CR)
      BY <1>13
    <3>3. p + k - 1 # n
      BY <1>1, <1>4, <1>6, <1>15, <3>1
    <3> QED
      BY <1>10, <1>15, <3>1, <3>2, <3>3
  <2>2. chomp(w) = w
    <3>1. ends = {}
      BY <2>1
    <3> QED
      BY <3>1 DEF chomp, ends
  <2>3. ~cr
    <3>1. n = Len(file) + 1 /\ n - 1 \in p .. m
      BY <1>1, <1>4, <1>6, <1>15
    <3> QED
      BY <1>10, <1>15, <3>1
  <2>4. n - 1 = m
    BY <1>1, <1>6, <1>15
  <2> QED
    BY <1>3, <1>8, <2>2, <2>3, <2>4 DEF n, w
<1> QED
  BY <1>14, <1>15

\* The lines read of a plain source are those that an editor shows, but for the last
\* one behind a newline, and none holds a character that looks like the end of
\* the file.
LEMMA PlainLines ==
  ASSUME file \in Sources, junk \in Junk \cup {<<>>}, Plain
  PROVE  LET lines == AllLines(file, junk) IN
         /\ DOMAIN lines = 1 .. PhysicalLines /\ PhysicalLines \in Nat
         /\ \A n \in 1 .. PhysicalLines : /\ lines[n] = LineShown(n)
                                          /\ EOFC \notin ToSet(lines[n])
<1> DEFINE lines == AllLines(file, junk)
           B == Begins(file)
<1>1. /\ Len(file) \in Nat /\ DOMAIN file = 1 .. Len(file) /\ file \in Seq(Text)
      /\ \A q \in Newlines : q \in 1 .. Len(file)
  BY PlainTypes
<1>2. /\ B = LineStarts /\ B \subseteq 1 .. Len(file) + 1 /\ IsFiniteSet(B)
      /\ \A p \in B : p \in Nat
  <2>1. B = LineStarts /\ LineStarts \subseteq 1 .. Len(file) + 1
    BY PlainBegins, PlainTypes
  <2>2. IsFiniteSet(B)
    BY ReadsFollow
  <2>3. \A p \in LineStarts : p \in Nat
    BY <1>1, <2>1
  <2> QED
    BY <2>1, <2>2, <2>3
<1>3. /\ Cardinality(B) = PhysicalLines
      /\ \A p \in B : /\ Cardinality(UpTo(B, p)) = Cardinality(NewlinesTo(p)) + 1
                      /\ Cardinality(NewlinesTo(p)) \in Nat
  BY PlainNumbers
<1>4. /\ DOMAIN lines = 1 .. Cardinality(B)
      /\ \A p \in B : lines[Cardinality(UpTo(B, p))] = LineRead(file, junk, p)
  BY LinesAreRead
<1> HIDE DEF B, lines
<1>5. /\ \A p, q \in B : Cardinality(UpTo(B, p)) = Cardinality(UpTo(B, q)) => p = q
      /\ \A k \in 1 .. Cardinality(B) : \E p \in B : Cardinality(UpTo(B, p)) = k
  <2>1. IsFiniteSet(B) /\ B \subseteq Nat
    BY <1>2
  <2> QED
    BY <2>1, NumbersAreRanked
<1>6. PhysicalLines \in Nat
  BY <1>2, <1>3, FS_CardinalityType
\* Whether it is the place behind a newline at the end.
<1> DEFINE bare == file = <<>> \/ Last(file) = NL
           past == Len(file) + 1
<1>8. past \in B <=> bare
  <2>1. past \in LineStarts <=> Len(file) = 0 \/ Len(file) \in Newlines
    BY <1>1 DEF LineStarts
  <2>2. Len(file) # 0 => Len(file) \in DOMAIN file /\ file # <<>>
    BY <1>1
  <2>3. Len(file) = 0 => file = <<>>
    BY <1>1
  <2>4. file = <<>> => Len(file) = 0
    OBVIOUS
  <2>5. Len(file) # 0 => (Len(file) \in Newlines <=> Last(file) = NL)
    BY <2>2 DEF Newlines, Last
  <2> QED
    BY <1>2, <2>1, <2>2, <2>3, <2>4, <2>5
<1>9. past \in B => Cardinality(UpTo(B, past)) = PhysicalLines
  <2>1. UpTo(B, past) = B
    <3>1. \A q \in B : q <= past
      BY <1>1, <1>2
    <3> QED
      BY <3>1, Zenon DEF UpTo
  <2> QED
    BY <1>3, <2>1
<1> HIDE DEF bare, past
<1>10. ASSUME NEW p \in B
       PROVE  LineShown(Cardinality(UpTo(B, p))) =
                IF p = past THEN junk ELSE PhysicalLine(Cardinality(UpTo(B, p)))
  <2>1. LineShown(Cardinality(UpTo(B, p))) =
          IF Cardinality(UpTo(B, p)) = PhysicalLines /\ bare THEN junk
          ELSE PhysicalLine(Cardinality(UpTo(B, p)))
    BY DEF LineShown, bare
  <2>2. Cardinality(UpTo(B, p)) = PhysicalLines /\ bare <=> p = past
    <3>1. ASSUME Cardinality(UpTo(B, p)) = PhysicalLines, bare PROVE p = past
      <4>1. past \in B /\ Cardinality(UpTo(B, past)) = Cardinality(UpTo(B, p))
        BY <1>8, <1>9, <3>1
      <4> QED
        BY <1>5, <4>1
    <3>2. ASSUME p = past PROVE Cardinality(UpTo(B, p)) = PhysicalLines /\ bare
      BY <1>8, <1>9, <1>10, <3>2
    <3> QED
      BY <3>1, <3>2
  <2> QED
    BY <2>1, <2>2
<1>11. ASSUME NEW n \in 1 .. PhysicalLines, past \in B, Cardinality(UpTo(B, past)) = n
       PROVE  lines[n] = junk /\ EOFC \notin ToSet(lines[n])
  <2>1. past \in 1 .. Len(file) + 1 /\ past = Len(file) + 1
    BY <1>1 DEF past
  <2>2. ReadEnd(file, past) = Len(file) + 1
    BY <1>1, <2>1, ReadAdvances
  <2>3. Chunk(file, past) = <<>>
    BY <1>1, <2>1, <2>2 DEF Chunk
  <2>4. lines[n] = junk
    BY <1>4, <1>11, <2>3 DEF LineRead
  <2> QED
    BY <2>4 DEF Plain
<1>12. ASSUME NEW n \in 1 .. PhysicalLines, NEW p \in B, Cardinality(UpTo(B, p)) = n, p # past
      PROVE  lines[n] = PhysicalLine(n) /\ EOFC \notin ToSet(lines[n])
  <2>1. Cardinality(UpTo(B, p)) = n
    BY <1>12
  <2>2. p \in 1 .. Len(file) /\ Cardinality(NewlinesTo(p)) = n - 1
    BY <1>1, <1>2, <1>3, <1>12 DEF past
  <2>3. \A z \in B : Cardinality(NewlinesTo(z)) = n - 1 => z = p
    <3> SUFFICES ASSUME NEW z \in B, Cardinality(NewlinesTo(z)) = n - 1 PROVE z = p
      OBVIOUS
    <3>1. Cardinality(UpTo(B, z)) = n
      BY <1>3
    <3> QED
      BY <1>5, <2>1, <3>1
  <2>4. (CHOOSE z \in LineStarts : Cardinality(NewlinesTo(z)) = n - 1) = p
    BY <1>2, <2>2, <2>3
  <2> DEFINE m == LineEnd(p)
             c == IF p < m /\ file[m - 1] = CR THEN m - 2 ELSE m - 1
  <2>5. PhysicalLine(n) = SubSeq(file, p, c)
    <3> DEFINE from == CHOOSE z \in LineStarts : Cardinality(NewlinesTo(z)) = n - 1
    <3>1. PhysicalLine(n) =
            SubSeq(file, from, IF from < LineEnd(from) /\ file[LineEnd(from) - 1] = CR
                               THEN LineEnd(from) - 2 ELSE LineEnd(from) - 1)
      BY Zenon DEF PhysicalLine, LineEnd, LineStarts
    <3> HIDE DEF from
    <3>2. from = p
      BY <2>4 DEF from
    <3> QED
      BY <3>1, <3>2
  <2>6. lines[n] = SubSeq(file, p, c)
    <3>1. lines[n] = LineRead(file, junk, p)
      BY <1>4, <2>1
    <3>2. chomp(Chunk(file, p)) = SubSeq(file, p, c) /\ Chunk(file, p) # <<>>
      BY <2>2, ChompedLine
    <3> QED
      BY <3>1, <3>2 DEF LineRead
  <2>7. m \in p .. Len(file) + 1
    BY <2>2, LineEndIs
  <2>8. c \in p - 1 .. Len(file)
    <3> HIDE DEF m
    <3> QED
      BY <1>1, <2>2, <2>7
  <2> HIDE DEF c
  <2>9. EOFC \notin ToSet(SubSeq(file, p, c))
    <3>1. \A k \in p .. c : file[k] \in Text /\ file[k] # EOFC
      <4>1. \A k \in DOMAIN file : file[k] # EOFC
        BY DEF Plain, ToSet
      <4>2. \A k \in p .. c : k \in DOMAIN file
        BY <1>1, <2>2, <2>8
      <4> QED
        BY <1>1, <4>1, <4>2
    <3>2. p \in Int /\ c \in Int
      BY <1>1, <2>2, <2>8
    <3>3. /\ Len(SubSeq(file, p, c)) = IF p <= c THEN c - p + 1 ELSE 0
          /\ \A k \in 1 .. c - p + 1 : SubSeq(file, p, c)[k] = file[p + k - 1]
          /\ SubSeq(file, p, c) \in Seq(Text)
      BY <3>1, <3>2, SubSeqProperties
    <3>4. \A k \in DOMAIN SubSeq(file, p, c) : SubSeq(file, p, c)[k] # EOFC
      <4> SUFFICES ASSUME NEW k \in DOMAIN SubSeq(file, p, c) PROVE SubSeq(file, p, c)[k] # EOFC
        OBVIOUS
      <4>1. k \in 1 .. Len(SubSeq(file, p, c))
        BY <3>3
      <4>2. k \in 1 .. c - p + 1 /\ p + k - 1 \in p .. c
        BY <3>2, <3>3, <4>1
      <4> QED
        BY <3>1, <3>3, <4>2
    <3> QED
      BY <3>4 DEF ToSet
  <2> QED
    BY <2>5, <2>6, <2>9
<1>7. ASSUME NEW n \in 1 .. PhysicalLines
      PROVE  lines[n] = LineShown(n) /\ EOFC \notin ToSet(lines[n])
  <2>1. PICK p \in B : Cardinality(UpTo(B, p)) = n
    BY <1>3, <1>5
  <2>2. CASE p = past
    BY <1>10, <1>11, <2>1, <2>2
  <2>3. CASE p # past
    BY <1>10, <1>12, <2>1, <2>3
  <2> QED
    BY <2>2, <2>3
<1> QED
  BY <1>3, <1>4, <1>6, <1>7 DEF lines

\* Only that character is a TOKEN_EOF.
LEMMA EofNeedsEofc ==
  ASSUME NEW w \in Seq(Text), NEW k \in 1 .. Len(w), Lexeme(w, k).token.type = "EOF"
  PROVE  EOFC \in ToSet(w)
<1> DEFINE j == LexemeEnd(w, k)
           v == SubSeq(w, k, j - 1)
<1>1. j \in k + 1 .. Len(w) + 1
  BY LexemeAdvances DEF Lexeme
<1>2. TokenOf(v).type = "EOF"
  BY DEF Lexeme
<1>3. v \in Seq(Text) /\ v # <<>> /\ v[1] = w[k]
  <2> HIDE DEF j
  <2>1. k \in 1 .. Len(w) /\ j - 1 \in k .. Len(w)
    BY <1>1
  <2>2. v \in Seq(Text) /\ Len(v) = j - 1 - k + 1 /\ \A x \in 1 .. j - 1 - k + 1 : v[x] = w[k + x - 1]
    BY <2>1
  <2>3. 1 \in 1 .. j - 1 - k + 1 /\ k + 1 - 1 = k
    BY <2>1
  <2>4. v[1] = w[k]
    BY <2>2, <2>3
  <2> HIDE DEF v
  <2>5. Len(v) # 0
    BY <2>1, <2>2
  <2> QED
    BY <2>2, <2>4, <2>5
<1> HIDE DEF v
<1>4. v[1] = EOFC
  <2>1. /\ IsBlank(v) => v[1] \in Blank
        /\ IsName(v) => v[1] \in Letter
        /\ IsInt(v) => v[1] \in Digit
        /\ v \in Symbols => v[1] \in Punctuation
    <3>1. 1 \in DOMAIN v
      BY <1>3
    <3>2. v \in Symbols => v[1] \in Punctuation
      BY DEF Symbols, Punctuation
    <3> QED
      BY <3>1, <3>2 DEF IsBlank, IsName, IsInt, All
  <2>2. /\ IsBlank(v) => ~IsName(v) /\ ~IsInt(v) /\ v \notin Symbols
        /\ IsName(v) => ~IsInt(v) /\ v \notin Symbols
        /\ IsInt(v) => v \notin Symbols
    BY <2>1, ClassAssumption
  <2>3. IsBlank(v) \/ IsName(v) \/ IsInt(v) \/ v \in Symbols => IsLexeme(v)
    BY DEF IsLexeme
  <2>4. /\ IsBlank(v) => TokenOf(v) = Tok("WHITESPACE", "none")
        /\ IsName(v) => TokenOf(v) = NameToken(v)
        /\ IsInt(v) => TokenOf(v) = IntToken(v)
        /\ v \in Symbols => TokenOf(v) = SymbolToken(v)
        /\ ~IsLexeme(v) => TokenOf(v) = NoMatch
    <3>1. ASSUME IsBlank(v) PROVE TokenOf(v) = Tok("WHITESPACE", "none")
      BY <2>2, <2>3, <3>1 DEF TokenOf
    <3>2. ASSUME IsName(v) PROVE TokenOf(v) = NameToken(v)
      BY <2>2, <2>3, <3>2 DEF TokenOf
    <3>3. ASSUME IsInt(v) PROVE TokenOf(v) = IntToken(v)
      BY <2>2, <2>3, <3>3 DEF TokenOf
    <3>4. ASSUME v \in Symbols PROVE TokenOf(v) = SymbolToken(v)
      BY <2>2, <2>3, <3>4 DEF TokenOf
    <3>5. ASSUME ~IsLexeme(v) PROVE TokenOf(v) = NoMatch
      BY <2>3, <3>5 DEF TokenOf
    <3> QED
      BY <3>1, <3>2, <3>3, <3>4, <3>5
  <2>5. v \in Symbols
    <3>1. /\ Tok("WHITESPACE", "none").type # "EOF" /\ NoMatch.type # "EOF" /\ IntToken(v).type # "EOF"
          /\ \A a, b, c, d, e : FloatToken(a, b, c, d, e).type # "EOF"
      BY DEF IntToken, FloatToken, NoMatch, LexErr, Num, Tok
    <3>2. NameToken(v).type # "EOF"
      <4>1. v \in DOMAIN Reserved => Reserved[v].type # "EOF"
        BY ReservedAssumption DEF Word
      <4> QED
        BY <4>1 DEF NameToken, LexErr, Tok
    <3>3. ~IsBlank(v) /\ ~IsName(v) /\ ~IsInt(v) /\ IsLexeme(v)
      BY <1>2, <2>4, <3>1, <3>2
    <3>4. ASSUME v \notin Symbols
          PROVE  TokenOf(v) =
                   IF "E" \in {v[x] : x \in DOMAIN v}
                   THEN FloatToken(v[1], Period(v) - 1, Exponent(v) - Period(v) - 1,
                                   Len(Unsigned(Beyond(v, Exponent(v)))), "LONGREAL")
                   ELSE FloatToken(v[1], Period(v) - 1, Len(v) - Period(v), 0, "REAL")
      BY <3>3, <3>4 DEF TokenOf
    <3> QED
      BY <1>2, <3>1, <3>4
  <2>6. TokenOf(v) = SymbolToken(v)
    BY <2>4, <2>5
  <2>7. v \notin {<<":">>, <<":", "=">>, <<"<", ">">>, <<"<", "=">>, <<">", "=">>, <<"<">>, <<">">>, <<"=">>}
    BY <1>2, <2>6 DEF SymbolToken, Tok
  <2>8. SymbolToken(v) = SingleToken(v[1])
    BY <2>7 DEF SymbolToken
  <2>9. v[1] \in Single
    <3>1. PICK c \in Punctuation : v = <<c>>
      BY <2>5, <2>7 DEF Symbols
    <3>2. v[1] = c /\ c \notin {":", "<", ">", "="}
      BY <2>7, <3>1
    <3> QED
      BY <3>2 DEF Punctuation
  <2>10. SingleToken(v[1]).type = "EOF"
    BY <1>2, <2>6, <2>8
  <2> QED
    BY <2>9, <2>10 DEF SingleToken, Tok, Single
<1>5. k \in DOMAIN w /\ w[k] = EOFC
  BY <1>3, <1>4
<1> QED
  BY <1>5 DEF ToSet

\* On a plain source a token of the stream has the number of its line, and the
\* end of the file that of the last.
LEMMA PlainTokens ==
  ASSUME file \in Sources, junk \in Junk \cup {<<>>}, Plain, NEW p \in PlacesOf(file, junk)
  PROVE  LET t == TokenAt(AllLines(file, junk), Len(file) + 2, p) IN
         IF t.token.type = "EOF" THEN t.line_no = PhysicalLines
         ELSE /\ t.line_no \in 1 .. PhysicalLines
              /\ Lexeme(LineShown(t.line_no), t.from).token = t.token
<1> DEFINE lines == AllLines(file, junk)
           P == PlacesOf(file, junk)
           end == <<Len(file) + 2, 1>>
           t == TokenAt(lines, Len(file) + 2, p)
           eofs == Eofs(file, junk, Through(P, p))
<1>1. /\ Len(file) \in Nat /\ DOMAIN lines = 1 .. PhysicalLines /\ PhysicalLines \in Nat
      /\ \A n \in 1 .. PhysicalLines : lines[n] = LineShown(n) /\ EOFC \notin ToSet(lines[n])
      /\ Cardinality(Begins(file)) = PhysicalLines
  BY PlainTypes, PlainLines, PlainNumbers
<1>2. /\ IsFiniteSet(P) /\ P \subseteq Place /\ end \in P
      /\ \A q \in P : \/ q = end
                      \/ /\ q[1] \in DOMAIN lines
                         /\ q = <<q[1], q[2]>>
                         /\ q[2] \in 1 .. Len(lines[q[1]])
      /\ DOMAIN lines \subseteq 1 .. Len(file) + 1
  BY PlacesArePlaces
<1>3. t = [token |-> LexemeOf(file, junk, p).token, row |-> p[1], from |-> p[2],
           line_no |-> NumberOf(file, p) - Cardinality(eofs)]
  BY TokenOfPlace
<1>4. \A n \in DOMAIN lines : lines[n] \in Seq(Text)
  BY LinesAreRead
<1> HIDE DEF lines, P
<1>5. ASSUME NEW q \in P, q # end
      PROVE  /\ q[1] \in 1 .. PhysicalLines /\ q[1] < Len(file) + 2
             /\ LexemeOf(file, junk, q) = Lexeme(lines[q[1]], q[2])
             /\ LexemeOf(file, junk, q).token.type # "EOF"
  <2>1. q[1] \in 1 .. PhysicalLines /\ q[2] \in 1 .. Len(lines[q[1]]) /\ q[1] \in 1 .. Len(file) + 1
    BY <1>1, <1>2, <1>5
  <2>2. LexemeOf(file, junk, q) = Lexeme(lines[q[1]], q[2])
    BY <1>1, <2>1 DEF LexemeOf, lines
  <2>3. Lexeme(lines[q[1]], q[2]).token.type # "EOF"
    BY <1>1, <1>4, <2>1, EofNeedsEofc
  <2> QED
    BY <1>1, <2>1, <2>2, <2>3
<1>6. LexemeOf(file, junk, end).token.type = "EOF"
  BY <1>1, EofIsEof DEF LexemeOf
<1>7. CASE p = end
  <2>1. Through(P, p) \in SUBSET P /\ p \in Through(P, p)
    BY DEF Through, P
  <2>2. eofs = {p}
    <3>1. \A q \in Through(P, p) : LexemeOf(file, junk, q).token.type = "EOF" <=> q = p
      BY <1>5, <1>6, <1>7, <2>1
    <3> QED
      BY <2>1, <3>1, Zenon DEF Eofs
  <2>3. Cardinality(eofs) = 1
    BY <2>2, FS_Singleton
  <2>4. NumberOf(file, p) = PhysicalLines + 1
    BY <1>1, <1>7 DEF NumberOf
  <2>5. t.token.type = "EOF" /\ t.line_no = PhysicalLines
    BY <1>1, <1>3, <1>6, <1>7, <2>3, <2>4
  <2> QED
    BY <2>5 DEF lines
<1>8. CASE p # end
  <2>0. p \in P
    BY DEF P
  <2>1. /\ p[1] \in 1 .. PhysicalLines /\ p[1] < Len(file) + 2
        /\ LexemeOf(file, junk, p) = Lexeme(lines[p[1]], p[2])
        /\ LexemeOf(file, junk, p).token.type # "EOF"
    BY <1>5, <1>8, <2>0
  <2>2. ~Before(end, p)
    BY <1>1, <2>1 DEF Before
  <2>3. \A q \in Through(P, p) : LexemeOf(file, junk, q).token.type # "EOF"
    <3> SUFFICES ASSUME NEW q \in Through(P, p) PROVE LexemeOf(file, junk, q).token.type # "EOF"
      OBVIOUS
    <3>1. q \in P /\ (q = p \/ Before(q, p))
      BY DEF Through
    <3>2. q # end
      BY <1>8, <2>2, <3>1
    <3> QED
      BY <1>5, <3>1, <3>2
  <2>4. eofs = {}
    BY <2>3 DEF Eofs
  <2>5. NumberOf(file, p) = p[1]
    BY <1>1, <2>1 DEF NumberOf
  <2>6. t.line_no = p[1]
    BY <1>1, <1>3, <2>1, <2>4, <2>5, FS_EmptySet
  <2>7. t.token = Lexeme(LineShown(p[1]), p[2]).token /\ t.token.type # "EOF" /\ t.from = p[2]
    BY <1>1, <1>3, <2>1
  <2> QED
    BY <2>1, <2>6, <2>7 DEF lines
<1> QED
  BY <1>7, <1>8

-----------------------------------------------------------------------------
\* What was returned is in the stream.
Returned == ret = NULL \/ \E k \in DOMAIN stream : ret = stream[k]

LEMMA ReturnedHolds == TSpec => []Returned
<1>1. TInit => Returned
  <2> SUFFICES ASSUME TInit PROVE Returned
    OBVIOUS
  <2>1. ret = NULL
    BY Zenon DEF TInit
  <2> QED
    BY <2>1 DEF Returned
<1>2. StreamInvariant /\ StreamInvariant' /\ Returned /\ [TNext]_tVars => Returned'
  <2> SUFFICES ASSUME StreamInvariant, StreamInvariant', Returned, [TNext]_tVars PROVE Returned'
    OBVIOUS
  <2>1. Used \in 0 .. Len(stream) /\ Len(stream) \in Nat \ {0} /\ DOMAIN stream = 1 .. Len(stream)
    <3>1. file \in Sources /\ junk \in Junk \cup {<<>>}
      BY InvariantTypes DEF StreamInvariant, TokenizerInvariant
    <3> QED
      BY <3>1, UsedIsBehind, StreamIsRanked DEF StreamInvariant, TokenizerInvariant, StreamIsGiven
  <2>2. ASSUME NEW options \in Options, Recall(options) PROVE Returned'
    <3>1. ret' = r /\ stream' = stream /\ "NOP" \in o
      BY <2>2 DEF Recall, fileVars
    <3>2. Used > 0 /\ r = stream[Used]
      BY <3>1 DEF StreamInvariant, TokenizerInvariant, RemembersLast
    <3> QED
      BY <2>1, <3>1, <3>2 DEF Returned
  <2>3. ASSUME UNCHANGED <<stream, ret>> PROVE Returned'
    BY <2>3 DEF Returned, NULL
  <2>4. ASSUME NEW options \in Options, Call(options) PROVE Returned'
    BY <2>3, <2>4 DEF Call, fileVars, memory
  <2>5. CASE GrabLine
    BY <2>3, <2>5 DEF GrabLine, fileVars, memory
  <2>6. CASE SkipWhitespace
    BY <2>3, <2>6 DEF SkipWhitespace, fileVars, memory
  <2>7. CASE SkipError
    BY <2>3, <2>7 DEF SkipError, fileVars, memory
  <2>8. CASE Return
    <3>1. ret' = stream[Used + 1] /\ Used' = Used + 1 /\ stream' = stream
      BY <2>8, ReturnIsInOrder DEF StreamInvariant, TokenizerInvariant, Return, fileVars
    <3>2. Used' \in 0 .. Len(stream')
      BY CountedByPlacesNext DEF StreamInvariant, TokenizerInvariant
    <3>3. Used + 1 \in DOMAIN stream
      BY <2>1, <3>1, <3>2
    <3> QED
      BY <3>1, <3>3 DEF Returned
  <2>9. CASE UNCHANGED tVars
    BY <2>3, <2>9 DEF tVars, fileVars, memory
  <2> QED
    BY <2>2, <2>4, <2>5, <2>6, <2>7, <2>8, <2>9 DEF TNext, Continue
<1> QED
  BY <1>1, <1>2, OrderHolds, PTL DEF TSpec

-----------------------------------------------------------------------------
(* Theorems.                                                               *)

\* What was reported or squashed lies behind the place where get_next_token reads
\* on.
LEMMA ErrorsLieBehind == TSpec => []ErrorInvariant
<1> QED
  BY InitIsSound, NextKeepsErrors, PTL DEF TSpec

\* A lexical error is reported once and in order, or squashed and never
\* reported, however peeks and takes follow each other.
THEOREM NoErrorTwice == TSpec => []ErrorsAreDealtWithOnce
<1>1. ErrorInvariant => ErrorsAreDealtWithOnce
  BY DEF ErrorInvariant
<1> QED
  BY <1>1, ErrorsLieBehind, PTL

-----------------------------------------------------------------------------
\* The options are options.
OptionsOK == o \in Options /\ opt \in Options /\ pc \in {"idle", "call"}

LEMMA OptionsHold == TSpec => []OptionsOK
<1>1. TInit => OptionsOK
  <2> SUFFICES ASSUME TInit PROVE OptionsOK
    OBVIOUS
  <2>1. o = {} /\ opt = {} /\ pc = "idle"
    BY Zenon DEF TInit
  <2> QED
    BY <2>1 DEF OptionsOK, Options
<1>2. OptionsOK /\ [TNext]_tVars => OptionsOK'
  <2> SUFFICES ASSUME OptionsOK, [TNext]_tVars PROVE OptionsOK'
    OBVIOUS
  <2>1. {} \in Options
    BY DEF Options
  <2>2. ASSUME NEW options \in Options, Recall(options) PROVE OptionsOK'
    BY <2>2 DEF Recall, OptionsOK
  <2>3. ASSUME NEW options \in Options, Call(options) PROVE OptionsOK'
    BY <2>3 DEF Call, memory, OptionsOK
  <2>4. CASE GrabLine
    BY <2>4 DEF GrabLine, memory, OptionsOK
  <2>5. CASE SkipWhitespace
    BY <2>5 DEF SkipWhitespace, memory, OptionsOK
  <2>6. CASE SkipError
    BY <2>6 DEF SkipError, memory, OptionsOK
  <2>7. CASE Return
    BY <2>1, <2>7 DEF Return, OptionsOK
  <2>8. CASE UNCHANGED tVars
    BY <2>8 DEF tVars, memory, OptionsOK
  <2> QED
    BY <2>2, <2>3, <2>4, <2>5, <2>6, <2>7, <2>8 DEF TNext, Continue
<1> QED
  BY <1>1, <1>2, PTL DEF TSpec

\* The variables keep their types: the place in the line never leaves the line,
\* nor the place in the file the file.
THEOREM TokenizerTypeCorrect == TSpec => []TTypeOK
<1>1. ErrorInvariant /\ OptionsOK => TTypeOK
  <2> SUFFICES ASSUME ErrorInvariant, OptionsOK PROVE TTypeOK
    OBVIOUS
  <2>1. Len(file) \in Nat
    BY SourcesAssumption DEF ErrorInvariant, Position
  <2>2. row \in 0 .. EofRow
    BY <2>1 DEF ErrorInvariant, Position, EofRow
  <2>3. hidden \subseteq (1 .. EofRow) \X (1 .. MAX_LINE_LENGTH)
    <3>1. \A n \in 1 .. Len(file) + 1 : n \in 1 .. EofRow
      BY <2>1 DEF EofRow
    <3> QED
      BY <3>1 DEF ErrorInvariant, Dealt
  <2> QED
    BY <2>2, <2>3 DEF ErrorInvariant, Position, OptionsOK, TTypeOK
<1> QED
  BY <1>1, ErrorsLieBehind, OptionsHold, PTL

\* get_next_token reads the lines of the file in their order and every line from
\* lexeme to lexeme, counts them, and remembers the token that it used up last.
THEOREM ReadsAndRemembers == TSpec => []TokenizerInvariant
<1>1. StreamInvariant => TokenizerInvariant
  BY DEF StreamInvariant
<1> QED
  BY <1>1, OrderHolds, PTL

\* What the parser sees is the stream of the tokens of the source with one token
\* of lookahead, however it mixes peeks, takes and squashing.
THEOREM TokensAreTheStream == TSpec => ImplementsStream
<1> QED
  BY InitImplements, NextImplements, OrderHolds, PTL DEF TSpec, ImplementsStream, Stream!StreamSpec

\* On a source that get_next_token is made for, a token stands where it says, in
\* the line with the number that an editor shows, and the end of the file is on
\* the last line.  Behind a newline at the end that is one line more, and its
\* tokens are those of what the buffer held.
THEOREM TokensStandWhereTheySay == TSpec => []TokenIsWhereItSays
<1>1. StreamInvariant /\ Returned => TokenIsWhereItSays
  <2> SUFFICES ASSUME StreamInvariant, Returned, ret # NULL, Plain
               PROVE  IF ret.token.type = "EOF" THEN ret.line_no = PhysicalLines
                      ELSE /\ ret.line_no \in 1 .. PhysicalLines
                           /\ Lexeme(LineShown(ret.line_no), ret.from).token = ret.token
    BY DEF TokenIsWhereItSays
  <2> DEFINE P == PlacesOf(file, junk)
             T(p) == TokenAt(AllLines(file, junk), Len(file) + 2, p)
  <2>1. file \in Sources /\ junk \in Junk \cup {<<>>}
    BY InvariantTypes DEF StreamInvariant, TokenizerInvariant
  <2>2. PICK k \in DOMAIN stream : ret = stream[k]
    BY DEF Returned
  <2>3. IsFiniteSet(P) /\ P \subseteq Place
    BY <2>1, PlacesArePlaces
  <2>4. /\ DOMAIN stream = 1 .. Cardinality(P)
        /\ \A p \in P : stream[Cardinality(Through(P, p))] = T(p)
    BY <2>1, StreamIsRanked DEF StreamInvariant, StreamIsGiven
  <2>5. PICK p \in P : Cardinality(Through(P, p)) = k
    <3> HIDE DEF P
    <3> QED
      BY <2>2, <2>3, <2>4, PlacesAreRanked
  <2>6. ret = T(p)
    BY <2>2, <2>4, <2>5
  <2>7. IF T(p).token.type = "EOF" THEN T(p).line_no = PhysicalLines
        ELSE /\ T(p).line_no \in 1 .. PhysicalLines
             /\ Lexeme(LineShown(T(p).line_no), T(p).from).token = T(p).token
    BY <2>1, PlainTokens
  <2> QED
    BY <2>6, <2>7
<1> QED
  BY <1>1, OrderHolds, ReturnedHolds, PTL
=============================================================================
