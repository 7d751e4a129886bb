--------------------------- MODULE StringsProofs ---------------------------
(***************************************************************************)
(* Theorems about Encodings: columns of strings and decimals.              *)
(***************************************************************************)
EXTENDS EncodingsProofs

\* h folds f over the subsets of S, the element that pick gives of each last.
FoldsBy(pick, h, f, base, S) ==
  h = [s \in SUBSET S |-> IF s = {} THEN base ELSE f[<<pick[s], h[s \ {pick[s]}]>>]]
Picks(pick, S) == \A s \in (SUBSET S) \ {{}} : pick[s] \in s

\* A subset without the element picked is smaller.
LEMMA PickRemoved ==
  ASSUME NEW S, IsFiniteSet(S), NEW pick, Picks(pick, S), NEW s \in SUBSET S, s # {}
  PROVE  /\ pick[s] \in S /\ s \ {pick[s]} \in SUBSET S
         /\ Cardinality(s) \in Nat /\ Cardinality(s \ {pick[s]}) \in Nat
         /\ Cardinality(s \ {pick[s]}) = Cardinality(s) - 1
<1>1. pick[s] \in s
  BY DEF Picks
<1>2. IsFiniteSet(s) /\ Cardinality(s) \in Nat
  BY FS_Subset, FS_CardinalityType
<1>3. Cardinality(s \ {pick[s]}) = Cardinality(s) - 1 /\ IsFiniteSet(s \ {pick[s]})
  BY <1>1, <1>2, FS_RemoveElement
<1> QED
  BY <1>1, <1>2, <1>3, FS_CardinalityType

\* There is such a fold.
LEMMA FoldByExists ==
  ASSUME NEW S, IsFiniteSet(S), NEW pick, Picks(pick, S),
         NEW B, NEW base \in B, NEW f \in [S \X B -> B]
  PROVE  \E h \in [SUBSET S -> B] : FoldsBy(pick, h, f, base, S)
<1> DEFINE step(h, s) == IF s = {} THEN base ELSE f[<<pick[s], h[s \ {pick[s]}]>>]
           good(n) == \E h \in [SUBSET S -> B] :
                        \A s \in SUBSET S : Cardinality(s) <= n => h[s] = step(h, s)
           bad == {n \in Nat : ~good(n)}
<1>1. ASSUME NEW h \in [SUBSET S -> B], NEW s \in SUBSET S PROVE step(h, s) \in B
  <2>1. CASE s = {}
    BY <2>1
  <2>2. CASE s # {}
    <3> DEFINE x == pick[s]
               y == h[s \ {pick[s]}]
    <3>1. x \in S /\ y \in B
      <4>1. pick[s] \in S /\ s \ {pick[s]} \in SUBSET S
        BY <2>2, PickRemoved
      <4> QED
        BY <4>1
    <3> HIDE DEF x, y
    <3>2. f[<<x, y>>] \in B
      BY <3>1
    <3> QED
      BY <2>2, <3>2 DEF x, y
  <2> QED
    BY <2>1, <2>2
<1>2. ASSUME bad # {} PROVE FALSE
  <2>1. PICK n \in bad : \A m \in bad : n <= m
    <3>1. bad \in SUBSET Nat
      OBVIOUS
    <3> HIDE DEF bad
    <3> QED
      BY <1>2, <3>1, LeastElement
  <2>2. PICK h \in [SUBSET S -> B] :
          \A s \in SUBSET S : Cardinality(s) <= n - 1 => h[s] = step(h, s)
    <3>1. CASE n = 0
      <4> DEFINE h == [s \in SUBSET S |-> base]
      <4>1. h \in [SUBSET S -> B]
        OBVIOUS
      <4>2. \A s \in SUBSET S : ~(Cardinality(s) <= n - 1)
        <5> TAKE s \in SUBSET S
        <5>1. Cardinality(s) \in Nat
          BY FS_Subset, FS_CardinalityType
        <5> QED
          BY <3>1, <5>1
      <4> HIDE DEF h
      <4> QED
        BY <4>1, <4>2
    <3>2. CASE n # 0
      <4>1. n - 1 \in Nat /\ n - 1 < n
        BY <2>1, <3>2
      <4>2. good(n - 1)
        <5> HIDE DEF good
        <5> QED
          BY <2>1, <4>1
      <4> QED
        BY <4>2
    <3> QED
      BY <3>1, <3>2
  <2> DEFINE g == [s \in SUBSET S |-> step(h, s)]
  <2>3. g \in [SUBSET S -> B]
    BY <1>1
  <2>4. ASSUME NEW s \in SUBSET S, Cardinality(s) <= n PROVE g[s] = step(g, s)
    <3>1. CASE s = {}
      BY <3>1
    <3>2. CASE s # {}
      <4>1. /\ s \ {pick[s]} \in SUBSET S
            /\ Cardinality(s \ {pick[s]}) <= n - 1
        BY <2>1, <2>4, <3>2, PickRemoved
      <4>2. g[s \ {pick[s]}] = h[s \ {pick[s]}]
        BY <2>2, <4>1
      <4>3. g[s] = step(h, s)
        OBVIOUS
      <4> HIDE DEF g
      <4> QED
        BY <3>2, <4>2, <4>3
    <3> QED
      BY <3>1, <3>2
  <2>5. good(n)
    <3> HIDE DEF g
    <3> QED
      BY <2>3, <2>4
  <2> QED
    BY <2>1, <2>5
<1>3. Cardinality(S) \in Nat
  BY FS_CardinalityType
<1>4. PICK h \in [SUBSET S -> B] :
        \A s \in SUBSET S : Cardinality(s) <= Cardinality(S) => h[s] = step(h, s)
  BY <1>2, <1>3
<1>5. \A s \in SUBSET S : h[s] = step(h, s)
  <2> TAKE s \in SUBSET S
  <2>1. Cardinality(s) <= Cardinality(S)
    BY FS_Subset
  <2> QED
    BY <1>4, <2>1
<1>6. h = [s \in SUBSET S |-> step(h, s)]
  BY <1>4, <1>5
<1> QED
  BY <1>4, <1>6 DEF FoldsBy

\* The greatest number of each subset.
Greatest(n) == [s \in SUBSET (1 .. n) |-> Seqs!Max(s)]

\* The greatest number of an interval from one on is its end.
LEMMA GreatestIs ==
  ASSUME NEW n \in Nat
  PROVE  /\ Picks(Greatest(n), 1 .. n)
         /\ \A k \in 1 .. n : /\ Seqs!Max(1 .. k) = k
                              /\ (1 .. k) \ {k} = 1 .. k - 1
                              /\ 1 .. k \in SUBSET (1 .. n)
<1>1. ASSUME NEW s \in (SUBSET (1 .. n)) \ {{}} PROVE Greatest(n)[s] \in s
  <2>1. Max(s) \in s /\ \A x \in s : x <= Max(s)
    <3>1. s \in SUBSET (1 .. n) /\ 1 \in Int /\ n \in Int
      OBVIOUS
    <3> QED
      BY <3>1, ExtremesExist
  <2>2. Seqs!Max(s) \in s
    BY <2>1 DEF Seqs!Max
  <2> QED
    BY <2>2 DEF Greatest
<1>2. ASSUME NEW k \in 1 .. n
      PROVE  /\ Seqs!Max(1 .. k) = k /\ (1 .. k) \ {k} = 1 .. k - 1
             /\ 1 .. k \in SUBSET (1 .. n)
  <2>1. k \in 1 .. k /\ \A x \in 1 .. k : k >= x
    OBVIOUS
  <2>2. \A x \in 1 .. k : (\A y \in 1 .. k : x >= y) => x = k
    OBVIOUS
  <2>3. Seqs!Max(1 .. k) = k
    BY <2>1, <2>2 DEF Seqs!Max
  <2> QED
    BY <2>3
<1> QED
  BY <1>1, <1>2 DEF Picks

\* A fold from the left over n elements, with values in B.
LeftFold(g, n, B, base, f) ==
  /\ g[{}] = base
  /\ \A s \in (SUBSET (1 .. n)) \ {{}} :
       /\ Seqs!Max(s) \in 1 .. n /\ g[s \ {Seqs!Max(s)}] \in B
       /\ g[s] = f[<<Seqs!Max(s), g[s \ {Seqs!Max(s)}]>>]

\* There is one.
LEMMA FoldOfSequence ==
  ASSUME NEW n \in Nat, NEW B, NEW base \in B, NEW f \in [(1 .. n) \X B -> B]
  PROVE  \E g \in [SUBSET (1 .. n) -> B] : LeftFold(g, n, B, base, f)
<1> DEFINE S == 1 .. n
           pick == Greatest(n)
<1>1. IsFiniteSet(S) /\ Picks(pick, S)
  <2>1. 1 \in Int /\ n \in Int
    OBVIOUS
  <2> QED
    BY <2>1, FS_Interval, GreatestIs
<1>2. f \in [S \X B -> B] /\ {} \in SUBSET S
  OBVIOUS
<1>3. \A s \in SUBSET S : pick[s] = Seqs!Max(s)
  BY DEF Greatest
<1> HIDE DEF S, pick
<1>4. PICK g \in [SUBSET S -> B] : FoldsBy(pick, g, f, base, S)
  BY <1>1, <1>2, FoldByExists
<1>5. g[{}] = base
  BY <1>2, <1>4 DEF FoldsBy
<1>6. ASSUME NEW s \in (SUBSET S) \ {{}}
      PROVE  /\ Seqs!Max(s) \in S /\ g[s \ {Seqs!Max(s)}] \in B
             /\ g[s] = f[<<Seqs!Max(s), g[s \ {Seqs!Max(s)}]>>]
  <2>1. pick[s] \in S /\ s \ {pick[s]} \in SUBSET S /\ s # {}
    BY <1>1, PickRemoved
  <2>2. g[s] = f[<<pick[s], g[s \ {pick[s]}]>>]
    BY <1>4, <2>1 DEF FoldsBy
  <2> QED
    BY <1>3, <1>4, <2>1, <2>2
<1> QED
  BY <1>4, <1>5, <1>6 DEF S, LeftFold

\* A table whose codes are less than Escape, of symbols of two or three bytes;
\* what it lists beyond them begins with a zero byte.
TableOK(table) ==
  /\ table.symbols \in Seq(Seq(Nat)) /\ Len(table.symbols) <= Escape
  /\ \A s \in DOMAIN table.symbols : Len(table.symbols[s]) \in {2, 3}
  /\ table.phantom # <<>> => ~table.built /\ table.phantom[1] = 0

\* What decompress knows after some codes.
Outputs == [escaped : BOOLEAN, output : Seq(Nat)]
Start == [escaped |-> FALSE, output |-> <<>>]

\* One more code leads from such a state to such a state.
LEMMA DecodedIs ==
  ASSUME NEW table, TableOK(table), NEW code \in Nat, NEW state \in Outputs
  PROVE  Decoded1(table, code, state) \in Outputs
<1>1. state.output \in Seq(Nat) /\ state = [escaped |-> state.escaped, output |-> state.output]
  BY DEF Outputs
<1>2. \A bytes \in Seq(Nat) : [escaped |-> FALSE, output |-> state.output \o bytes] \in Outputs
  BY <1>1 DEF Outputs
<1>3. <<code>> \in Seq(Nat)
  OBVIOUS
<1>4. [state EXCEPT !.escaped = TRUE] \in Outputs
  BY DEF Outputs
<1>5. code < Len(table.symbols) => table.symbols[code + 1] \in Seq(Nat)
  <2>1. table.symbols \in Seq(Seq(Nat))
    BY DEF TableOK
  <2> QED
    BY <2>1
<1> QED
  BY <1>2, <1>3, <1>4, <1>5 DEF Decoded1

\* The states of decompress: one for each number of codes read.
Decodes(state, table, codes) ==
  /\ state[0] = Start
  /\ \A k \in 1 .. Len(codes) : state[k] = Decoded1(table, codes[k], state[k - 1])

\* The output is that of the last of them.
LEMMA DecompressSteps ==
  ASSUME NEW table, TableOK(table), NEW codes \in Seq(Nat)
  PROVE  \E state \in [0 .. Len(codes) -> Outputs] :
           Decodes(state, table, codes) /\ Decompress(table, codes) = state[Len(codes)].output
<1> DEFINE n == Len(codes)
           S == 1 .. n
           f == [p \in S \X Outputs |-> Decoded1(table, codes[p[1]], p[2])]
           step(g, s) == IF s = {} THEN Start
                         ELSE Decoded1(table, codes[Seqs!Max(s)], g[s \ {Seqs!Max(s)}])
           h == CHOOSE g : g = [s \in SUBSET S |-> step(g, s)]
           state == [k \in 0 .. n |-> h[1 .. k]]
<1>1. n \in Nat /\ DOMAIN codes = S /\ \A k \in S : codes[k] \in Nat
  OBVIOUS
<1>2. Decompress(table, codes) = h[S].output
  BY <1>1 DEF Decompress, Seqs!FoldLeft, Seqs!MapThenFoldSet, Start
<1>4. Start \in Outputs
  BY DEF Start, Outputs
<1>5. f \in [S \X Outputs -> Outputs]
  <2>1. \A k \in S, o \in Outputs : Decoded1(table, codes[k], o) \in Outputs
    BY <1>1, DecodedIs
  <2> HIDE DEF S
  <2> QED
    BY <2>1
<1>6. PICK g \in [SUBSET S -> Outputs] : LeftFold(g, n, Outputs, Start, f)
  <2>1. f \in [(1 .. n) \X Outputs -> Outputs]
    BY <1>5
  <2> HIDE DEF f, n
  <2> QED
    BY <1>1, <1>4, <2>1, FoldOfSequence
<1>8. \A s \in SUBSET S : g[s] = step(g, s)
  <2> TAKE s \in SUBSET S
  <2>1. CASE s = {}
    BY <1>6, <2>1 DEF LeftFold
  <2>2. CASE s # {}
    <3> DEFINE x == Seqs!Max(s)
    <3>1. x \in S /\ g[s \ {x}] \in Outputs /\ g[s] = f[<<x, g[s \ {x}]>>]
      <4> HIDE DEF f
      <4> QED
        BY <1>6, <2>2 DEF LeftFold
    <3> HIDE DEF x
    <3>2. g[s] = Decoded1(table, codes[x], g[s \ {x}])
      <4> HIDE DEF S
      <4> QED
        BY <3>1
    <3> QED
      BY <2>2, <3>2 DEF x
  <2> QED
    BY <2>1, <2>2
<1>9. h = [s \in SUBSET S |-> step(h, s)]
  <2>1. g = [s \in SUBSET S |-> g[s]]
    BY <1>6
  <2>2. g = [s \in SUBSET S |-> step(g, s)]
    BY <1>8, <2>1
  <2> QED
    BY <2>2
<1> HIDE DEF h
<1>10. h[{}] = Start
  BY <1>9
<1>11. ASSUME NEW k \in 1 .. n
       PROVE  h[1 .. k] = Decoded1(table, codes[k], h[1 .. k - 1])
  <2>1. Seqs!Max(1 .. k) = k /\ (1 .. k) \ {k} = 1 .. k - 1 /\ 1 .. k \in SUBSET S
    BY <1>1, GreatestIs
  <2>2. 1 .. k # {}
    <3>1. k \in Nat /\ 1 <= k
      BY <1>1
    <3>2. k \in 1 .. k
      BY <3>1
    <3> QED
      BY <3>2
  <2>3. h[1 .. k] = step(h, 1 .. k)
    BY <1>9, <2>1
  <2> QED
    BY <2>1, <2>2, <2>3
<1>12. 1 .. 0 = {} /\ \A k \in 1 .. n : k \in 0 .. n /\ k - 1 \in 0 .. n
  BY <1>1
<1>13. Decodes(state, table, codes)
  <2>1. state[0] = Start
    BY <1>1, <1>10, <1>12
  <2>2. \A k \in 1 .. n : state[k] = h[1 .. k] /\ state[k - 1] = h[1 .. k - 1]
    BY <1>12
  <2> HIDE DEF state
  <2> QED
    BY <1>11, <2>1, <2>2 DEF Decodes
<1>14. state \in [0 .. n -> Outputs]
  <2> DEFINE bad == {k \in Nat : k \in 0 .. n /\ state[k] \notin Outputs}
  <2>1. ASSUME bad # {} PROVE FALSE
    <3>1. PICK k \in bad : \A m \in bad : k <= m
      BY <2>1, LeastElement
    <3>2. k \in Nat /\ k \in 0 .. n /\ state[k] \notin Outputs
      BY <3>1
    <3>3. CASE k = 0
      BY <1>4, <1>13, <3>2, <3>3 DEF Decodes
    <3>4. CASE k # 0
      <4>1. k - 1 \in Nat /\ k - 1 < k /\ k - 1 \in 0 .. n /\ k \in 1 .. n
        BY <1>1, <3>2, <3>4
      <4>2. state[k - 1] \in Outputs
        <5>1. k - 1 \notin bad
          <6> HIDE DEF bad
          <6> QED
            BY <3>1, <3>2, <4>1
        <5> QED
          BY <4>1, <5>1
      <4> HIDE DEF state
      <4>3. state[k] = Decoded1(table, codes[k], state[k - 1])
        BY <1>13, <4>1 DEF Decodes
      <4> QED
        BY <1>1, <3>2, <4>1, <4>2, <4>3, DecodedIs
    <3> QED
      BY <3>3, <3>4
  <2>2. \A k \in 0 .. n : state[k] \in Outputs
    <3> HIDE DEF state
    <3> QED
      BY <2>1
  <2>3. state = [k \in 0 .. n |-> state[k]]
    OBVIOUS
  <2> HIDE DEF state
  <2> QED
    BY <2>2, <2>3
<1>15. Decompress(table, codes) = state[n].output
  BY <1>1, <1>2
<1> QED
  BY <1>13, <1>14, <1>15

-----------------------------------------------------------------------------
(* Training: the symbols of a table.                                       *)

\* A relation that ranks the elements of a set: irreflexive, transitive, total.
Ranks(before, S) ==
  /\ \A g \in S : <<g, g>> \notin before
  /\ \A g, h, i \in S : <<g, h>> \in before /\ <<h, i>> \in before => <<g, i>> \in before
  /\ \A g, h \in S : g # h => <<g, h>> \in before \/ <<h, g>> \in before

\* Of so many elements that are ranked, some one has k - 1 before it.
LEMMA RankedElement ==
  ASSUME NEW S, IsFiniteSet(S), NEW before, Ranks(before, S), NEW k \in 1 .. Cardinality(S)
  PROVE  \E g \in S : Cardinality({h \in S : <<h, g>> \in before}) = k - 1
<1> DEFINE n == Cardinality(S)
           ahead(g) == {h \in S : <<h, g>> \in before}
           rank == [g \in S |-> Cardinality(ahead(g))]
<1>1. n \in Nat /\ IsFiniteSet(0 .. n - 1) /\ Cardinality(0 .. n - 1) = n
  <2>1. n \in Nat
    BY FS_CardinalityType
  <2>2. 0 \in Int /\ n - 1 \in Int
    BY <2>1
  <2>3. IsFiniteSet(0 .. n - 1) /\ Cardinality(0 .. n - 1) = IF 0 > n - 1 THEN 0 ELSE (n - 1) - 0 + 1
    BY <2>2, FS_Interval
  <2> QED
    BY <2>1, <2>3
<1>2. ASSUME NEW g \in S
      PROVE  /\ IsFiniteSet(ahead(g)) /\ Cardinality(ahead(g)) \in 0 .. n - 1
             /\ rank[g] = Cardinality(ahead(g))
  <2>1. ahead(g) \in SUBSET S /\ ahead(g) \in SUBSET (S \ {g})
    BY DEF Ranks
  <2>2. IsFiniteSet(S \ {g}) /\ Cardinality(S \ {g}) = n - 1
    BY FS_RemoveElement
  <2> HIDE DEF ahead
  <2>3. IsFiniteSet(ahead(g)) /\ Cardinality(ahead(g)) <= n - 1
    BY <2>1, <2>2, FS_Subset
  <2>4. Cardinality(ahead(g)) \in Nat
    BY <2>3, FS_CardinalityType
  <2> QED
    BY <1>1, <2>3, <2>4
<1>3. ASSUME NEW g \in S, NEW h \in S, <<g, h>> \in before
      PROVE  rank[g] < rank[h]
  <2>1. ahead(g) \cup {g} \in SUBSET ahead(h) /\ g \notin ahead(g)
    <3>1. \A i \in ahead(g) : i \in ahead(h)
      BY <1>3 DEF Ranks
    <3>2. g \in ahead(h) /\ g \notin ahead(g)
      BY <1>3 DEF Ranks
    <3> HIDE DEF ahead
    <3> QED
      BY <3>1, <3>2
  <2> HIDE DEF ahead, rank
  <2>2. IsFiniteSet(ahead(g)) /\ IsFiniteSet(ahead(h))
    BY <1>2
  <2>3. Cardinality(ahead(g) \cup {g}) = Cardinality(ahead(g)) + 1
    BY <2>1, <2>2, FS_AddElement
  <2>4. Cardinality(ahead(g) \cup {g}) <= Cardinality(ahead(h))
    BY <2>1, <2>2, FS_Subset
  <2> QED
    BY <1>1, <1>2, <2>3, <2>4
<1>4. \A g, h \in S : rank[g] = rank[h] => g = h
  <2> TAKE g \in S, h \in S
  <2> HIDE DEF rank, ahead
  <2>1. rank[g] \in Int /\ rank[h] \in Int
    BY <1>1, <1>2
  <2>2. g # h => <<g, h>> \in before \/ <<h, g>> \in before
    BY DEF Ranks
  <2> QED
    BY <1>3, <2>1, <2>2
<1>5. rank \in [S -> 0 .. n - 1]
  <2>1. \A g \in S : Cardinality(ahead(g)) \in 0 .. n - 1
    BY <1>2
  <2> HIDE DEF ahead, n
  <2> QED
    BY <2>1
<1> HIDE DEF rank, ahead
<1>6. rank \in Injection(S, 0 .. n - 1)
  <2> HIDE DEF n
  <2> QED
    BY <1>4, <1>5, Zenon DEF Injection, IsInjective
<1>7. rank \in Surjection(S, 0 .. n - 1)
  BY <1>1, <1>6, FS_Injection
<1>8. k - 1 \in 0 .. n - 1
  BY <1>1
<1>9. \E g \in S : rank[g] = k - 1
  BY <1>7, <1>8 DEF Surjection
<1> QED
  BY <1>2, <1>9 DEF ahead

\* Two or three bytes.
Symbols == {g \in Seq(0 .. ByteMax) : Len(g) \in {2, 3}}

\* The greatest byte is a natural number.
LEMMA ByteMaxIs ==
  /\ ByteMax \in Nat /\ Escape = ByteMax /\ ByteMax > 0
  /\ 0 .. ByteMax \in SUBSET Nat
<1>1. ByteBits \in Nat /\ ByteBits > 1
  BY FormatAssumption, SizesAssumption
<1>2. 2^ByteBits \in Nat \ {0} /\ 2^1 <= 2^ByteBits
  <2>1. 1 \in 0 .. ByteBits
    BY <1>1
  <2> QED
    BY <1>1, <2>1, PowersGrow
<1>3. 2^1 = 2
  BY SMT
<1> QED
  BY <1>2, <1>3 DEF ByteMax, Escape

\* A number has one lowest digit.
LEMMA DigitsApart ==
  ASSUME NEW d \in Nat, NEW x \in 0 .. d - 1, NEW y \in 0 .. d - 1, NEW b \in Int, NEW c \in Int,
         x + d * b = y + d * c
  PROVE  x = y /\ b = c
<1>1. d * b = b * d /\ d * c = c * d /\ x \in Int /\ y \in Int
  OBVIOUS
<1>2. b * d + x = c * d + y
  <2> DEFINE p == b * d
             q == c * d
  <2>1. p \in Int /\ q \in Int
    OBVIOUS
  <2>2. x + p = y + q
    BY <1>1
  <2> HIDE DEF p, q
  <2>3. p + x = q + y
    BY <1>1, <2>1, <2>2
  <2> QED
    BY <2>3 DEF p, q
<1> QED
  BY <1>2, OneBlock

\* The numbers of different symbols differ.
LEMMA NumberedApart ==
  ASSUME NEW g \in Symbols, NEW h \in Symbols
  PROVE  /\ Numbered(g) \in Int
         /\ Numbered(g) = Numbered(h) => g = h
<1> DEFINE third(s) == IF Len(s) = 3 THEN s[3] + 1 ELSE 0
           rest(s) == s[2] + (ByteMax + 2) * third(s)
<1>1. ASSUME NEW s \in Symbols
      PROVE  /\ Len(s) \in {2, 3} /\ s \in Seq(0 .. ByteMax)
             /\ s[1] \in 0 .. ByteMax + 1 /\ s[2] \in 0 .. ByteMax + 1
             /\ third(s) \in Nat /\ rest(s) \in Int
             /\ Numbered(s) = s[1] + (ByteMax + 2) * rest(s)
  <2>1. s \in Seq(0 .. ByteMax) /\ Len(s) \in {2, 3} /\ ByteMax \in Nat
    BY ByteMaxIs DEF Symbols
  <2>2. \A j \in 1 .. Len(s) : s[j] \in 0 .. ByteMax
    BY <2>1
  <2>3. s[1] \in 0 .. ByteMax /\ s[2] \in 0 .. ByteMax /\ (Len(s) = 3 => s[3] \in 0 .. ByteMax)
    BY <2>1, <2>2
  <2>4. third(s) \in Nat
    BY <2>1, <2>3
  <2>5. s[1] \in 0 .. ByteMax + 1 /\ s[2] \in 0 .. ByteMax + 1
    BY <2>1, <2>3
  <2>6. Numbered(s) = s[1] + (ByteMax + 2) * rest(s)
    BY DEF Numbered
  <2> HIDE DEF third
  <2>7. rest(s) \in Int
    BY <2>1, <2>4, <2>5
  <2> QED
    BY <2>1, <2>4, <2>5, <2>6, <2>7
<1>2. ByteMax + 2 \in Nat /\ ByteMax + 1 = (ByteMax + 2) - 1
  BY ByteMaxIs
<1>3. Numbered(g) \in Int
  <2>1. g[1] \in Int /\ rest(g) \in Int
    BY <1>1, <1>2
  <2> HIDE DEF rest
  <2> QED
    BY <1>1, <1>2, <2>1
<1>4. ASSUME Numbered(g) = Numbered(h) PROVE g = h
  <2> DEFINE d == ByteMax + 2
  <2>1. /\ g[1] \in 0 .. d - 1 /\ h[1] \in 0 .. d - 1 /\ g[2] \in 0 .. d - 1 /\ h[2] \in 0 .. d - 1
        /\ rest(g) \in Int /\ rest(h) \in Int /\ third(g) \in Int /\ third(h) \in Int /\ d \in Nat
    BY <1>1, <1>2
  <2>2. g[1] + d * rest(g) = h[1] + d * rest(h)
    BY <1>1, <1>4
  <2>3. rest(g) = g[2] + d * third(g) /\ rest(h) = h[2] + d * third(h)
    OBVIOUS
  <2> HIDE DEF d, rest
  <2>5. g[1] = h[1] /\ rest(g) = rest(h)
    <3>1. PICK x, y, b, c : x = g[1] /\ y = h[1] /\ b = rest(g) /\ c = rest(h)
      OBVIOUS
    <3>2. x \in 0 .. d - 1 /\ y \in 0 .. d - 1 /\ b \in Int /\ c \in Int /\ x + d * b = y + d * c
      BY <2>1, <2>2, <3>1
    <3>3. x = y /\ b = c
      BY <2>1, <3>2, DigitsApart
    <3> QED
      BY <3>1, <3>3
  <2>6. g[2] = h[2] /\ third(g) = third(h)
    <3> HIDE DEF third
    <3>1. g[2] + d * third(g) = h[2] + d * third(h)
      BY <2>3, <2>5
    <3> QED
      <4>1. PICK x, y, b, c : x = g[2] /\ y = h[2] /\ b = third(g) /\ c = third(h)
        OBVIOUS
      <4>2. x \in 0 .. d - 1 /\ y \in 0 .. d - 1 /\ b \in Int /\ c \in Int /\ x + d * b = y + d * c
        BY <2>1, <3>1, <4>1
      <4>3. x = y /\ b = c
        BY <2>1, <4>2, DigitsApart
      <4> QED
        BY <4>1, <4>3
  <2>7. Len(g) = Len(h) /\ (Len(g) = 3 => g[3] = h[3])
    <3>1. ASSUME NEW s \in Symbols, Len(s) = 3 PROVE s[3] \in Int /\ s[3] >= 0 /\ third(s) = s[3] + 1
      <4>1. s \in Seq(0 .. ByteMax) /\ ByteMax \in Nat
        BY ByteMaxIs DEF Symbols
      <4>2. s[3] \in 0 .. ByteMax
        <5>1. \A j \in 1 .. Len(s) : s[j] \in 0 .. ByteMax
          BY <4>1
        <5>2. 3 \in 1 .. Len(s)
          BY <3>1
        <5> QED
          BY <5>1, <5>2
      <4>3. third(s) = s[3] + 1
        BY <3>1
      <4> HIDE DEF third
      <4> QED
        BY <4>1, <4>2, <4>3
    <3>2. \A s \in Symbols : Len(s) # 3 => third(s) = 0
      OBVIOUS
    <3>3. Len(g) \in {2, 3} /\ Len(h) \in {2, 3}
      BY <1>1
    <3> HIDE DEF third
    <3> QED
      BY <2>6, <3>1, <3>2, <3>3
  <2>8. g \in Seq(0 .. ByteMax) /\ h \in Seq(0 .. ByteMax) /\ Len(g) \in {2, 3}
    BY <1>1
  <2> HIDE DEF third
  <2>9. \A j \in 1 .. Len(g) : g[j] = h[j]
    <3> TAKE j \in 1 .. Len(g)
    <3>1. j = 1 \/ j = 2 \/ (j = 3 /\ Len(g) = 3)
      <4>1. CASE Len(g) = 2
        BY <4>1
      <4>2. CASE Len(g) = 3
        BY <4>2
      <4> QED
        BY <2>8, <4>1, <4>2
    <3> QED
      BY <2>5, <2>6, <2>7, <3>1
  <2> QED
    BY <2>7, <2>8, <2>9, SameSequence
<1> QED
  BY <1>3, <1>4

\* A string of bytes.
Bytes == Seq(0 .. ByteMax)

\* A part of a sequence, which may be empty.
LEMMA PartIs ==
  ASSUME NEW S, NEW s \in Seq(S), NEW a \in Nat \ {0}, NEW b \in Nat, b <= Len(s), a <= b + 1
  PROVE  /\ SubSeq(s, a, b) \in Seq(S) /\ Len(SubSeq(s, a, b)) = b - a + 1 /\ b - a + 1 \in Nat
         /\ \A k \in 1 .. b - a + 1 : SubSeq(s, a, b)[k] = s[a + k - 1]
<1>1. \A k \in a .. b : k \in 1 .. Len(s) /\ s[k] \in S
  OBVIOUS
<1>2. CASE a = b + 1
  BY <1>2
<1>3. CASE a <= b
  BY <1>1, <1>3
<1> QED
  BY <1>2, <1>3

\* The candidates are finitely many symbols.
LEMMA CandidatesAre ==
  ASSUME NEW data \in Bytes
  PROVE  Candidates(data) \in SUBSET Symbols /\ IsFiniteSet(Candidates(data))
<1>1. ASSUME NEW n \in {2, 3}
      PROVE  Grams(data, n) \in SUBSET Symbols /\ IsFiniteSet(Grams(data, n))
  <2> DEFINE m == Len(data) - n + 1
             f == [i \in 1 .. m |-> SubSeq(data, i, i + n - 1)]
  <2>1. data \in Seq(0 .. ByteMax) /\ Len(data) \in Nat /\ n \in Nat /\ m \in Int
    BY DEF Bytes
  <2>2. ASSUME NEW i \in 1 .. m PROVE SubSeq(data, i, i + n - 1) \in Symbols
    <3>1. i \in 1 .. Len(data) /\ i + n - 1 \in 1 .. Len(data) /\ i <= i + n - 1
      BY <2>1
    <3>2. /\ SubSeq(data, i, i + n - 1) \in Seq(0 .. ByteMax)
          /\ Len(SubSeq(data, i, i + n - 1)) = n
      <4>1. PICK b : b = i + n - 1
        OBVIOUS
      <4>2. i \in Nat \ {0} /\ b \in Nat /\ b <= Len(data) /\ i <= b + 1 /\ b - i + 1 = n
        BY <2>1, <3>1, <4>1
      <4>3. SubSeq(data, i, b) \in Seq(0 .. ByteMax) /\ Len(SubSeq(data, i, b)) = b - i + 1
        <5>1. \A S : data \in Seq(S) => SubSeq(data, i, b) \in Seq(S)
                                         /\ Len(SubSeq(data, i, b)) = b - i + 1
          BY <4>2, PartIs
        <5> QED
          BY <2>1, <5>1
      <4> QED
        BY <4>1, <4>2, <4>3
    <3> QED
      BY <3>2 DEF Symbols
  <2>3. Grams(data, n) = {f[i] : i \in 1 .. m}
    BY DEF Grams
  <2>4. f \in Surjection(1 .. m, Grams(data, n))
    <3>1. f \in [1 .. m -> Grams(data, n)] /\ \A g \in Grams(data, n) : \E i \in 1 .. m : f[i] = g
      <4>1. f = [i \in 1 .. m |-> f[i]]
        OBVIOUS
      <4> HIDE DEF f, m
      <4> QED
        BY <2>3, <4>1
    <3> HIDE DEF f, m
    <3> QED
      BY <3>1 DEF Surjection
  <2>5. IsFiniteSet(1 .. m)
    <3>1. 1 \in Int
      OBVIOUS
    <3> HIDE DEF m
    <3> QED
      BY <2>1, <3>1, FS_Interval
  <2>6. IsFiniteSet(Grams(data, n))
    <3> HIDE DEF f, m
    <3> QED
      BY <2>4, <2>5, FS_Surjection
  <2> QED
    BY <2>2, <2>6 DEF Grams
<1> DEFINE two == {g \in Grams(data, 2) : CountOf(data, g) >= BigramCount}
           three == {g \in Grams(data, 3) : CountOf(data, g) >= TrigramCount}
<1>2. two \in SUBSET Grams(data, 2) /\ three \in SUBSET Grams(data, 3)
  OBVIOUS
<1>3. Candidates(data) = two \cup three
  BY DEF Candidates
<1> HIDE DEF two, three
<1>4. IsFiniteSet(two) /\ IsFiniteSet(three)
  BY <1>1, <1>2, FS_Subset
<1>5. IsFiniteSet(two \cup three)
  BY <1>4, FS_Union
<1> QED
  BY <1>1, <1>2, <1>3, <1>5

\* What is ranked before what.
Before(data) == {p \in Symbols \X Symbols : RankedBefore(data, p[1], p[2])}

\* What a symbol saves is a number.
LEMMA SavingsAre ==
  ASSUME NEW data \in Bytes, NEW g \in Symbols
  PROVE  Savings(data, g) \in Int
<1> DEFINE m == Len(data) - Len(g) + 1
           places == {i \in 1 .. m : SubSeq(data, i, i + Len(g) - 1) = g}
<1>1. Len(data) \in Nat /\ Len(g) \in Nat /\ m \in Int
  <2>1. data \in Seq(0 .. ByteMax) /\ g \in Seq(0 .. ByteMax)
    BY DEF Bytes, Symbols
  <2> QED
    BY <2>1
<1>2. places \in SUBSET (1 .. m) /\ 1 \in Int
  OBVIOUS
<1>3. CountOf(data, g) = Cardinality(places)
  BY DEF CountOf
<1> HIDE DEF places, m
<1>4. IsFiniteSet(1 .. m)
  BY <1>1, <1>2, FS_Interval
<1>5. IsFiniteSet(places)
  BY <1>2, <1>4, FS_Subset
<1>6. CountOf(data, g) \in Nat
  BY <1>3, <1>5, FS_CardinalityType
<1> QED
  BY <1>1, <1>6 DEF Savings

\* It ranks any symbols.
LEMMA SymbolsAreRanked ==
  ASSUME NEW data \in Bytes, NEW S \in SUBSET Symbols
  PROVE  /\ Ranks(Before(data), S)
         /\ \A g, h \in S : <<g, h>> \in Before(data) <=> RankedBefore(data, g, h)
<1> DEFINE saves(g) == Savings(data, g)
<1>1. \A g \in S : saves(g) \in Int /\ Numbered(g) \in Int
  <2> TAKE g \in S
  <2>1. g \in Symbols
    OBVIOUS
  <2> QED
    BY <2>1, SavingsAre, NumberedApart
<1>2. \A g, h \in S : Numbered(g) = Numbered(h) => g = h
  <2> TAKE g \in S, h \in S
  <2>1. g \in Symbols /\ h \in Symbols
    OBVIOUS
  <2> QED
    BY <2>1, NumberedApart
<1>3. \A g, h \in S : <<g, h>> \in Before(data) <=> RankedBefore(data, g, h)
  BY DEF Before
<1>4. \A g, h \in S : RankedBefore(data, g, h)
        <=> saves(g) > saves(h) \/ (saves(g) = saves(h) /\ Numbered(g) < Numbered(h))
  BY DEF RankedBefore
<1> HIDE DEF saves
<1>5. \A g \in S : ~RankedBefore(data, g, g)
  BY <1>1, <1>4
<1>6. \A g, h, i \in S : RankedBefore(data, g, h) /\ RankedBefore(data, h, i)
                           => RankedBefore(data, g, i)
  BY <1>1, <1>4
<1>7. \A g, h \in S : g # h => RankedBefore(data, g, h) \/ RankedBefore(data, h, g)
  BY <1>1, <1>2, <1>4
<1> QED
  BY <1>3, <1>5, <1>6, <1>7 DEF Ranks

\* A table that was trained, if only on no data.
Learned(table) ==
  /\ TableOK(table) /\ table.phantom = <<>>
  /\ table.built \/ table.symbols = <<>>

\* The least of two numbers.
LEMMA SmallerIs ==
  ASSUME NEW a \in Nat, NEW b \in Nat
  PROVE  Smaller(a, b) \in Nat /\ Smaller(a, b) <= a /\ Smaller(a, b) <= b
BY DEF Smaller

\* So is every table of train: its symbols are candidates.
LEMMA TrainedTables ==
  ASSUME NEW data \in Bytes
  PROVE  Learned(Train(data)) /\ Train(data).symbols \in Seq(Symbols)
<1>1. MaxSymbols \in Nat /\ MaxSymbols <= Escape /\ SampleBytes \in Nat /\ Escape \in Nat
  <2>1. MaxSymbols \in 0 .. Escape /\ SampleBytes \in Nat
    BY SymbolsAssumption
  <2> QED
    BY <2>1, ByteMaxIs
<1>2. CASE data = <<>>
  <2>1. Train(data) = [symbols |-> <<>>, built |-> FALSE, phantom |-> <<>>]
    BY <1>2 DEF Train, Untrained
  <2>2. <<>> \in Seq(Seq(Nat)) /\ Len(<<>>) = 0 /\ DOMAIN <<>> = {}
    BY SMT
  <2>3. <<>> \in Seq(Symbols)
    OBVIOUS
  <2> QED
    BY <1>1, <2>1, <2>2, <2>3 DEF Learned, TableOK
<1>3. CASE data # <<>>
  <2> DEFINE sample == SubSeq(data, 1, Smaller(Len(data), SampleBytes))
             S == Candidates(sample)
             n == TableSize(Cardinality(S))
             symbols == Ranked(sample, S)
  <2>1. sample \in Bytes
    <3>1. data \in Seq(0 .. ByteMax) /\ Len(data) \in Nat
      BY DEF Bytes
    <3>2. Smaller(Len(data), SampleBytes) \in Nat /\ Smaller(Len(data), SampleBytes) <= Len(data)
      BY <1>1, <3>1, SmallerIs
    <3> QED
      <4>1. PICK b : b = Smaller(Len(data), SampleBytes)
        OBVIOUS
      <4>2. 1 \in Nat \ {0} /\ b \in Nat /\ b <= Len(data) /\ 1 <= b + 1
        BY <3>2, <4>1
      <4> QED
        BY <3>1, <4>1, <4>2, PartIs DEF Bytes
  <2>2. Train(data) = [symbols |-> symbols, built |-> TRUE, phantom |-> <<>>]
    BY <1>3 DEF Train, Trained
  <2> HIDE DEF sample
  <2>3. S \in SUBSET Symbols /\ IsFiniteSet(S) /\ Cardinality(S) \in Nat
    BY <2>1, CandidatesAre, FS_CardinalityType
  <2> HIDE DEF S
  <2>4. n \in Nat /\ n <= Cardinality(S) /\ n <= Escape
    <3>1. n \in Nat /\ n <= Cardinality(S) /\ n <= MaxSymbols
      BY <1>1, <2>3, SmallerIs DEF TableSize
    <3> HIDE DEF n
    <3> QED
      BY <1>1, <3>1
  <2>5. symbols = [k \in 1 .. n |->
                     CHOOSE g \in S : Cardinality({h \in S : RankedBefore(sample, h, g)}) = k - 1]
    BY DEF Ranked
  <2> HIDE DEF n, symbols
  <2>6. ASSUME NEW k \in 1 .. n PROVE symbols[k] \in S
    <3>1. /\ Ranks(Before(sample), S)
          /\ \A g, h \in S : <<g, h>> \in Before(sample) <=> RankedBefore(sample, g, h)
      BY <2>1, <2>3, SymbolsAreRanked
    <3>2. k \in 1 .. Cardinality(S)
      BY <2>3, <2>4
    <3>3. PICK g \in S : Cardinality({h \in S : <<h, g>> \in Before(sample)}) = k - 1
      <4>1. \A before : Ranks(before, S) =>
              \E g \in S : Cardinality({h \in S : <<h, g>> \in before}) = k - 1
        BY <2>3, <3>2, RankedElement
      <4> QED
        BY <3>1, <4>1
    <3>4. {h \in S : <<h, g>> \in Before(sample)} = {h \in S : RankedBefore(sample, h, g)}
      BY <3>1
    <3>5. \E e \in S : Cardinality({h \in S : RankedBefore(sample, h, e)}) = k - 1
      BY <3>3, <3>4
    <3> QED
      BY <2>5, <3>5
  <2>7. /\ symbols \in [1 .. n -> Seq(Nat)] /\ symbols \in [1 .. n -> Symbols]
        /\ \A k \in 1 .. n : Len(symbols[k]) \in {2, 3}
    <3>1. Symbols \in SUBSET Seq(Nat) /\ \A g \in Symbols : Len(g) \in {2, 3}
      <4>1. ASSUME NEW g \in Symbols PROVE g \in Seq(Nat) /\ Len(g) \in {2, 3}
        <5>1. g \in Seq(0 .. ByteMax) /\ Len(g) \in {2, 3}
          BY DEF Symbols
        <5> QED
          BY <5>1, ByteMaxIs
      <4> QED
        BY <4>1
    <3>2. \A k \in 1 .. n : /\ symbols[k] \in Seq(Nat) /\ Len(symbols[k]) \in {2, 3}
                            /\ symbols[k] \in Symbols
      BY <2>3, <2>6, <3>1
    <3>3. symbols = [k \in 1 .. n |-> symbols[k]]
      <4> DEFINE e(k) == CHOOSE g \in S : Cardinality({h \in S : RankedBefore(sample, h, g)}) = k - 1
      <4>1. symbols = [k \in 1 .. n |-> e(k)]
        BY <2>5
      <4> HIDE DEF e
      <4> QED
        BY <4>1
    <3> QED
      BY <3>2, <3>3
  <2>8. /\ symbols \in Seq(Seq(Nat)) /\ Len(symbols) = n /\ DOMAIN symbols = 1 .. n
        /\ symbols \in Seq(Symbols)
    BY <2>4, <2>7
  <2>9. TableOK(Train(data))
    BY <2>2, <2>4, <2>7, <2>8 DEF TableOK
  <2> QED
    BY <2>2, <2>8, <2>9 DEF Learned
<1> QED
  BY <1>2, <1>3

-----------------------------------------------------------------------------
(* What compress writes, decompress reads.                                 *)

\* Where compress stands: the next position, and the codes so far.
Coders == [next : Nat, codes : Seq(Nat)]
Begin == [next |-> 1, codes |-> <<>>]

\* A table finds nothing but its symbols in such an input: what it lists beyond
\* them begins with a zero byte, and the input has none.
Safe(table, input) ==
  table.phantom = <<>> \/ \A k \in DOMAIN input : input[k] # 0

\* A round skips a position inside of a symbol, writes a symbol, or escapes.
Adds(table, input, i, before, after) ==
  \/ after = before /\ i < before.next
  \/ /\ before.next <= i
     /\ \E m \in Nat : /\ m < Len(table.symbols)
                       /\ after.codes = before.codes \o <<m>>
                       /\ after.next \in i + 1 .. Len(input) + 1
                       /\ table.symbols[m + 1] = SubSeq(input, i, after.next - 1)
  \/ /\ before.next <= i /\ after.next = i + 1
     /\ after.codes = before.codes \o <<Escape, input[i]>>

\* The least code at a position is that of the bytes there.
LEMMA CodesAre ==
  ASSUME NEW table, TableOK(table), NEW input \in Seq(Nat), Safe(table, input),
         NEW i \in 1 .. Len(input), NEW n \in {2, 3}, CodesAt(table, input, i, n) # {}
  PROVE  /\ Min(CodesAt(table, input, i, n)) \in Nat
         /\ Min(CodesAt(table, input, i, n)) < Len(table.symbols)
         /\ i + n - 1 <= Len(input)
         /\ table.symbols[Min(CodesAt(table, input, i, n)) + 1] = SubSeq(input, i, i + n - 1)
<1> DEFINE here(symbol) == Len(symbol) = n /\ i + n - 1 <= Len(input)
                             /\ SubSeq(input, i, i + n - 1) = symbol
           C == CodesAt(table, input, i, n)
<1>1. ~here(table.phantom)
  <2> SUFFICES ASSUME here(table.phantom) PROVE FALSE
    OBVIOUS
  <2>1. PICK b : b = i + n - 1
    OBVIOUS
  <2>2. /\ i \in Nat \ {0} /\ b \in Nat /\ b <= Len(input) /\ i <= b + 1 /\ b - i + 1 = n
        /\ SubSeq(input, i, b) = table.phantom /\ Len(table.phantom) = n
    BY <2>1
  <2>3. \A k \in 1 .. b - i + 1 : SubSeq(input, i, b)[k] = input[i + k - 1]
    BY <2>2, PartIs
  <2>4. 1 \in 1 .. b - i + 1 /\ i + 1 - 1 = i
    BY <2>2
  <2>5. table.phantom[1] = input[i]
    BY <2>2, <2>3, <2>4
  <2>6. table.phantom # <<>>
    BY <2>2
  <2> QED
    BY <2>5, <2>6 DEF Safe, TableOK
<1>2. C = {s - 1 : s \in {k \in DOMAIN table.symbols : here(table.symbols[k])}}
  BY <1>1 DEF CodesAt
<1>3. table.symbols \in Seq(Seq(Nat)) /\ Len(table.symbols) \in Nat
      /\ DOMAIN table.symbols = 1 .. Len(table.symbols)
  BY DEF TableOK
<1>4. \A m \in C : m \in 0 .. Len(table.symbols) /\ m + 1 \in 1 .. Len(table.symbols)
                     /\ here(table.symbols[m + 1])
  <2> HIDE DEF here, C
  <2> TAKE m \in C
  <2>1. PICK s \in DOMAIN table.symbols : here(table.symbols[s]) /\ m = s - 1
    BY <1>2
  <2>2. s \in 1 .. Len(table.symbols) /\ m + 1 = s
    BY <1>3, <2>1
  <2>3. m \in 0 .. Len(table.symbols)
    <3>1. PICK l : l = Len(table.symbols)
      OBVIOUS
    <3>2. l \in Nat
      BY <1>3, <3>1
    <3>3. s \in 1 .. l /\ m = s - 1
      BY <2>1, <2>2, <3>1
    <3>4. m \in 0 .. l
      BY <3>2, <3>3
    <3> QED
      BY <3>1, <3>4
  <2>4. here(table.symbols[m + 1])
    BY <2>1, <2>2
  <2> QED
    BY <2>2, <2>3, <2>4
<1> HIDE DEF here
<1>5. Min(C) \in C
  <2>1. C \in SUBSET (0 .. Len(table.symbols)) /\ C # {} /\ 0 \in Int /\ Len(table.symbols) \in Int
    BY <1>3, <1>4
  <2> HIDE DEF C
  <2> QED
    BY <2>1, ExtremesExist
<1> DEFINE m == Min(C)
<1>6. m \in 0 .. Len(table.symbols) /\ m + 1 \in 1 .. Len(table.symbols) /\ here(table.symbols[m + 1])
  BY <1>4, <1>5
<1> HIDE DEF m, C
<1>7. m \in Nat /\ m < Len(table.symbols)
  BY <1>3, <1>6
<1> QED
  BY <1>6, <1>7 DEF m, C, here

\* A round of compress does one of these.
LEMMA EncodedIs ==
  ASSUME NEW table, TableOK(table), NEW input \in Seq(Nat), Safe(table, input),
         NEW i \in 1 .. Len(input), NEW state \in Coders
  PROVE  /\ Encoded(table, input, i, state) \in Coders
         /\ Adds(table, input, i, state, Encoded(table, input, i, state))
<1> DEFINE after == Encoded(table, input, i, state)
           three == CodesAt(table, input, i, 3)
           two == CodesAt(table, input, i, 2)
           emit(codes, n) == [next |-> i + n, codes |-> state.codes \o codes]
<1>1. state.next \in Nat /\ state.codes \in Seq(Nat) /\ i \in Nat /\ input[i] \in Nat
      /\ Len(input) \in Nat /\ i <= Len(input) /\ Escape \in Nat
  BY ByteMaxIs DEF Coders
<1>2. ASSUME NEW codes \in Seq(Nat), NEW n \in Nat
      PROVE  /\ emit(codes, n) \in Coders
             /\ emit(codes, n).next = i + n /\ emit(codes, n).codes = state.codes \o codes
  <2>1. state.codes \o codes \in Seq(Nat) /\ i + n \in Nat
    BY <1>1
  <2> QED
    BY <2>1 DEF Coders
<1>3. ASSUME NEW n \in {2, 3}, CodesAt(table, input, i, n) # {}, state.next <= i, NEW a,
             a = emit(<<Min(CodesAt(table, input, i, n))>>, n)
      PROVE  a \in Coders /\ Adds(table, input, i, state, a)
  <2>1. PICK m : m = Min(CodesAt(table, input, i, n))
    OBVIOUS
  <2>2. m \in Nat /\ m < Len(table.symbols) /\ i + n - 1 <= Len(input)
        /\ table.symbols[m + 1] = SubSeq(input, i, i + n - 1)
    BY <1>3, <2>1, CodesAre
  <2>3. <<m>> \in Seq(Nat) /\ n \in Nat /\ n >= 1
    BY <2>2
  <2>4. a = emit(<<m>>, n)
    BY <1>3, <2>1
  <2>5. a \in Coders /\ a.next = i + n /\ a.codes = state.codes \o <<m>>
    BY <1>2, <2>3, <2>4
  <2>6. a.next \in i + 1 .. Len(input) + 1 /\ a.next - 1 = i + n - 1
    <3>1. PICK l, x : l = Len(input) /\ x = a.next
      OBVIOUS
    <3>2. l \in Nat /\ i + n - 1 <= l /\ x = i + n /\ i \in Nat /\ n \in Nat /\ n >= 1
      BY <1>1, <2>2, <2>3, <2>5, <3>1
    <3>3. x \in i + 1 .. l + 1 /\ x - 1 = i + n - 1
      BY <3>2
    <3> QED
      BY <3>1, <3>3
  <2>7. table.symbols[m + 1] = SubSeq(input, i, a.next - 1)
    BY <2>2, <2>6
  <2> QED
    BY <1>3, <2>2, <2>5, <2>6, <2>7, Zenon DEF Adds
<1>4. CASE i < state.next
  BY <1>4 DEF Encoded, Adds
<1>5. CASE ~(i < state.next) /\ three # {}
  <2>1. state.next <= i
    BY <1>1, <1>5
  <2>2. after = emit(<<Min(three)>>, 3)
    BY <1>5 DEF Encoded
  <2>3. \A a : a = emit(<<Min(three)>>, 3) => a \in Coders /\ Adds(table, input, i, state, a)
    <3> HIDE DEF emit
    <3> QED
      BY <1>3, <1>5, <2>1
  <2> QED
    BY <2>2, <2>3, Zenon
<1>6. CASE ~(i < state.next) /\ three = {} /\ two # {}
  <2>1. state.next <= i
    BY <1>1, <1>6
  <2>2. after = emit(<<Min(two)>>, 2)
    BY <1>6 DEF Encoded
  <2>3. \A a : a = emit(<<Min(two)>>, 2) => a \in Coders /\ Adds(table, input, i, state, a)
    <3> HIDE DEF emit
    <3> QED
      BY <1>3, <1>6, <2>1
  <2> QED
    BY <2>2, <2>3, Zenon
<1>7. CASE ~(i < state.next) /\ three = {} /\ two = {}
  <2>1. state.next <= i
    BY <1>1, <1>7
  <2>2. after = emit(<<Escape, input[i]>>, 1)
    BY <1>7 DEF Encoded
  <2>3. <<Escape, input[i]>> \in Seq(Nat) /\ 1 \in Nat
    BY <1>1
  <2>4. /\ after \in Coders /\ after.next = i + 1
        /\ after.codes = state.codes \o <<Escape, input[i]>>
    BY <1>2, <2>2, <2>3
  <2> HIDE DEF after
  <2>5. Adds(table, input, i, state, after)
    BY <2>1, <2>4, Zenon DEF Adds
  <2> QED
    BY <2>4, <2>5 DEF after
<1> QED
  BY <1>4, <1>5, <1>6, <1>7

\* The states of compress: one for each position passed.
Encodes(state, table, input) ==
  /\ state[0] = Begin
  /\ \A k \in 1 .. Len(input) : state[k] = Encoded(table, input, k, state[k - 1])

\* The codes written are those of the last of them.
LEMMA CompressSteps ==
  ASSUME NEW table, TableOK(table), NEW input \in Seq(Nat), Safe(table, input)
  PROVE  \E state \in [0 .. Len(input) -> Coders] :
           Encodes(state, table, input) /\ Compress(table, input) = state[Len(input)].codes
<1> DEFINE n == Len(input)
           at == Positions(input)
           S == 1 .. n
           f == [p \in S \X Coders |-> Encoded(table, input, at[p[1]], p[2])]
           step(g, s) == IF s = {} THEN Begin
                         ELSE Encoded(table, input, at[Seqs!Max(s)], g[s \ {Seqs!Max(s)}])
           h == CHOOSE g : g = [s \in SUBSET S |-> step(g, s)]
           state == [k \in 0 .. n |-> h[1 .. k]]
<1>1. n \in Nat /\ DOMAIN at = S /\ \A k \in S : at[k] = k
  BY DEF Positions
<1>2. Compress(table, input) = h[S].codes
  BY <1>1 DEF Compress, Seqs!FoldLeft, Seqs!MapThenFoldSet, Begin
<1>4. Begin \in Coders
  BY DEF Begin, Coders
<1>5. f \in [S \X Coders -> Coders]
  <2>1. \A k \in S, o \in Coders : Encoded(table, input, at[k], o) \in Coders
    BY <1>1, EncodedIs
  <2> HIDE DEF S
  <2> QED
    BY <2>1
<1>6. PICK g \in [SUBSET S -> Coders] : LeftFold(g, n, Coders, Begin, f)
  <2>1. f \in [(1 .. n) \X Coders -> Coders]
    BY <1>5
  <2> HIDE DEF f, n
  <2> QED
    BY <1>1, <1>4, <2>1, FoldOfSequence
<1>8. \A s \in SUBSET S : g[s] = step(g, s)
  <2> TAKE s \in SUBSET S
  <2>1. CASE s = {}
    BY <1>6, <2>1 DEF LeftFold
  <2>2. CASE s # {}
    <3> DEFINE x == Seqs!Max(s)
    <3>1. x \in S /\ g[s \ {x}] \in Coders /\ g[s] = f[<<x, g[s \ {x}]>>]
      <4> HIDE DEF f
      <4> QED
        BY <1>6, <2>2 DEF LeftFold
    <3> HIDE DEF x
    <3>2. g[s] = Encoded(table, input, at[x], g[s \ {x}])
      <4> HIDE DEF S
      <4> QED
        BY <3>1
    <3> QED
      BY <2>2, <3>2 DEF x
  <2> QED
    BY <2>1, <2>2
<1>9. h = [s \in SUBSET S |-> step(h, s)]
  <2>1. g = [s \in SUBSET S |-> g[s]]
    BY <1>6
  <2>2. g = [s \in SUBSET S |-> step(g, s)]
    BY <1>8, <2>1
  <2> QED
    BY <2>2
<1> HIDE DEF h
<1>10. h[{}] = Begin
  BY <1>9
<1>11. ASSUME NEW k \in 1 .. n
       PROVE  h[1 .. k] = Encoded(table, input, k, h[1 .. k - 1])
  <2>1. Seqs!Max(1 .. k) = k /\ (1 .. k) \ {k} = 1 .. k - 1 /\ 1 .. k \in SUBSET S
    BY <1>1, GreatestIs
  <2>2. 1 .. k # {}
    <3>1. k \in Nat /\ 1 <= k
      BY <1>1
    <3>2. k \in 1 .. k
      BY <3>1
    <3> QED
      BY <3>2
  <2>3. h[1 .. k] = step(h, 1 .. k)
    BY <1>9, <2>1
  <2>4. at[k] = k
    BY <1>1
  <2> HIDE DEF at
  <2> QED
    BY <2>1, <2>2, <2>3, <2>4
<1>12. 1 .. 0 = {} /\ \A k \in 1 .. n : k \in 0 .. n /\ k - 1 \in 0 .. n
  BY <1>1
<1>13. Encodes(state, table, input)
  <2>1. state[0] = Begin
    BY <1>1, <1>10, <1>12
  <2>2. \A k \in 1 .. n : state[k] = h[1 .. k] /\ state[k - 1] = h[1 .. k - 1]
    BY <1>12
  <2> HIDE DEF state
  <2> QED
    BY <1>11, <2>1, <2>2 DEF Encodes
<1>14. state \in [0 .. n -> Coders]
  <2> DEFINE bad == {k \in Nat : k \in 0 .. n /\ state[k] \notin Coders}
  <2>1. ASSUME bad # {} PROVE FALSE
    <3>1. PICK k \in bad : \A m \in bad : k <= m
      BY <2>1, LeastElement
    <3>2. k \in Nat /\ k \in 0 .. n /\ state[k] \notin Coders
      BY <3>1
    <3>3. CASE k = 0
      BY <1>4, <1>13, <3>2, <3>3 DEF Encodes
    <3>4. CASE k # 0
      <4>1. k - 1 \in Nat /\ k - 1 < k /\ k - 1 \in 0 .. n /\ k \in 1 .. n
        BY <1>1, <3>2, <3>4
      <4>2. state[k - 1] \in Coders
        <5>1. k - 1 \notin bad
          <6> HIDE DEF bad
          <6> QED
            BY <3>1, <3>2, <4>1
        <5> QED
          BY <4>1, <5>1
      <4> HIDE DEF state
      <4>3. state[k] = Encoded(table, input, k, state[k - 1])
        BY <1>13, <4>1 DEF Encodes
      <4> QED
        BY <1>1, <3>2, <4>1, <4>2, <4>3, EncodedIs
    <3> QED
      BY <3>3, <3>4
  <2>2. \A k \in 0 .. n : state[k] \in Coders
    <3> HIDE DEF state
    <3> QED
      BY <2>1
  <2>3. state = [k \in 0 .. n |-> state[k]]
    OBVIOUS
  <2> HIDE DEF state
  <2> QED
    BY <2>2, <2>3
<1>15. Compress(table, input) = state[n].codes
  BY <1>1, <1>2
<1> QED
  BY <1>13, <1>14, <1>15

\* A part and the part behind it.
LEMMA SubSeqJoins ==
  ASSUME NEW S, NEW s \in Seq(S), NEW i \in 1 .. Len(s), NEW j \in i .. Len(s)
  PROVE  SubSeq(s, 1, i - 1) \o SubSeq(s, i, j) = SubSeq(s, 1, j)
<1> DEFINE a == SubSeq(s, 1, i - 1)
           b == SubSeq(s, i, j)
           c == SubSeq(s, 1, j)
<1>1. Len(s) \in Nat /\ i \in Nat \ {0} /\ j \in Nat \ {0} /\ i <= Len(s) /\ j <= Len(s) /\ i <= j
  OBVIOUS
<1>2. a \in Seq(S) /\ Len(a) = i - 1 /\ \A k \in 1 .. i - 1 : a[k] = s[k]
  <2>1. 1 \in Nat \ {0} /\ i - 1 \in Nat /\ i - 1 <= Len(s) /\ 1 <= (i - 1) + 1
    BY <1>1
  <2>2. /\ a \in Seq(S) /\ Len(a) = (i - 1) - 1 + 1
        /\ \A k \in 1 .. (i - 1) - 1 + 1 : a[k] = s[1 + k - 1]
    <3> HIDE DEF a
    <3> QED
      BY <2>1, PartIs DEF a
  <2> HIDE DEF a
  <2> QED
    BY <1>1, <2>2
<1>3. c \in Seq(S) /\ Len(c) = j /\ \A k \in 1 .. j : c[k] = s[k]
  <2>1. 1 \in Nat \ {0} /\ j \in Nat /\ j <= Len(s) /\ 1 <= j + 1
    BY <1>1
  <2>2. /\ c \in Seq(S) /\ Len(c) = j - 1 + 1
        /\ \A k \in 1 .. j - 1 + 1 : c[k] = s[1 + k - 1]
    BY <2>1, PartIs
  <2> HIDE DEF c
  <2> QED
    BY <1>1, <2>2
<1>4. b \in Seq(S) /\ Len(b) = j - i + 1 /\ \A k \in 1 .. j - i + 1 : b[k] = s[i + k - 1]
  BY <1>1, PartIs
<1> HIDE DEF a, b, c
<1>5. /\ a \o b \in Seq(S) /\ Len(a \o b) = Len(a) + Len(b)
      /\ \A k \in 1 .. Len(a) : (a \o b)[k] = a[k]
      /\ \A k \in 1 .. Len(b) : (a \o b)[Len(a) + k] = b[k]
  <2>1. \A x, y \in Seq(S) : /\ x \o y \in Seq(S) /\ Len(x \o y) = Len(x) + Len(y)
                             /\ \A k \in 1 .. Len(x) : (x \o y)[k] = x[k]
                             /\ \A k \in 1 .. Len(y) : (x \o y)[Len(x) + k] = y[k]
    BY SequenceParts
  <2> QED
    BY <1>2, <1>4, <2>1
<1>6. Len(a \o b) = j
  BY <1>1, <1>2, <1>4, <1>5
<1>7. \A k \in 1 .. j : (a \o b)[k] = c[k]
  <2> TAKE k \in 1 .. j
  <2>1. CASE k <= i - 1
    <3>1. k \in 1 .. i - 1
      BY <1>1, <2>1
    <3> QED
      BY <1>2, <1>3, <1>5, <3>1
  <2>2. CASE k > i - 1
    <3>1. PICK l : l = k - (i - 1)
      OBVIOUS
    <3>2. l \in 1 .. j - i + 1 /\ k = (i - 1) + l /\ k = i + l - 1
      BY <1>1, <2>2, <3>1
    <3>3. (a \o b)[Len(a) + l] = b[l]
      BY <1>4, <1>5, <3>2
    <3> QED
      BY <1>2, <1>3, <1>4, <3>2, <3>3
  <2>3. k <= i - 1 \/ k > i - 1
    BY <1>1
  <2> QED
    BY <2>1, <2>2, <2>3, Zenon
<1>8. a \o b = c
  BY <1>3, <1>5, <1>6, <1>7, SameSequence
<1> QED
  BY <1>8 DEF a, b, c

\* The codes c are the first of the codes d.
Begins(c, d) == Len(c) <= Len(d) /\ \A j \in 1 .. Len(c) : d[j] = c[j]

\* The codes written up to a position decode to the bytes before it.
Decoding(state, input, coder) ==
  /\ coder.next \in 1 .. Len(input) + 1
  /\ state[Len(coder.codes)] = [escaped |-> FALSE, output |-> SubSeq(input, 1, coder.next - 1)]

\* Codes decoded: one more, of a symbol.
LEMMA SymbolDecodes ==
  ASSUME NEW table, TableOK(table), NEW m \in Nat, m < Len(table.symbols), NEW s, ~s.escaped
  PROVE  Decoded1(table, m, s) = [escaped |-> FALSE, output |-> s.output \o table.symbols[m + 1]]
<1>1. m # Escape
  <2>1. Len(table.symbols) <= Escape /\ Len(table.symbols) \in Nat /\ Escape \in Nat
    BY ByteMaxIs DEF TableOK
  <2> QED
    BY <2>1
<1> QED
  BY <1>1 DEF Decoded1

\* And two more, of a byte behind an escape.
LEMMA EscapeDecodes ==
  ASSUME NEW table, TableOK(table), NEW codes \in Seq(Nat), NEW state, Decodes(state, table, codes),
         NEW l \in Nat, l + 2 <= Len(codes), ~state[l].escaped, codes[l + 1] = Escape
  PROVE  state[l + 2] = [escaped |-> FALSE, output |-> state[l].output \o <<codes[l + 2]>>]
<1>1. /\ l + 1 \in 1 .. Len(codes) /\ (l + 1) - 1 = l
      /\ l + 2 \in 1 .. Len(codes) /\ (l + 2) - 1 = l + 1
  OBVIOUS
<1>2. state[l + 1] = Decoded1(table, Escape, state[l])
  BY <1>1 DEF Decodes
<1>3. state[l + 2] = Decoded1(table, codes[l + 2], state[l + 1])
  BY <1>1 DEF Decodes
<1>4. state[l + 1] = [state[l] EXCEPT !.escaped = TRUE]
  BY <1>2 DEF Decoded1
<1>5. state[l + 1].escaped /\ state[l + 1].output = state[l].output
  BY <1>4
<1> QED
  BY <1>3, <1>5 DEF Decoded1

\* What two numbers behind others are.
LEMMA JoinedTwo ==
  ASSUME NEW b \in Seq(Nat), NEW w \in Seq(Nat), Len(w) = 2
  PROVE  /\ Len(b \o w) = Len(b) + 2
         /\ (b \o w)[Len(b) + 1] = w[1] /\ (b \o w)[Len(b) + 2] = w[2]
<1>1. 1 \in 1 .. Len(w) /\ 2 \in 1 .. Len(w)
  OBVIOUS
<1>2. Len(b \o w) = Len(b) + Len(w)
  BY SequenceParts
<1>3. \A k \in 1 .. Len(w) : (b \o w)[Len(b) + k] = w[k]
  BY SequenceParts
<1> QED
  BY <1>1, <1>2, <1>3

\* A part of one item.
LEMMA ItemIs ==
  ASSUME NEW s \in Seq(Nat), NEW k \in 1 .. Len(s)
  PROVE  SubSeq(s, k, k) = <<s[k]>>
<1>1. PICK part, item : part = SubSeq(s, k, k) /\ item = s[k]
  OBVIOUS
<1>2. k \in Nat \ {0} /\ k <= Len(s) /\ k <= k + 1 /\ k - k + 1 = 1 /\ item \in Nat
  BY <1>1
<1>3. /\ SubSeq(s, k, k) \in Seq(Nat) /\ Len(SubSeq(s, k, k)) = k - k + 1
      /\ \A j \in 1 .. k - k + 1 : SubSeq(s, k, k)[j] = s[k + j - 1]
  BY <1>2, PartIs
<1>4. part \in Seq(Nat) /\ item \in Nat /\ Len(part) = 1 /\ part[1] = item
  BY <1>1, <1>2, <1>3
<1>5. part = <<item>>
  BY <1>4
<1> QED
  BY <1>1, <1>5

\* A round of compress keeps its codes decoding.
LEMMA RoundDecodes ==
  ASSUME NEW table, TableOK(table), NEW input \in Seq(Nat), NEW codes \in Seq(Nat),
         NEW state, Decodes(state, table, codes), NEW k \in 1 .. Len(input),
         NEW before \in Coders, NEW after \in Coders, Begins(after.codes, codes),
         Adds(table, input, k, before, after),
         Decoding(state, input, before), before.next >= k
  PROVE  Decoding(state, input, after) /\ after.next >= k + 1
<1> DEFINE l == Len(before.codes)
           done == SubSeq(input, 1, before.next - 1)
<1>1. /\ before.codes \in Seq(Nat) /\ before.next \in Nat /\ after.codes \in Seq(Nat)
      /\ after.next \in Nat /\ l \in Nat /\ k \in Nat /\ Len(codes) \in Nat
      /\ before.next >= k /\ Len(input) \in Nat
      /\ state[l] = [escaped |-> FALSE, output |-> done]
  BY DEF Coders, Decoding
<1>2. CASE after = before /\ k < before.next
  BY <1>1, <1>2
<1>3. ASSUME before.next <= k, NEW m \in Nat, m < Len(table.symbols),
             after.codes = before.codes \o <<m>>, after.next \in k + 1 .. Len(input) + 1,
             table.symbols[m + 1] = SubSeq(input, k, after.next - 1)
      PROVE  Decoding(state, input, after) /\ after.next >= k + 1
  <2>1. /\ <<m>> \in Seq(Nat) /\ Len(<<m>>) = 1 /\ <<m>>[1] = m /\ 1 \in 1 .. Len(<<m>>)
    OBVIOUS
  <2>2. Len(after.codes) = l + 1 /\ after.codes[l + 1] = m
    <3> HIDE DEF l
    <3> QED
      BY <1>1, <1>3, <2>1, SequenceParts DEF l
  <2>3. l + 1 <= Len(codes) /\ codes[l + 1] = m
    <3>1. l + 1 \in 1 .. Len(after.codes)
      BY <1>1, <2>2
    <3> QED
      BY <2>2, <3>1 DEF Begins
  <2>4. before.next = k
    <3>1. before.next <= k
      BY <1>3
    <3> QED
      BY <1>1, <3>1
  <2> HIDE DEF l, done
  <2>5. state[l + 1] = [escaped |-> FALSE, output |-> done \o table.symbols[m + 1]]
    <3>1. m \in Nat /\ m < Len(table.symbols) /\ codes[l + 1] = m
      BY <1>3, <2>3
    <3>2. /\ l \in Nat /\ l + 1 <= Len(codes)
          /\ ~state[l].escaped /\ state[l].output = done
      BY <1>1, <2>3
    <3>3. state[l + 1] = [escaped |-> FALSE, output |-> state[l].output \o table.symbols[m + 1]]
      <4>1. l + 1 \in 1 .. Len(codes) /\ (l + 1) - 1 = l
        BY <1>1, <3>2
      <4>2. state[l + 1] = Decoded1(table, m, state[l])
        BY <3>1, <4>1 DEF Decodes
      <4>3. PICK x : x = state[l]
        OBVIOUS
      <4>4. Decoded1(table, m, x) = [escaped |-> FALSE, output |-> x.output \o table.symbols[m + 1]]
        BY <3>1, <3>2, <4>3, SymbolDecodes
      <4> QED
        BY <4>2, <4>3, <4>4
    <3> QED
      BY <2>3, <3>2, <3>3
  <2>6. done \o table.symbols[m + 1] = SubSeq(input, 1, after.next - 1)
    <3>1. PICK j : j = after.next - 1
      OBVIOUS
    <3>2. j \in k .. Len(input)
      <4>1. PICK x : x = after.next
        OBVIOUS
      <4>2. x \in k + 1 .. Len(input) + 1 /\ j = x - 1
        BY <1>3, <3>1, <4>1
      <4> QED
        BY <1>1, <4>2
    <3>3. SubSeq(input, 1, k - 1) \o SubSeq(input, k, j) = SubSeq(input, 1, j)
      BY <3>2, SubSeqJoins
    <3> QED
      BY <1>3, <2>4, <3>1, <3>3 DEF done
  <2>7. after.next \in 1 .. Len(input) + 1 /\ after.next >= k + 1
    BY <1>1, <1>3
  <2> QED
    BY <2>2, <2>5, <2>6, <2>7 DEF Decoding
<1>4. ASSUME before.next <= k, after.next = k + 1, after.codes = before.codes \o <<Escape, input[k]>>
      PROVE  Decoding(state, input, after) /\ after.next >= k + 1
  <2> DEFINE w == <<Escape, input[k]>>
  <2>1. /\ w \in Seq(Nat) /\ Len(w) = 2 /\ w[1] = Escape /\ w[2] = input[k]
        /\ 1 \in 1 .. Len(w) /\ 2 \in 1 .. Len(w)
    <3>1. Escape \in Nat /\ input[k] \in Nat
      BY ByteMaxIs
    <3> QED
      BY <3>1
  <2> HIDE DEF w
  <2>2. Len(after.codes) = l + 2 /\ after.codes[l + 1] = Escape /\ after.codes[l + 2] = input[k]
    <3>1. after.codes = before.codes \o w
      BY <1>4 DEF w
    <3>2. PICK b : b = before.codes
      OBVIOUS
    <3>3. b \in Seq(Nat) /\ l = Len(b) /\ after.codes = b \o w
      BY <1>1, <3>1, <3>2
    <3>4. /\ Len(b \o w) = Len(b) + 2
          /\ (b \o w)[Len(b) + 1] = w[1] /\ (b \o w)[Len(b) + 2] = w[2]
      BY <2>1, <3>3, JoinedTwo
    <3> HIDE DEF l
    <3> QED
      BY <2>1, <3>3, <3>4
  <2>3. l + 2 <= Len(codes) /\ codes[l + 1] = Escape /\ codes[l + 2] = input[k]
    <3>1. l + 1 \in 1 .. Len(after.codes) /\ l + 2 \in 1 .. Len(after.codes)
      BY <1>1, <2>2
    <3> QED
      BY <2>2, <3>1 DEF Begins
  <2>4. before.next = k
    <3>1. before.next <= k
      BY <1>4
    <3> QED
      BY <1>1, <3>1
  <2> HIDE DEF l, done
  <2>5. state[l + 2] = [escaped |-> FALSE, output |-> done \o <<input[k]>>]
    <3>1. /\ l \in Nat /\ l + 2 <= Len(codes) /\ codes[l + 1] = Escape
          /\ ~state[l].escaped /\ state[l].output = done
      BY <1>1, <2>3
    <3>2. state[l + 2] = [escaped |-> FALSE, output |-> state[l].output \o <<codes[l + 2]>>]
      BY <3>1, EscapeDecodes
    <3> QED
      BY <2>3, <3>1, <3>2
  <2>6. done \o <<input[k]>> = SubSeq(input, 1, k)
    <3>1. SubSeq(input, 1, k - 1) \o SubSeq(input, k, k) = SubSeq(input, 1, k)
      <4>1. k \in k .. Len(input)
        OBVIOUS
      <4> QED
        BY <4>1, SubSeqJoins
    <3>2. SubSeq(input, k, k) = <<input[k]>>
      BY ItemIs
    <3> QED
      BY <2>4, <3>1, <3>2 DEF done
  <2>7. after.next \in 1 .. Len(input) + 1 /\ after.next >= k + 1 /\ after.next - 1 = k
    BY <1>1, <1>4
  <2> QED
    BY <2>2, <2>5, <2>6, <2>7 DEF Decoding
<1>5. \/ after = before /\ k < before.next
      \/ /\ before.next <= k
         /\ \E m \in Nat : /\ m < Len(table.symbols)
                           /\ after.codes = before.codes \o <<m>>
                           /\ after.next \in k + 1 .. Len(input) + 1
                           /\ table.symbols[m + 1] = SubSeq(input, k, after.next - 1)
      \/ /\ before.next <= k /\ after.next = k + 1
         /\ after.codes = before.codes \o <<Escape, input[k]>>
  BY DEF Adds
<1> QED
  BY <1>2, <1>3, <1>4, <1>5

\* A round only adds codes.
LEMMA AddsBegins ==
  ASSUME NEW table, NEW input \in Seq(Nat), NEW k \in 1 .. Len(input),
         NEW before \in Coders, NEW after \in Coders, Adds(table, input, k, before, after)
  PROVE  Begins(before.codes, after.codes)
<1>1. before.codes \in Seq(Nat) /\ input[k] \in Nat /\ Escape \in Nat
  BY ByteMaxIs DEF Coders
<1>2. \A c, d \in Seq(Nat) : Begins(c, c \o d)
  <2> TAKE c \in Seq(Nat), d \in Seq(Nat)
  <2>1. Len(c \o d) = Len(c) + Len(d) /\ Len(c) \in Nat /\ Len(d) \in Nat
    BY SequenceParts
  <2>2. \A j \in 1 .. Len(c) : (c \o d)[j] = c[j]
    BY SequenceParts
  <2> QED
    BY <2>1, <2>2 DEF Begins
<1>3. Begins(before.codes, before.codes)
  <2>1. Len(before.codes) \in Nat
    BY <1>1
  <2> QED
    BY <2>1 DEF Begins
<1>4. \A m \in Nat : <<m>> \in Seq(Nat)
  OBVIOUS
<1>5. <<Escape, input[k]>> \in Seq(Nat)
  BY <1>1
<1>6. \/ after = before
      \/ \E m \in Nat : after.codes = before.codes \o <<m>>
      \/ after.codes = before.codes \o <<Escape, input[k]>>
  BY DEF Adds
<1> QED
  BY <1>1, <1>2, <1>3, <1>4, <1>5, <1>6

\* The codes of each round begin those of the last.
LEMMA RoundsBegin ==
  ASSUME NEW n \in Nat, NEW e \in [0 .. n -> Coders],
         \A k \in 1 .. n : Begins(e[k - 1].codes, e[k].codes)
  PROVE  \A k \in 0 .. n : Begins(e[k].codes, e[n].codes)
<1> DEFINE bad == {j \in Nat : j \in 0 .. n /\ ~Begins(e[n - j].codes, e[n].codes)}
<1>1. \A k \in 0 .. n : e[k].codes \in Seq(Nat) /\ Len(e[k].codes) \in Nat
  <2> TAKE k \in 0 .. n
  <2>1. e[k] \in Coders
    OBVIOUS
  <2> QED
    BY <2>1 DEF Coders
<1>2. ASSUME bad # {} PROVE FALSE
  <2>1. PICK j \in bad : \A m \in bad : j <= m
    BY <1>2, LeastElement
  <2>2. j \in Nat /\ j \in 0 .. n /\ ~Begins(e[n - j].codes, e[n].codes)
    BY <2>1
  <2>3. CASE j = 0
    <3>1. n - j = n /\ n \in 0 .. n
      BY <2>3
    <3>2. Begins(e[n].codes, e[n].codes)
      <4>1. Len(e[n].codes) \in Nat
        BY <1>1, <3>1
      <4> QED
        BY <4>1 DEF Begins
    <3> QED
      BY <2>2, <3>1, <3>2
  <2>4. CASE j # 0
    <3>1. PICK k : k = n - j
      OBVIOUS
    <3>2. /\ j - 1 \in Nat /\ j - 1 < j /\ j - 1 \in 0 .. n /\ n - (j - 1) = k + 1
          /\ k \in 0 .. n /\ k + 1 \in 1 .. n /\ k + 1 \in 0 .. n /\ (k + 1) - 1 = k
      BY <2>2, <2>4, <3>1
    <3>3. Begins(e[k + 1].codes, e[n].codes)
      <4>1. j - 1 \notin bad
        <5> HIDE DEF bad
        <5> QED
          BY <2>1, <2>2, <3>2
      <4> QED
        BY <3>2, <4>1
    <3>4. Begins(e[k].codes, e[k + 1].codes)
      BY <3>2
    <3>5. Len(e[k].codes) \in Nat /\ Len(e[k + 1].codes) \in Nat /\ Len(e[n].codes) \in Nat
      BY <1>1, <3>2
    <3>6. Begins(e[k].codes, e[n].codes)
      <4>1. PICK x, y, z : x = e[k].codes /\ y = e[k + 1].codes /\ z = e[n].codes
        OBVIOUS
      <4>2. Len(x) \in Nat /\ Len(y) \in Nat /\ Len(z) \in Nat /\ Begins(x, y) /\ Begins(y, z)
        BY <3>3, <3>4, <3>5, <4>1
      <4>3. Begins(x, z)
        BY <4>2 DEF Begins
      <4> QED
        BY <4>1, <4>3
    <3> QED
      BY <2>2, <3>1, <3>6
  <2> QED
    BY <2>3, <2>4
<1> QED
  <2> TAKE k \in 0 .. n
  <2>1. PICK j : j = n - k
    OBVIOUS
  <2>2. j \in Nat /\ j \in 0 .. n /\ n - j = k
    BY <2>1
  <2>3. j \notin bad
    <3> HIDE DEF bad
    <3> QED
      BY <1>2
  <2> QED
    BY <2>2, <2>3

\* What compress writes decompress reads, whatever symbols the table has.  The
\* exception are tables never built, of which compress may find a symbol that
\* decompress does not know, if a zero byte is in the input.
THEOREM CompressedRestores ==
  ASSUME NEW table, TableOK(table), NEW input \in Seq(Nat), Safe(table, input)
  PROVE  /\ Compress(table, input) \in Seq(Nat)
         /\ Decompress(table, Compress(table, input)) = input
<1> DEFINE n == Len(input)
           codes == Compress(table, input)
<1>1. n \in Nat
  OBVIOUS
<1>2. PICK e \in [0 .. n -> Coders] :
        Encodes(e, table, input) /\ codes = e[n].codes
  BY CompressSteps
<1>3. codes \in Seq(Nat)
  <2>1. e[n] \in Coders
    BY <1>1, <1>2
  <2> QED
    BY <1>2, <2>1 DEF Coders
<1> HIDE DEF codes
<1>4. PICK state \in [0 .. Len(codes) -> Outputs] :
        Decodes(state, table, codes) /\ Decompress(table, codes) = state[Len(codes)].output
  BY <1>3, DecompressSteps
<1>5. ASSUME NEW k \in 1 .. n
      PROVE  /\ e[k - 1] \in Coders /\ e[k] \in Coders
             /\ Adds(table, input, k, e[k - 1], e[k]) /\ Begins(e[k - 1].codes, e[k].codes)
  <2>1. k - 1 \in 0 .. n /\ k \in 0 .. n
    BY <1>1
  <2>2. e[k - 1] \in Coders /\ e[k] \in Coders
    BY <1>2, <2>1
  <2>3. e[k] = Encoded(table, input, k, e[k - 1])
    BY <1>2 DEF Encodes
  <2>4. Adds(table, input, k, e[k - 1], e[k])
    BY <2>2, <2>3, EncodedIs
  <2> QED
    BY <2>2, <2>4, AddsBegins
<1>6. \A k \in 0 .. n : Begins(e[k].codes, codes)
  <2>1. \A k \in 1 .. n : Begins(e[k - 1].codes, e[k].codes)
    BY <1>5
  <2> HIDE DEF n
  <2> QED
    BY <1>1, <1>2, <2>1, RoundsBegin
<1> DEFINE good(k) == Decoding(state, input, e[k]) /\ e[k].next >= k + 1
           bad == {k \in Nat : k \in 0 .. n /\ ~good(k)}
<1>7. good(0)
  <2>1. e[0] = Begin /\ state[0] = Start
    BY <1>2, <1>4 DEF Encodes, Decodes
  <2>2. e[0].next = 1 /\ e[0].codes = <<>> /\ Len(e[0].codes) = 0
    BY <2>1 DEF Begin
  <2>3. SubSeq(input, 1, e[0].next - 1) = <<>>
    BY <2>2
  <2>4. state[Len(e[0].codes)]
          = [escaped |-> FALSE, output |-> SubSeq(input, 1, e[0].next - 1)]
    BY <2>1, <2>2, <2>3 DEF Start
  <2> QED
    BY <1>1, <2>2, <2>4 DEF Decoding
<1>8. ASSUME NEW k \in 1 .. n, good(k - 1) PROVE good(k)
  <2>1. e[k - 1].next >= k /\ k \in 0 .. n /\ Decoding(state, input, e[k - 1])
    BY <1>1, <1>8
  <2>2. Begins(e[k].codes, codes)
    BY <1>6, <2>1
  <2>3. PICK before, after : before = e[k - 1] /\ after = e[k]
    OBVIOUS
  <2>4. Decoding(state, input, after) /\ after.next >= k + 1
    BY <1>3, <1>4, <1>5, <2>1, <2>2, <2>3, RoundDecodes
  <2> QED
    BY <2>3, <2>4
<1> HIDE DEF good
<1>9. ASSUME bad # {} PROVE FALSE
  <2>1. PICK k \in bad : \A m \in bad : k <= m
    BY <1>9, LeastElement
  <2>2. k \in Nat /\ k \in 0 .. n /\ ~good(k)
    BY <2>1
  <2>3. CASE k = 0
    BY <1>7, <2>2, <2>3
  <2>4. CASE k # 0
    <3>1. k - 1 \in Nat /\ k - 1 < k /\ k - 1 \in 0 .. n /\ k \in 1 .. n
      BY <1>1, <2>2, <2>4
    <3>2. k - 1 \notin bad
      <4> HIDE DEF bad
      <4> QED
        BY <2>1, <2>2, <3>1
    <3>3. good(k - 1)
      BY <3>1, <3>2
    <3> QED
      BY <1>8, <2>2, <3>1, <3>3
  <2> QED
    BY <2>3, <2>4
<1>10. good(n)
  <2>1. n \notin bad
    <3> HIDE DEF bad
    <3> QED
      BY <1>9
  <2>2. n \in 0 .. n
    BY <1>1
  <2> QED
    BY <1>1, <2>1, <2>2
<1>11. state[Len(codes)].output = input
  <2>1. e[n].next >= n + 1 /\ e[n].next \in 1 .. n + 1
    BY <1>10 DEF good, Decoding
  <2>2. e[n].next - 1 = n
    <3>1. PICK x, y : x = e[n].next /\ y = n
      OBVIOUS
    <3>2. y \in Nat /\ x >= y + 1 /\ x \in 1 .. y + 1
      BY <1>1, <2>1, <3>1
    <3>3. x - 1 = y
      BY <3>2
    <3> QED
      BY <3>1, <3>3
  <2>3. state[Len(codes)] = [escaped |-> FALSE, output |-> SubSeq(input, 1, n)]
    BY <1>2, <1>10, <2>2 DEF good, Decoding
  <2>4. SubSeq(input, 1, n) = input
    OBVIOUS
  <2> QED
    BY <2>3, <2>4
<1> QED
  BY <1>3, <1>4, <1>11 DEF codes

-----------------------------------------------------------------------------
(* The prefix that the strings of a dictionary share.                      *)

\* A string is its start and the rest.
LEMMA StartAndRest ==
  ASSUME NEW S, NEW s \in Seq(S), NEW n \in 0 .. Len(s)
  PROVE  /\ SubSeq(s, 1, n) \in Seq(S) /\ SubSeq(s, n + 1, Len(s)) \in Seq(S)
         /\ SubSeq(s, 1, n) \o SubSeq(s, n + 1, Len(s)) = s
         /\ Len(SubSeq(s, n + 1, Len(s))) = Len(s) - n
         /\ \A k \in 1 .. Len(s) - n : SubSeq(s, n + 1, Len(s))[k] = s[n + k]
<1>1. Len(s) \in Nat /\ n \in Nat /\ n <= Len(s)
  OBVIOUS
<1>2. /\ SubSeq(s, 1, n) \in Seq(S) /\ Len(SubSeq(s, 1, n)) = n
      /\ \A k \in 1 .. n : SubSeq(s, 1, n)[k] = s[k]
  BY SequenceParts
<1>3. PICK l, m : l = Len(s) /\ m = n + 1
  OBVIOUS
<1>4. /\ SubSeq(s, m, l) \in Seq(S) /\ Len(SubSeq(s, m, l)) = l - m + 1
      /\ \A k \in 1 .. l - m + 1 : SubSeq(s, m, l)[k] = s[m + k - 1]
  <2>1. m \in Nat \ {0} /\ l \in Nat /\ l <= Len(s) /\ m <= l + 1
    BY <1>1, <1>3
  <2> QED
    BY <2>1, PartIs
<1>5. l - m + 1 = l - n /\ \A k \in 1 .. l - n : m + k - 1 = n + k
  BY <1>1, <1>3
<1>6. Len(SubSeq(s, m, l)) = l - n /\ \A k \in 1 .. l - n : SubSeq(s, m, l)[k] = s[n + k]
  BY <1>4, <1>5
<1>7. SubSeq(s, 1, n) \o SubSeq(s, m, l) = s
  <2>1. CASE n = l
    <3>1. SubSeq(s, 1, n) = s
      <4>1. \A k \in 1 .. n : SubSeq(s, 1, n)[k] = s[k]
        BY <1>2
      <4>2. Len(s) = n
        BY <1>3, <2>1
      <4> QED
        BY <1>2, <4>1, <4>2, SameSequence
    <3>2. Len(SubSeq(s, m, l)) = 0
      BY <1>1, <1>3, <1>6, <2>1
    <3>3. SubSeq(s, m, l) = <<>>
      BY <1>4, <3>2
    <3> QED
      BY <3>1, <3>3
  <2>2. CASE n # l
    <3>1. m \in 1 .. Len(s) /\ l \in m .. Len(s) /\ m - 1 = n
      BY <1>1, <1>3, <2>2
    <3>2. SubSeq(s, 1, m - 1) \o SubSeq(s, m, l) = SubSeq(s, 1, l)
      BY <3>1, SubSeqJoins
    <3>3. SubSeq(s, 1, l) = s
      <4>1. l \in 0 .. Len(s) /\ l = Len(s)
        BY <1>1, <1>3
      <4>2. SubSeq(s, 1, l) \in Seq(S) /\ Len(SubSeq(s, 1, l)) = l
            /\ \A k \in 1 .. l : SubSeq(s, 1, l)[k] = s[k]
        BY <4>1, SequenceParts
      <4> QED
        BY <4>1, <4>2, SameSequence
    <3> QED
      BY <3>1, <3>2, <3>3
  <2> QED
    BY <2>1, <2>2
<1> QED
  BY <1>2, <1>3, <1>4, <1>6, <1>7

\* The suffixes are what the strings have behind the prefix.
Split(dict, prefix, suffixes) ==
  /\ prefix \in Bytes /\ suffixes \in Seq(Bytes) /\ Len(suffixes) = Len(dict)
  /\ \A d \in 1 .. Len(dict) :
       /\ prefix \o suffixes[d] = dict[d]
       /\ Len(suffixes[d]) = Len(dict[d]) - Len(prefix)
       /\ \A k \in 1 .. Len(suffixes[d]) : suffixes[d][k] = dict[d][Len(prefix) + k]

\* The longest of the common prefixes is a common prefix.
LEMMA LongestIsCommon ==
  ASSUME NEW dict \in Seq(Bytes), dict # <<>>
  PROVE  /\ SharedPrefix(dict) \in Bytes
         /\ \A d \in 1 .. Len(dict) : /\ Len(SharedPrefix(dict)) <= Len(dict[d])
                                      /\ SubSeq(dict[d], 1, Len(SharedPrefix(dict)))
                                           = SharedPrefix(dict)
<1> DEFINE set == {dict[d] : d \in DOMAIN dict}
           C == Seqs!CommonPrefixes(set)
           longest == SharedPrefix(dict)
<1>1. DOMAIN dict = 1 .. Len(dict) /\ Len(dict) \in Nat /\ 1 \in 1 .. Len(dict)
  OBVIOUS
<1>2. \A s \in set : s \in Seq(0 .. ByteMax) /\ Len(s) \in Nat
  <2> TAKE s \in set
  <2>1. s \in Bytes
    BY <1>1
  <2>2. s \in Seq(0 .. ByteMax)
    BY <2>1 DEF Bytes
  <2> QED
    BY <2>2
<1>3. dict[1] \in set
  BY <1>1
<1>4. longest = CHOOSE p \in C : \A q \in C : Len(q) <= Len(p)
  BY DEF SharedPrefix, Seqs!LongestCommonPrefix
<1> HIDE DEF set
<1>5. \A p \in C : /\ p \in Seq(0 .. ByteMax) /\ Len(p) \in 0 .. Len(dict[1])
                   /\ \A s \in set : Len(p) <= Len(s) /\ SubSeq(s, 1, Len(p)) = p
  <2> TAKE p \in C
  <2>1. /\ \E s \in set : \E l \in 0 .. Len(s) : p = SubSeq(s, 1, l)
        /\ \A s \in set : Seqs!IsPrefix(p, s)
    BY DEF Seqs!CommonPrefixes, Seqs!Prefixes
  <2>2. PICK s \in set : \E m \in 0 .. Len(s) : p = SubSeq(s, 1, m)
    BY <2>1
  <2>7. PICK l \in 0 .. Len(s) : p = SubSeq(s, 1, l)
    BY <2>2
  <2>3. p \in Seq(0 .. ByteMax) /\ Len(p) = l
    <3>1. s \in Seq(0 .. ByteMax)
      BY <1>2
    <3>2. \A S : s \in Seq(S) => SubSeq(s, 1, l) \in Seq(S) /\ Len(SubSeq(s, 1, l)) = l
      BY SequenceParts
    <3> QED
      BY <2>7, <3>1, <3>2
  <2>4. \A t \in set : Len(p) <= Len(t) /\ SubSeq(p, 1, Len(p)) = SubSeq(t, 1, Len(p))
    BY <2>1 DEF Seqs!IsPrefix
  <2>5. SubSeq(p, 1, Len(p)) = p
    BY <2>3
  <2>6. Len(p) \in Nat /\ Len(dict[1]) \in Nat /\ Len(p) <= Len(dict[1])
    BY <1>2, <1>3, <2>3, <2>4
  <2> QED
    BY <2>3, <2>4, <2>5, <2>6
<1>6. C # {}
  <2>1. <<>> = SubSeq(dict[1], 1, 0) /\ 0 \in 0 .. Len(dict[1])
    BY <1>2, <1>3
  <2>2. \A s \in set : Seqs!IsPrefix(<<>>, s)
    <3> TAKE s \in set
    <3>1. Len(<<>>) = 0 /\ Len(s) \in Nat /\ SubSeq(<<>>, 1, 0) = <<>> /\ SubSeq(s, 1, 0) = <<>>
      BY <1>2
    <3> QED
      BY <3>1 DEF Seqs!IsPrefix
  <2>3. <<>> \in C
    BY <1>3, <2>1, <2>2 DEF Seqs!CommonPrefixes, Seqs!Prefixes
  <2> QED
    BY <2>3
<1> HIDE DEF C
<1>7. \E p \in C : \A q \in C : Len(q) <= Len(p)
  <2> DEFINE lengths == {Len(p) : p \in C}
  <2>1. lengths \in SUBSET (0 .. Len(dict[1])) /\ lengths # {}
    BY <1>5, <1>6
  <2>2. Max(lengths) \in lengths /\ \A x \in lengths : x <= Max(lengths)
    <3>1. 0 \in Int /\ Len(dict[1]) \in Int
      BY <1>2, <1>3
    <3> HIDE DEF lengths
    <3> QED
      BY <2>1, <3>1, ExtremesExist
  <2> QED
    BY <2>2
<1>8. longest \in C
  BY <1>4, <1>7
<1> HIDE DEF longest
<1> QED
  <2>1. longest \in Bytes
    BY <1>5, <1>8 DEF Bytes
  <2>2. ASSUME NEW d \in 1 .. Len(dict)
        PROVE  Len(longest) <= Len(dict[d]) /\ SubSeq(dict[d], 1, Len(longest)) = longest
    <3>1. dict[d] \in set
      BY <1>1 DEF set
    <3> QED
      BY <1>5, <1>8, <3>1
  <2> QED
    BY <2>1, <2>2 DEF longest

\* The shared prefix and the suffixes make up the dictionary.
LEMMA SharedPrefixIs ==
  ASSUME NEW dict \in Seq(Bytes)
  PROVE  Split(dict, SharedPrefix(dict), SuffixesOf(dict, SharedPrefix(dict)))
<1> DEFINE prefix == SharedPrefix(dict)
           n == Len(prefix)
           suffixes == SuffixesOf(dict, prefix)
<1>1. DOMAIN dict = 1 .. Len(dict) /\ Len(dict) \in Nat
  OBVIOUS
<1>2. prefix \in Bytes
  <2>1. CASE dict = <<>>
    <3>1. <<>> \in Seq(0 .. ByteMax)
      OBVIOUS
    <3> QED
      BY <2>1, <3>1 DEF SharedPrefix, Bytes
  <2>2. CASE dict # <<>>
    BY <2>2, LongestIsCommon
  <2> QED
    BY <2>1, <2>2
<1>3. n \in Nat
  <2>1. prefix \in Seq(0 .. ByteMax)
    BY <1>2 DEF Bytes
  <2> HIDE DEF prefix
  <2> QED
    BY <2>1
<1>4. suffixes = [d \in 1 .. Len(dict) |-> SubSeq(dict[d], n + 1, Len(dict[d]))]
  BY <1>1 DEF SuffixesOf
<1> HIDE DEF suffixes, prefix
<1>5. ASSUME NEW d \in 1 .. Len(dict)
      PROVE  /\ suffixes[d] \in Bytes /\ prefix \o suffixes[d] = dict[d]
             /\ Len(suffixes[d]) = Len(dict[d]) - n
             /\ \A k \in 1 .. Len(suffixes[d]) : suffixes[d][k] = dict[d][n + k]
  <2>1. n <= Len(dict[d]) /\ SubSeq(dict[d], 1, n) = prefix
    <3>1. dict # <<>>
      OBVIOUS
    <3> QED
      BY <3>1, LongestIsCommon DEF prefix
  <2>2. PICK s : s = dict[d]
    OBVIOUS
  <2>3. s \in Seq(0 .. ByteMax)
    <3>1. s \in Bytes
      BY <1>1, <2>2
    <3> QED
      BY <3>1 DEF Bytes
  <2>4. n \in 0 .. Len(s)
    BY <1>3, <2>1, <2>2, <2>3
  <2> HIDE DEF n
  <2>5. /\ SubSeq(s, n + 1, Len(s)) \in Seq(0 .. ByteMax)
        /\ SubSeq(s, 1, n) \o SubSeq(s, n + 1, Len(s)) = s
        /\ Len(SubSeq(s, n + 1, Len(s))) = Len(s) - n
        /\ \A k \in 1 .. Len(s) - n : SubSeq(s, n + 1, Len(s))[k] = s[n + k]
    <3>1. \A S : s \in Seq(S) =>
            /\ SubSeq(s, n + 1, Len(s)) \in Seq(S)
            /\ SubSeq(s, 1, n) \o SubSeq(s, n + 1, Len(s)) = s
            /\ Len(SubSeq(s, n + 1, Len(s))) = Len(s) - n
            /\ \A k \in 1 .. Len(s) - n : SubSeq(s, n + 1, Len(s))[k] = s[n + k]
      BY <2>4, StartAndRest
    <3> QED
      BY <2>3, <3>1
  <2>6. suffixes[d] = SubSeq(s, n + 1, Len(s))
    BY <1>4, <2>2
  <2> QED
    BY <2>1, <2>2, <2>5, <2>6 DEF Bytes
<1>6. suffixes \in Seq(Bytes) /\ Len(suffixes) = Len(dict)
  <2>1. suffixes = [d \in 1 .. Len(dict) |-> suffixes[d]] /\ \A d \in 1 .. Len(dict) : suffixes[d] \in Bytes
    BY <1>4, <1>5
  <2> HIDE DEF n
  <2> QED
    BY <1>1, <2>1
<1> QED
  BY <1>2, <1>5, <1>6 DEF Split, suffixes, prefix

-----------------------------------------------------------------------------
(* The line through the offsets.                                           *)

\* The sums of the subsets of S, and a function that adds them up in some order.
Totals(w, S) == [s \in SUBSET S |-> Total(w, s)]
AddsUp(h, w, S) ==
  h = [s \in SUBSET S |-> IF s = {} THEN 0
                          ELSE LET x == CHOOSE y \in s : TRUE IN w[x] + h[s \ {x}]]

\* The sums of the subsets are a fold.
LEMMA TotalsFold ==
  ASSUME NEW S, IsFiniteSet(S), NEW w, \A x \in S : w[x] \in Int
  PROVE  AddsUp(Totals(w, S), w, S)
<1> DEFINE total == Totals(w, S)
           step(g, s) == IF s = {} THEN 0
                         ELSE LET x == CHOOSE y \in s : TRUE IN w[x] + g[s \ {x}]
<1>1. ASSUME NEW s \in SUBSET S PROVE total[s] = step(total, s)
  <2>1. CASE s = {}
    BY <2>1, TotalOfNone DEF Totals
  <2>2. CASE s # {}
    <3>1. First(s) \in s /\ Total(w, s) = w[First(s)] + Total(w, s \ {First(s)})
      <4>1. IsFiniteSet(s) /\ \A b \in s : w[b] \in Int
        BY FS_Subset
      <4> QED
        BY <2>2, <4>1, TotalFolds
    <3>2. step(total, s) = w[First(s)] + total[s \ {First(s)}]
      BY <2>2 DEF First
    <3>3. s \ {First(s)} \in SUBSET S
      OBVIOUS
    <3> QED
      BY <3>1, <3>2, <3>3 DEF Totals
  <2> QED
    BY <2>1, <2>2
<1> QED
  BY <1>1, Zenon DEF AddsUp, Totals

\* Whatever adds up w yields the sum.
LEMMA AddsUpToTotal ==
  ASSUME NEW S, IsFiniteSet(S), NEW w, \A x \in S : w[x] \in Int, NEW h, AddsUp(h, w, S)
  PROVE  h[S] = Total(w, S)
<1>1. \A s \in SUBSET S : h[s] = IF s = {} THEN 0
                                 ELSE LET x == CHOOSE y \in s : TRUE IN w[x] + h[s \ {x}]
  BY Zenon DEF AddsUp
<1> QED
  BY <1>1, FoldIsTotal

\* The lengths of sequences, added up.
LEMMA LengthsAreSummed ==
  ASSUME NEW codes, NEW S, IsFiniteSet(S), NEW w,
         \A d \in S : w[d] = Len(codes[d]) /\ w[d] \in Int
  PROVE  MapThenSumSet(LAMBDA d : Len(codes[d]), S) = Total(w, S)
<1> DEFINE value(d) == Len(codes[d])
           step(g, s) == IF s = {} THEN 0
                         ELSE LET x == CHOOSE y \in s : TRUE IN value(x) + g[s \ {x}]
           wstep(g, s) == IF s = {} THEN 0
                          ELSE LET x == CHOOSE y \in s : TRUE IN w[x] + g[s \ {x}]
           iter == CHOOSE g : g = [s \in SUBSET S |-> step(g, s)]
           total == Totals(w, S)
<1>1. MapThenSumSet(LAMBDA d : Len(codes[d]), S) = iter[S]
  BY DEF MapThenSumSet, MapThenFoldSet
<1>2. \A g : \A s \in SUBSET S : step(g, s) = wstep(g, s)
  <2>1. \A x \in S : value(x) = w[x]
    OBVIOUS
  <2> HIDE DEF value
  <2>2. \A s \in SUBSET S : s # {} => (CHOOSE y \in s : TRUE) \in S
    OBVIOUS
  <2> QED
    BY <2>1, <2>2
<1>3. total = [s \in SUBSET S |-> wstep(total, s)]
  <2>1. AddsUp(total, w, S)
    BY TotalsFold
  <2> QED
    BY <2>1 DEF AddsUp
<1> HIDE DEF total, step, wstep
<1>4. iter = [s \in SUBSET S |-> step(iter, s)]
  <2>1. total = [s \in SUBSET S |-> step(total, s)]
    BY <1>2, <1>3
  <2> QED
    BY <2>1
<1> HIDE DEF iter
<1>5. AddsUp(iter, w, S)
  <2>1. iter = [s \in SUBSET S |-> wstep(iter, s)]
    BY <1>2, <1>4
  <2> QED
    BY <2>1 DEF AddsUp, wstep
<1> QED
  BY <1>1, <1>5, AddsUpToTotal

\* And the indices of offsets,
LEMMA IndicesAreSummed ==
  ASSUME NEW S, IsFiniteSet(S), NEW w,
         \A i \in S : w[i] = i - 1 /\ w[i] \in Int
  PROVE  MapThenSumSet(LAMBDA i : i - 1, S) = Total(w, S)
<1> DEFINE value(i) == i - 1
           step(g, s) == IF s = {} THEN 0
                         ELSE LET x == CHOOSE y \in s : TRUE IN value(x) + g[s \ {x}]
           wstep(g, s) == IF s = {} THEN 0
                          ELSE LET x == CHOOSE y \in s : TRUE IN w[x] + g[s \ {x}]
           iter == CHOOSE g : g = [s \in SUBSET S |-> step(g, s)]
           total == Totals(w, S)
<1>1. MapThenSumSet(LAMBDA i : i - 1, S) = iter[S]
  BY DEF MapThenSumSet, MapThenFoldSet
<1>2. \A g : \A s \in SUBSET S : step(g, s) = wstep(g, s)
  <2>1. \A x \in S : value(x) = w[x]
    OBVIOUS
  <2> HIDE DEF value
  <2>2. \A s \in SUBSET S : s # {} => (CHOOSE y \in s : TRUE) \in S
    OBVIOUS
  <2> QED
    BY <2>1, <2>2
<1>3. total = [s \in SUBSET S |-> wstep(total, s)]
  <2>1. AddsUp(total, w, S)
    BY TotalsFold
  <2> QED
    BY <2>1 DEF AddsUp
<1> HIDE DEF total, step, wstep
<1>4. iter = [s \in SUBSET S |-> step(iter, s)]
  <2>1. total = [s \in SUBSET S |-> step(total, s)]
    BY <1>2, <1>3
  <2> QED
    BY <2>1
<1> HIDE DEF iter
<1>5. AddsUp(iter, w, S)
  <2>1. iter = [s \in SUBSET S |-> wstep(iter, s)]
    BY <1>2, <1>4
  <2> QED
    BY <2>1 DEF AddsUp, wstep
<1> QED
  BY <1>1, <1>5, AddsUpToTotal

\* their squares,
LEMMA SquaresAreSummed ==
  ASSUME NEW S, IsFiniteSet(S), NEW w,
         \A i \in S : w[i] = (i - 1) * (i - 1) /\ w[i] \in Int
  PROVE  MapThenSumSet(LAMBDA i : (i - 1) * (i - 1), S) = Total(w, S)
<1> DEFINE value(i) == (i - 1) * (i - 1)
           step(g, s) == IF s = {} THEN 0
                         ELSE LET x == CHOOSE y \in s : TRUE IN value(x) + g[s \ {x}]
           wstep(g, s) == IF s = {} THEN 0
                          ELSE LET x == CHOOSE y \in s : TRUE IN w[x] + g[s \ {x}]
           iter == CHOOSE g : g = [s \in SUBSET S |-> step(g, s)]
           total == Totals(w, S)
<1>1. MapThenSumSet(LAMBDA i : (i - 1) * (i - 1), S) = iter[S]
  BY DEF MapThenSumSet, MapThenFoldSet
<1>2. \A g : \A s \in SUBSET S : step(g, s) = wstep(g, s)
  <2>1. \A x \in S : value(x) = w[x]
    OBVIOUS
  <2> HIDE DEF value
  <2>2. \A s \in SUBSET S : s # {} => (CHOOSE y \in s : TRUE) \in S
    OBVIOUS
  <2> QED
    BY <2>1, <2>2
<1>3. total = [s \in SUBSET S |-> wstep(total, s)]
  <2>1. AddsUp(total, w, S)
    BY TotalsFold
  <2> QED
    BY <2>1 DEF AddsUp
<1> HIDE DEF total, step, wstep
<1>4. iter = [s \in SUBSET S |-> step(iter, s)]
  <2>1. total = [s \in SUBSET S |-> step(total, s)]
    BY <1>2, <1>3
  <2> QED
    BY <2>1
<1> HIDE DEF iter
<1>5. AddsUp(iter, w, S)
  <2>1. iter = [s \in SUBSET S |-> wstep(iter, s)]
    BY <1>2, <1>4
  <2> QED
    BY <2>1 DEF AddsUp, wstep
<1> QED
  BY <1>1, <1>5, AddsUpToTotal

\* the offsets,
LEMMA OffsetsAreSummed ==
  ASSUME NEW offsets, NEW S, IsFiniteSet(S), NEW w,
         \A i \in S : w[i] = offsets[i] /\ w[i] \in Int
  PROVE  MapThenSumSet(LAMBDA i : offsets[i], S) = Total(w, S)
<1> DEFINE value(i) == offsets[i]
           step(g, s) == IF s = {} THEN 0
                         ELSE LET x == CHOOSE y \in s : TRUE IN value(x) + g[s \ {x}]
           wstep(g, s) == IF s = {} THEN 0
                          ELSE LET x == CHOOSE y \in s : TRUE IN w[x] + g[s \ {x}]
           iter == CHOOSE g : g = [s \in SUBSET S |-> step(g, s)]
           total == Totals(w, S)
<1>1. MapThenSumSet(LAMBDA i : offsets[i], S) = iter[S]
  BY DEF MapThenSumSet, MapThenFoldSet
<1>2. \A g : \A s \in SUBSET S : step(g, s) = wstep(g, s)
  <2>1. \A x \in S : value(x) = w[x]
    OBVIOUS
  <2> HIDE DEF value
  <2>2. \A s \in SUBSET S : s # {} => (CHOOSE y \in s : TRUE) \in S
    OBVIOUS
  <2> QED
    BY <2>1, <2>2
<1>3. total = [s \in SUBSET S |-> wstep(total, s)]
  <2>1. AddsUp(total, w, S)
    BY TotalsFold
  <2> QED
    BY <2>1 DEF AddsUp
<1> HIDE DEF total, step, wstep
<1>4. iter = [s \in SUBSET S |-> step(iter, s)]
  <2>1. total = [s \in SUBSET S |-> step(total, s)]
    BY <1>2, <1>3
  <2> QED
    BY <2>1
<1> HIDE DEF iter
<1>5. AddsUp(iter, w, S)
  <2>1. iter = [s \in SUBSET S |-> wstep(iter, s)]
    BY <1>2, <1>4
  <2> QED
    BY <2>1 DEF AddsUp, wstep
<1> QED
  BY <1>1, <1>5, AddsUpToTotal

\* and their products with the indices.
LEMMA ProductsAreSummed ==
  ASSUME NEW offsets, NEW S, IsFiniteSet(S), NEW w,
         \A i \in S : w[i] = (i - 1) * offsets[i] /\ w[i] \in Int
  PROVE  MapThenSumSet(LAMBDA i : (i - 1) * offsets[i], S) = Total(w, S)
<1> DEFINE value(i) == (i - 1) * offsets[i]
           step(g, s) == IF s = {} THEN 0
                         ELSE LET x == CHOOSE y \in s : TRUE IN value(x) + g[s \ {x}]
           wstep(g, s) == IF s = {} THEN 0
                          ELSE LET x == CHOOSE y \in s : TRUE IN w[x] + g[s \ {x}]
           iter == CHOOSE g : g = [s \in SUBSET S |-> step(g, s)]
           total == Totals(w, S)
<1>1. MapThenSumSet(LAMBDA i : (i - 1) * offsets[i], S) = iter[S]
  BY DEF MapThenSumSet, MapThenFoldSet
<1>2. \A g : \A s \in SUBSET S : step(g, s) = wstep(g, s)
  <2>1. \A x \in S : value(x) = w[x]
    OBVIOUS
  <2> HIDE DEF value
  <2>2. \A s \in SUBSET S : s # {} => (CHOOSE y \in s : TRUE) \in S
    OBVIOUS
  <2> QED
    BY <2>1, <2>2
<1>3. total = [s \in SUBSET S |-> wstep(total, s)]
  <2>1. AddsUp(total, w, S)
    BY TotalsFold
  <2> QED
    BY <2>1 DEF AddsUp
<1> HIDE DEF total, step, wstep
<1>4. iter = [s \in SUBSET S |-> step(iter, s)]
  <2>1. total = [s \in SUBSET S |-> step(total, s)]
    BY <1>2, <1>3
  <2> QED
    BY <2>1
<1> HIDE DEF iter
<1>5. AddsUp(iter, w, S)
  <2>1. iter = [s \in SUBSET S |-> wstep(iter, s)]
    BY <1>2, <1>4
  <2> QED
    BY <2>1 DEF AddsUp, wstep
<1> QED
  BY <1>1, <1>5, AddsUpToTotal

\* A sum over the first k numbers is that over k - 1 of them and the last term.
LEMMA TotalStep ==
  ASSUME NEW n \in Nat, NEW w, \A i \in 1 .. n : w[i] \in Int, NEW k \in 1 .. n
  PROVE  /\ Total(w, 1 .. k) \in Int /\ Total(w, 1 .. k - 1) \in Int
         /\ Total(w, 1 .. k) = w[k] + Total(w, 1 .. k - 1)
<1> DEFINE S == 1 .. k
<1>1. IsFiniteSet(S)
  <2>1. 1 \in Int /\ k \in Int
    OBVIOUS
  <2> QED
    BY <2>1, FS_Interval
<1>2. (\A i \in S : w[i] \in Int) /\ k \in S /\ S \ {k} = 1 .. k - 1
  OBVIOUS
<1> HIDE DEF S
<1>3. /\ Total(w, S) \in Int /\ Total(w, S \ {k}) \in Int
      /\ Total(w, S) = w[k] + Total(w, S \ {k})
  BY <1>1, <1>2, TotalAdds
<1> QED
  BY <1>2, <1>3 DEF S

\* One more index: the denominator of the slope grows.
LEMMA DenominatorStep ==
  ASSUME NEW k \in Nat, NEW s \in Int, NEW q \in Int, q >= 0, k * q - s * s >= 0, 2 * s = k * (k - 1)
  PROVE  /\ 2 * (k + s) = (k + 1) * k /\ k * k + q >= 0
         /\ (k + 1) * (k * k + q) - (k + s) * (k + s) >= 0
<1>1. 2 * (k + s) = (k + 1) * k
  OBVIOUS
<1>2. k * k \in Nat
  OBVIOUS
<1>3. (k + 1) * (k * k + q) - (k + s) * (k + s) = (k * q - s * s) + q + k * k
  <2>1. (k + 1) * (k * k + q) = k * (k * k) + k * q + k * k + q
    OBVIOUS
  <2>2. (k + s) * (k + s) = k * k + k * (2 * s) + s * s
    OBVIOUS
  <2>3. k * (2 * s) = k * (k * k) - k * k
    <3>1. k * (2 * s) = k * (k * (k - 1))
      OBVIOUS
    <3>2. k * (k - 1) = k * k - k
      OBVIOUS
    <3> QED
      BY <3>1, <3>2
  <2> QED
    BY <2>1, <2>2, <2>3
<1>4. k * q - s * s \in Int
  OBVIOUS
<1> QED
  BY <1>1, <1>2, <1>3, <1>4

\* It is never negative.
LEMMA DenominatorIsNat ==
  ASSUME NEW n \in Nat, NEW w, \A i \in 1 .. n : w[i] = i - 1,
         NEW v, \A i \in 1 .. n : v[i] = (i - 1) * (i - 1)
  PROVE  /\ Total(w, 1 .. n) \in Int /\ Total(v, 1 .. n) \in Int
         /\ n * Total(v, 1 .. n) - Total(w, 1 .. n) * Total(w, 1 .. n) \in Nat
<1> DEFINE s(k) == Total(w, 1 .. k)
           q(k) == Total(v, 1 .. k)
           good(k) == /\ s(k) \in Int /\ q(k) \in Int /\ q(k) >= 0
                      /\ k * q(k) - s(k) * s(k) >= 0 /\ 2 * s(k) = k * (k - 1)
           bad == {k \in Nat : k \in 0 .. n /\ ~good(k)}
<1>1. \A i \in 1 .. n : w[i] \in Int /\ v[i] \in Int
  OBVIOUS
<1>2. good(0)
  <2>1. 1 .. 0 = {}
    OBVIOUS
  <2>2. s(0) = 0 /\ q(0) = 0
    BY <2>1, TotalOfNone
  <2> HIDE DEF s, q
  <2> QED
    BY <2>2
<1>3. ASSUME NEW k \in 0 .. n - 1, good(k) PROVE good(k + 1)
  <2>1. k \in Nat /\ k + 1 \in 1 .. n /\ (k + 1) - 1 = k
    OBVIOUS
  <2>2. w[k + 1] = k /\ v[k + 1] = k * k
    BY <2>1
  <2>3. s(k + 1) \in Int /\ q(k + 1) \in Int /\ s(k + 1) = k + s(k) /\ q(k + 1) = k * k + q(k)
    <3>1. s(k + 1) \in Int /\ s(k + 1) = w[k + 1] + Total(w, 1 .. (k + 1) - 1)
      BY <1>1, <2>1, TotalStep
    <3>2. q(k + 1) \in Int /\ q(k + 1) = v[k + 1] + Total(v, 1 .. (k + 1) - 1)
      BY <1>1, <2>1, TotalStep
    <3> QED
      BY <2>1, <2>2, <3>1, <3>2
  <2> HIDE DEF s, q
  <2>4. PICK x, y : x = s(k) /\ y = q(k)
    OBVIOUS
  <2>5. /\ k \in Nat /\ x \in Int /\ y \in Int /\ y >= 0 /\ k * y - x * x >= 0
        /\ 2 * x = k * (k - 1)
    BY <1>3, <2>1, <2>4
  <2>6. /\ 2 * (k + x) = (k + 1) * k /\ k * k + y >= 0
        /\ (k + 1) * (k * k + y) - (k + x) * (k + x) >= 0
    BY <2>5, DenominatorStep
  <2> QED
    BY <2>1, <2>3, <2>4, <2>6
<1> HIDE DEF good
<1>4. ASSUME bad # {} PROVE FALSE
  <2>1. PICK k \in bad : \A m \in bad : k <= m
    BY <1>4, LeastElement
  <2>2. k \in Nat /\ k \in 0 .. n /\ ~good(k)
    BY <2>1
  <2>3. CASE k = 0
    BY <1>2, <2>2, <2>3
  <2>4. CASE k # 0
    <3>1. k - 1 \in Nat /\ k - 1 < k /\ k - 1 \in 0 .. n /\ k - 1 \in 0 .. n - 1 /\ (k - 1) + 1 = k
      BY <2>2, <2>4
    <3>2. k - 1 \notin bad
      <4> HIDE DEF bad
      <4> QED
        BY <2>1, <2>2, <3>1
    <3>3. good(k - 1)
      BY <3>1, <3>2
    <3> QED
      BY <1>3, <2>2, <3>1, <3>3
  <2> QED
    BY <2>3, <2>4
<1>5. good(n)
  <2>1. n \notin bad /\ n \in 0 .. n
    BY <1>4
  <2> QED
    BY <2>1
<1> HIDE DEF s, q
<1>6. s(n) \in Int /\ q(n) \in Int /\ n * q(n) - s(n) * s(n) >= 0
  BY <1>5 DEF good
<1>7. n * q(n) - s(n) * s(n) \in Nat
  <2>1. PICK x, y : x = s(n) /\ y = q(n)
    OBVIOUS
  <2>2. n * y - x * x \in Int
    BY <1>6, <2>1
  <2> QED
    BY <1>6, <2>1, <2>2
<1> QED
  BY <1>6, <1>7 DEF s, q

\* A quotient by a positive number is a number.
LEMMA TruncatedIsWhole ==
  ASSUME NEW a \in Int, NEW b \in Nat \ {0}
  PROVE  Truncated(a, b) \in Int
<1>1. a \div b \in Int /\ (-a) \div b \in Int
  OBVIOUS
<1> QED
  BY <1>1 DEF Truncated

\* The line has whole numbers for slope and intercept.
LEMMA LineIsWhole ==
  ASSUME NEW offsets \in Seq(Int), offsets # <<>>
  PROVE  OffsetLine(offsets).slope \in Int /\ OffsetLine(offsets).intercept \in Int
<1> DEFINE n == Len(offsets)
           S == 1 .. n
           w == [i \in S |-> i - 1]
           v == [i \in S |-> (i - 1) * (i - 1)]
           p == [i \in S |-> (i - 1) * offsets[i]]
           sumX == MapThenSumSet(LAMBDA i : i - 1, S)
           sumY == MapThenSumSet(LAMBDA i : offsets[i], S)
           sumXX == MapThenSumSet(LAMBDA i : (i - 1) * (i - 1), S)
           sumXY == MapThenSumSet(LAMBDA i : (i - 1) * offsets[i], S)
           denominator == n * sumXX - sumX * sumX
           slope == Truncated(n * sumXY - sumX * sumY, denominator)
<1>1. n \in Nat \ {0} /\ \A i \in S : offsets[i] \in Int /\ i \in Int
  OBVIOUS
<1>2. IsFiniteSet(S)
  <2>1. 1 \in Int /\ n \in Int
    BY <1>1
  <2> QED
    BY <2>1, FS_Interval
<1>3. OffsetLine(offsets) = IF denominator = 0 THEN [slope |-> 0, intercept |-> offsets[1]]
                            ELSE [slope |-> slope, intercept |-> Truncated(sumY - slope * sumX, n)]
  BY DEF OffsetLine
<1>4. \A i \in S : /\ w[i] = i - 1 /\ w[i] \in Int
                   /\ v[i] = (i - 1) * (i - 1) /\ v[i] \in Int
                   /\ p[i] = (i - 1) * offsets[i] /\ p[i] \in Int
  BY <1>1
<1> HIDE DEF w, v, p, n
<1>5. sumX = Total(w, S)
  BY <1>2, <1>4, IndicesAreSummed
<1>6. sumXX = Total(v, S)
  BY <1>2, <1>4, SquaresAreSummed
<1>7. sumXY = Total(p, S)
  BY <1>2, <1>4, ProductsAreSummed
<1>8. sumY = Total(offsets, S)
  BY <1>1, <1>2, OffsetsAreSummed
<1> HIDE DEF sumX, sumY, sumXX, sumXY
<1>9. sumX \in Int /\ sumXX \in Int /\ denominator \in Nat
  <2>1. n \in Nat /\ (\A i \in 1 .. n : w[i] = i - 1) /\ (\A i \in 1 .. n : v[i] = (i - 1) * (i - 1))
    BY <1>1, <1>4
  <2>2. /\ Total(w, 1 .. n) \in Int /\ Total(v, 1 .. n) \in Int
        /\ n * Total(v, 1 .. n) - Total(w, 1 .. n) * Total(w, 1 .. n) \in Nat
    BY <2>1, DenominatorIsNat
  <2> QED
    BY <1>5, <1>6, <2>2
<1>10. sumY \in Int /\ sumXY \in Int
  <2>1. n \in 1 .. n /\ n \in Nat /\ (\A i \in 1 .. n : p[i] \in Int)
        /\ (\A i \in 1 .. n : offsets[i] \in Int)
    BY <1>1, <1>4
  <2>2. Total(p, 1 .. n) \in Int
    BY <2>1, TotalStep
  <2>3. Total(offsets, 1 .. n) \in Int
    BY <2>1, TotalStep
  <2> QED
    BY <1>7, <1>8, <2>2, <2>3
<1>11. CASE denominator = 0
  <2>1. offsets[1] \in Int
    BY <1>1
  <2> QED
    BY <1>3, <1>11, <2>1
<1>12. CASE denominator # 0
  <2>1. denominator \in Nat \ {0} /\ n * sumXY - sumX * sumY \in Int
    <3>1. n \in Int
      BY <1>1
    <3> HIDE DEF denominator
    <3> QED
      BY <1>9, <1>10, <1>12, <3>1
  <2>2. OffsetLine(offsets) = [slope |-> slope, intercept |-> Truncated(sumY - slope * sumX, n)]
    BY <1>3, <1>12
  <2>3. slope \in Int
    <3> HIDE DEF denominator
    <3> QED
      BY <2>1, TruncatedIsWhole
  <2> HIDE DEF slope
  <2>4. sumY - slope * sumX \in Int
    BY <1>9, <1>10, <2>3
  <2>5. Truncated(sumY - slope * sumX, n) \in Int
    BY <1>1, <2>4, TruncatedIsWhole
  <2> QED
    BY <2>2, <2>3, <2>5
<1> QED
  BY <1>11, <1>12

\* What the line misses the offsets by brings them back.
LEMMA OffsetsComeBack ==
  ASSUME NEW offsets \in Seq(Int), offsets # <<>>
  PROVE  OffsetsOf(CompactOffsets(offsets)) = offsets
<1> DEFINE line == OffsetLine(offsets)
           n == Len(offsets)
           compact == CompactOffsets(offsets)
           residual(j) == offsets[j] - Predicted(line, j - 1)
<1>1. line.slope \in Int /\ line.intercept \in Int
  BY LineIsWhole
<1>2. n \in Nat /\ DOMAIN offsets = 1 .. n /\ offsets = [j \in 1 .. n |-> offsets[j]]
  OBVIOUS
<1> HIDE DEF line
<1>3. compact.line = line /\ compact.residuals = [j \in 1 .. n |-> residual(j)]
  BY <1>2 DEF CompactOffsets, line
<1> HIDE DEF compact, residual
<1>4. DOMAIN compact.residuals = 1 .. n /\ \A j \in 1 .. n : compact.residuals[j] = residual(j)
  BY <1>3
<1>5. OffsetsOf(compact) = [j \in 1 .. n |-> Predicted(line, j - 1) + residual(j)]
  BY <1>3, <1>4 DEF OffsetsOf
<1>6. ASSUME NEW j \in 1 .. n PROVE Predicted(line, j - 1) + residual(j) = offsets[j]
  <2>1. PICK x : x = Predicted(line, j - 1)
    OBVIOUS
  <2>2. x \in Int
    <3>1. PICK a, b : a = line.slope /\ b = line.intercept
      OBVIOUS
    <3>2. a \in Int /\ b \in Int /\ j - 1 \in Int /\ x = a * (j - 1) + b
      BY <1>1, <2>1, <3>1 DEF Predicted
    <3> QED
      BY <3>2
  <2>3. offsets[j] \in Int
    BY <1>2
  <2> QED
    BY <2>1, <2>2, <2>3 DEF residual
<1> QED
  BY <1>2, <1>5, <1>6 DEF compact

-----------------------------------------------------------------------------
(* Strings compressed one by one.                                          *)

\* Sequences in a row, ending at e: one behind the other.
InARow(r, S, seqs, e, n) ==
  /\ r \in Seq(S) /\ Len(r) = e[n]
  /\ \A j \in 1 .. n : Has(r, e[j - 1], seqs[j])

\* There is such a row.
LEMMA RowExists ==
  ASSUME NEW S, NEW n \in Nat, NEW seqs \in [1 .. n -> Seq(S)], NEW e \in [0 .. n -> Nat], e[0] = 0,
         \A j \in 1 .. n : e[j] = e[j - 1] + Len(seqs[j])
  PROVE  \E r : InARow(r, S, seqs, e, n)
<1> DEFINE good(k) == \E r : InARow(r, S, seqs, e, k)
           bad == {k \in Nat : k \in 0 .. n /\ ~good(k)}
<1>1. good(0)
  <2>1. <<>> \in Seq(S) /\ Len(<<>>) = 0 /\ 1 .. 0 = {}
    OBVIOUS
  <2>2. InARow(<<>>, S, seqs, e, 0)
    BY <2>1 DEF InARow
  <2> QED
    BY <2>2
<1>2. ASSUME NEW k \in 1 .. n, good(k - 1) PROVE good(k)
  <2>1. PICK r : InARow(r, S, seqs, e, k - 1)
    BY <1>2
  <2>2. PICK s : s = seqs[k]
    OBVIOUS
  <2>3. PICK x : x = r \o s
    OBVIOUS
  <2>4. r \in Seq(S) /\ s \in Seq(S) /\ Len(r) = e[k - 1] /\ Len(r) \in Nat /\ Len(s) \in Nat
    BY <2>1, <2>2 DEF InARow
  <2>5. /\ x \in Seq(S) /\ Len(x) = Len(r) + Len(s)
        /\ \A i \in 1 .. Len(r) : x[i] = r[i]
        /\ \A i \in 1 .. Len(s) : x[Len(r) + i] = s[i]
    <3>1. \A u, v \in Seq(S) :
            /\ u \o v \in Seq(S) /\ Len(u \o v) = Len(u) + Len(v)
            /\ \A i \in 1 .. Len(u) : (u \o v)[i] = u[i]
            /\ \A i \in 1 .. Len(v) : (u \o v)[Len(u) + i] = v[i]
      BY SequenceParts
    <3> QED
      BY <2>3, <2>4, <3>1
  <2>6. Len(x) = e[k]
    BY <2>2, <2>4, <2>5
  <2>7. ASSUME NEW j \in 1 .. k PROVE Has(x, e[j - 1], seqs[j])
    <3>1. CASE j = k
      <4>1. e[j - 1] = Len(r) /\ seqs[j] = s
        BY <2>2, <2>4, <3>1
      <4> QED
        BY <2>4, <2>5, <4>1 DEF Has
    <3>2. CASE j # k
      <4>1. j \in 1 .. k - 1 /\ j \in 1 .. n /\ j - 1 \in 0 .. n
        BY <3>2
      <4>2. Has(r, e[j - 1], seqs[j])
        BY <2>1, <4>1 DEF InARow
      <4>3. PICK o, t : o = e[j - 1] /\ t = seqs[j]
        OBVIOUS
      <4>4. o \in Nat /\ t \in Seq(S) /\ Len(t) \in Nat /\ Has(r, o, t)
        BY <4>1, <4>2, <4>3
      <4>5. Has(x, o, t)
        <5>1. o + Len(t) <= Len(r) /\ \A m \in 1 .. Len(t) : r[o + m] = t[m]
          BY <4>4 DEF Has
        <5>2. o + Len(t) <= Len(x)
          BY <2>4, <2>5, <4>4, <5>1
        <5>3. ASSUME NEW m \in 1 .. Len(t) PROVE x[o + m] = t[m]
          <6>1. o + m \in 1 .. Len(r)
            BY <2>4, <4>4, <5>1
          <6>2. x[o + m] = r[o + m]
            BY <2>5, <6>1
          <6> QED
            BY <5>1, <6>2
        <5> QED
          BY <5>2, <5>3 DEF Has
      <4> QED
        BY <4>3, <4>5
    <3> QED
      BY <3>1, <3>2
  <2>8. InARow(x, S, seqs, e, k)
    BY <2>5, <2>6, <2>7 DEF InARow
  <2> QED
    BY <2>8
<1> HIDE DEF good
<1>3. ASSUME bad # {} PROVE FALSE
  <2>1. PICK k \in bad : \A m \in bad : k <= m
    BY <1>3, LeastElement
  <2>2. k \in Nat /\ k \in 0 .. n /\ ~good(k)
    BY <2>1
  <2>3. CASE k = 0
    BY <1>1, <2>2, <2>3
  <2>4. CASE k # 0
    <3>1. k - 1 \in Nat /\ k - 1 < k /\ k - 1 \in 0 .. n /\ k \in 1 .. n
      BY <2>2, <2>4
    <3>2. k - 1 \notin bad
      <4> HIDE DEF bad
      <4> QED
        BY <2>1, <2>2, <3>1
    <3>3. good(k - 1)
      BY <3>1, <3>2
    <3> QED
      BY <1>2, <2>2, <3>1, <3>3
  <2> QED
    BY <2>3, <2>4
<1>4. good(n)
  <2>1. n \in 0 .. n /\ n \in Nat
    OBVIOUS
  <2>2. bad = {}
    BY <1>3
  <2> QED
    BY <2>1, <2>2
<1> QED
  BY <1>4 DEF good

\* FlattenSeq makes it.
LEMMA FlattenedInARow ==
  ASSUME NEW S, NEW n \in Nat, NEW seqs \in [1 .. n -> Seq(S)], NEW e \in [0 .. n -> Nat], e[0] = 0,
         \A j \in 1 .. n : e[j] = e[j - 1] + Len(seqs[j])
  PROVE  InARow(Seqs!FlattenSeq(seqs), S, seqs, e, n)
<1>1. PICK r : InARow(r, S, seqs, e, n)
  BY RowExists
<1>2. Seqs!FlattenSeq(seqs) = r
  <2>1. r \in Seq(S) /\ e[n] = Len(r)
    BY <1>1 DEF InARow
  <2>2. \A j \in 1 .. n : e[j] = e[j - 1] + Len(seqs[j]) /\ Has(r, e[j - 1], seqs[j])
    BY <1>1 DEF InARow
  <2> QED
    BY <2>1, <2>2, Flattened
<1> QED
  BY <1>1, <1>2

\* The lengths of sequences, their sums, and where the sequences end in a row.
Lengths(w, seqs, n) == \A d \in 1 .. n : w[d] = Len(seqs[d])
Sums(e, w, n) == \A k \in 0 .. n : e[k] = Total(w, 1 .. k)
Ends(e, seqs, n) ==
  /\ e[0] = 0 /\ \A k \in 0 .. n : e[k] \in Nat
  /\ \A j \in 1 .. n : e[j] = e[j - 1] + Len(seqs[j])

\* The ends of sequences that stand in a row are the sums of their lengths.
LEMMA EndsOfRow ==
  ASSUME NEW S, NEW n \in Nat, NEW codes \in [1 .. n -> Seq(S)], NEW w, NEW e,
         Lengths(w, codes, n), Sums(e, w, n)
  PROVE  Ends(e, codes, n)
<1>1. ASSUME NEW d \in 1 .. n PROVE w[d] = Len(codes[d]) /\ w[d] \in Nat
  <2>1. codes[d] \in Seq(S)
    OBVIOUS
  <2>2. Len(codes[d]) \in Nat
    BY <2>1
  <2> QED
    BY <2>2 DEF Lengths
<1>2. e[0] = 0
  <2>1. 1 .. 0 = {} /\ 0 \in 0 .. n
    OBVIOUS
  <2>2. e[0] = Total(w, 1 .. 0)
    BY <2>1 DEF Sums
  <2> QED
    BY <2>1, <2>2, TotalOfNone
<1>3. ASSUME NEW j \in 1 .. n
      PROVE  e[j] \in Int /\ e[j - 1] \in Int /\ e[j] = e[j - 1] + Len(codes[j])
  <2>1. \A i \in 1 .. n : w[i] \in Int
    BY <1>1
  <2>2. /\ Total(w, 1 .. j) \in Int /\ Total(w, 1 .. j - 1) \in Int
        /\ Total(w, 1 .. j) = w[j] + Total(w, 1 .. j - 1)
    BY <2>1, TotalStep
  <2>3. j \in 0 .. n /\ j - 1 \in 0 .. n
    OBVIOUS
  <2>4. e[j] = Total(w, 1 .. j) /\ e[j - 1] = Total(w, 1 .. j - 1)
    BY <2>3 DEF Sums
  <2> QED
    BY <1>1, <2>2, <2>4
<1> DEFINE bad == {k \in Nat : k \in 0 .. n /\ e[k] \notin Nat}
<1>4. ASSUME bad # {} PROVE FALSE
  <2>1. PICK k \in bad : \A m \in bad : k <= m
    BY <1>4, LeastElement
  <2>2. k \in Nat /\ k \in 0 .. n /\ e[k] \notin Nat
    BY <2>1
  <2>3. k # 0
    BY <1>2, <2>2
  <2>4. k - 1 \in Nat /\ k - 1 < k /\ k - 1 \in 0 .. n /\ k \in 1 .. n
    BY <2>2, <2>3
  <2>5. k - 1 \notin bad
    <3> HIDE DEF bad
    <3> QED
      BY <2>1, <2>2, <2>4
  <2>6. e[k - 1] \in Nat
    BY <2>4, <2>5
  <2>7. e[k] = e[k - 1] + w[k] /\ w[k] \in Nat
    BY <1>1, <1>3, <2>4
  <2> QED
    BY <2>2, <2>6, <2>7
<1>5. bad = {}
  BY <1>4
<1>6. \A k \in 0 .. n : e[k] \in Nat
  <2> TAKE k \in 0 .. n
  <2>1. k \in Nat
    OBVIOUS
  <2>2. k \notin bad
    <3> HIDE DEF bad
    <3> QED
      BY <1>5
  <2> QED
    BY <2>1, <2>2
<1> QED
  BY <1>2, <1>3, <1>6 DEF Ends

\* A part, cut out of a sequence that has it.
LEMMA CutOut ==
  ASSUME NEW S, NEW r \in Seq(S), NEW s \in Seq(S), NEW a \in Nat, Has(r, a, s),
         NEW b, b = a + Len(s)
  PROVE  SubSeq(r, a + 1, b) = s
<1>1. PICK c : c = a + 1
  OBVIOUS
<1>2. Len(s) \in Nat /\ Len(r) \in Nat
  OBVIOUS
<1>3. b <= Len(r) /\ \A k \in 1 .. Len(s) : r[a + k] = s[k]
  BY <1>2 DEF Has
<1>4. b \in Nat /\ c \in Nat \ {0} /\ c <= b + 1 /\ b - c + 1 = Len(s)
  BY <1>1, <1>2
<1>5. /\ SubSeq(r, c, b) \in Seq(S) /\ Len(SubSeq(r, c, b)) = b - c + 1
      /\ \A k \in 1 .. b - c + 1 : SubSeq(r, c, b)[k] = r[c + k - 1]
  <2>1. b <= Len(r)
    BY <1>3
  <2> QED
    BY <1>4, <2>1, PartIs
<1>6. PICK t : t = SubSeq(r, c, b)
  OBVIOUS
<1>7. t \in Seq(S) /\ Len(t) = Len(s)
  BY <1>4, <1>5, <1>6
<1>8. \A k \in 1 .. Len(s) : t[k] = s[k]
  <2> TAKE k \in 1 .. Len(s)
  <2>1. c + k - 1 = a + k
    BY <1>1
  <2>2. t[k] = r[c + k - 1]
    BY <1>4, <1>5, <1>6
  <2> QED
    BY <1>3, <2>1, <2>2
<1>9. t = [k \in 1 .. Len(s) |-> t[k]] /\ s = [k \in 1 .. Len(s) |-> s[k]]
  BY <1>7
<1>10. t = s
  BY <1>8, <1>9
<1> QED
  BY <1>1, <1>6, <1>10

\* Each of the sequences, cut out of the row.
CutsOut(r, e, seqs, n) == \A j \in 1 .. n : SubSeq(r, e[j - 1] + 1, e[j]) = seqs[j]

\* Cut at its ends, a row of sequences gives each of them.
LEMMA RowComesApart ==
  ASSUME NEW S, NEW n \in Nat, NEW seqs \in [1 .. n -> Seq(S)], NEW e \in [0 .. n -> Nat],
         Ends(e, seqs, n)
  PROVE  CutsOut(Seqs!FlattenSeq(seqs), e, seqs, n)
<1>1. PICK r : r = Seqs!FlattenSeq(seqs)
  OBVIOUS
<1>2. InARow(r, S, seqs, e, n)
  <2>1. InARow(Seqs!FlattenSeq(seqs), S, seqs, e, n)
    BY FlattenedInARow DEF Ends
  <2> QED
    BY <1>1, <2>1
<1>3. ASSUME NEW j \in 1 .. n PROVE SubSeq(r, e[j - 1] + 1, e[j]) = seqs[j]
  <2>1. PICK a, b, s : a = e[j - 1] /\ b = e[j] /\ s = seqs[j]
    OBVIOUS
  <2>2. j - 1 \in 0 .. n /\ j \in 0 .. n
    OBVIOUS
  <2>3. a \in Nat /\ s \in Seq(S) /\ b = a + Len(s)
    BY <2>1, <2>2 DEF Ends
  <2>4. r \in Seq(S) /\ Has(r, a, s)
    BY <1>2, <2>1 DEF InARow
  <2>5. SubSeq(r, a + 1, b) = s
    <3>1. \A T : r \in Seq(T) /\ s \in Seq(T) => SubSeq(r, a + 1, b) = s
      BY <2>3, <2>4, CutOut
    <3> QED
      BY <2>3, <2>4, <3>1
  <2> QED
    BY <2>1, <2>5
<1> QED
  BY <1>1, <1>3 DEF CutsOut

\* What decompress looks at is the symbols.
ReadsLike(reader, table) == TableOK(reader) /\ reader.symbols = table.symbols

\* Tables of the same symbols decompress codes to the same string.
LEMMA SameSymbols ==
  ASSUME NEW table, TableOK(table), NEW reader, ReadsLike(reader, table), NEW codes \in Seq(Nat)
  PROVE  Decompress(reader, codes) = Decompress(table, codes)
<1>1. PICK n : n = Len(codes)
  OBVIOUS
<1>2. PICK t \in [0 .. n -> Outputs] :
        Decodes(t, table, codes) /\ Decompress(table, codes) = t[n].output
  BY <1>1, DecompressSteps
<1>3. TableOK(reader) /\ reader.symbols = table.symbols
  BY DEF ReadsLike
<1>4. PICK r \in [0 .. n -> Outputs] :
        Decodes(r, reader, codes) /\ Decompress(reader, codes) = r[n].output
  BY <1>1, <1>3, DecompressSteps
<1>5. n \in Nat /\ r[0] = t[0]
  BY <1>1, <1>2, <1>4 DEF Decodes
<1>6. ASSUME NEW k \in 1 .. n, r[k - 1] = t[k - 1] PROVE r[k] = t[k]
  <2>1. t[k] = Decoded1(table, codes[k], t[k - 1]) /\ r[k] = Decoded1(reader, codes[k], r[k - 1])
    BY <1>1, <1>2, <1>4 DEF Decodes
  <2>2. \A s : Decoded1(table, codes[k], s) = Decoded1(reader, codes[k], s)
    BY <1>3 DEF Decoded1
  <2> QED
    BY <1>6, <2>1, <2>2
<1> DEFINE bad == {k \in Nat : k \in 0 .. n /\ r[k] # t[k]}
<1>7. ASSUME bad # {} PROVE FALSE
  <2>1. PICK k \in bad : \A m \in bad : k <= m
    BY <1>7, LeastElement
  <2>2. k \in Nat /\ k \in 0 .. n /\ r[k] # t[k]
    BY <2>1
  <2>3. k # 0
    BY <1>5, <2>2
  <2>4. k - 1 \in Nat /\ k - 1 < k /\ k - 1 \in 0 .. n /\ k \in 1 .. n
    BY <1>5, <2>2, <2>3
  <2>5. k - 1 \notin bad
    <3> HIDE DEF bad
    <3> QED
      BY <2>1, <2>2, <2>4
  <2>6. r[k - 1] = t[k - 1]
    BY <2>4, <2>5
  <2> QED
    BY <1>6, <2>2, <2>4, <2>6
<1>8. r[n] = t[n]
  <2>1. n \in Nat /\ n \in 0 .. n
    BY <1>5
  <2> QED
    BY <1>7, <2>1
<1> QED
  BY <1>2, <1>4, <1>8

\* Strings compressed one by one are decompressed one by one.
LEMMA EachRestores ==
  ASSUME NEW table, TableOK(table), NEW strings \in Seq(Seq(Nat)),
         \A d \in 1 .. Len(strings) : Safe(table, strings[d]),
         NEW compressed, compressed = CompressEach(table, strings)
  PROVE  /\ compressed.offsets \in Seq(Int) /\ compressed.offsets # <<>>
         /\ Len(compressed.offsets) = Len(strings) + 1
         /\ \A reader : ReadsLike(reader, table) =>
              DecompressEach(reader, compressed.data, compressed.offsets) = strings
         /\ DecompressEach(table, compressed.data, compressed.offsets) = strings
<1> DEFINE n == Len(strings)
           codes == [d \in DOMAIN strings |-> Compress(table, strings[d])]
           w == [d \in 1 .. n |-> Len(codes[d])]
           e == [k \in 0 .. n |-> Total(w, 1 .. k)]
           ends(k) == MapThenSumSet(LAMBDA d : Len(codes[d]), 1 .. k)
<1>1. n \in Nat /\ DOMAIN strings = 1 .. n
  OBVIOUS
<1>2. ASSUME NEW d \in 1 .. n
      PROVE  /\ codes[d] = Compress(table, strings[d])
             /\ codes[d] \in Seq(Nat) /\ Decompress(table, codes[d]) = strings[d]
  <2>1. strings[d] \in Seq(Nat) /\ Safe(table, strings[d])
    OBVIOUS
  <2> QED
    BY <1>1, <2>1, CompressedRestores
<1>3. codes \in [1 .. n -> Seq(Nat)]
  <2>1. DOMAIN codes = 1 .. n /\ codes = [d \in DOMAIN codes |-> codes[d]]
    BY <1>1
  <2> HIDE DEF codes
  <2> QED
    BY <1>2, <2>1
<1>4. /\ compressed.data = Seqs!FlattenSeq(codes)
      /\ compressed.offsets = [k \in 1 .. n + 1 |-> ends(k - 1)]
  BY DEF CompressEach
<1> HIDE DEF codes
<1>5. e \in [0 .. n -> Nat] /\ Ends(e, codes, n)
  <2>1. e = [k \in 0 .. n |-> e[k]]
    OBVIOUS
  <2>2. Lengths(w, codes, n)
    BY DEF Lengths
  <2>3. Sums(e, w, n)
    BY DEF Sums
  <2> HIDE DEF n, w, e
  <2>4. Ends(e, codes, n)
    BY <1>1, <1>3, <2>2, <2>3, EndsOfRow
  <2>5. \A k \in 0 .. n : e[k] \in Nat
    BY <2>4 DEF Ends
  <2> QED
    BY <2>1, <2>4, <2>5
<1>6. ASSUME NEW k \in 0 .. n PROVE ends(k) = e[k]
  <2>1. IsFiniteSet(1 .. k)
    <3>1. 1 \in Int /\ k \in Int
      OBVIOUS
    <3> QED
      BY <3>1, FS_Interval
  <2>2. \A d \in 1 .. k : w[d] = Len(codes[d]) /\ w[d] \in Int
    <3> TAKE d \in 1 .. k
    <3>1. d \in 1 .. n
      BY <1>1
    <3>2. codes[d] \in Seq(Nat)
      BY <1>2, <3>1
    <3>3. Len(codes[d]) \in Int
      BY <3>2
    <3> QED
      BY <3>1, <3>3
  <2>3. e[k] = Total(w, 1 .. k)
    OBVIOUS
  <2> HIDE DEF w, e
  <2> QED
    BY <2>1, <2>2, <2>3, LengthsAreSummed
<1>7. PICK f : f = compressed.offsets
  OBVIOUS
<1>8. DOMAIN f = 1 .. n + 1 /\ f = [k \in 1 .. n + 1 |-> ends(k - 1)]
  BY <1>4, <1>7
<1> HIDE DEF ends, e
<1>9. ASSUME NEW k \in 1 .. n + 1 PROVE f[k] = e[k - 1] /\ f[k] \in Nat
  <2>1. k - 1 \in 0 .. n
    BY <1>1
  <2>2. f[k] = ends(k - 1)
    BY <1>8
  <2> QED
    BY <1>5, <1>6, <2>1, <2>2
<1>10. f \in Seq(Int) /\ Len(f) = n + 1 /\ f # <<>>
  <2>1. \A k \in 1 .. n + 1 : f[k] \in Int
    BY <1>9
  <2>2. f \in [1 .. n + 1 -> Int] /\ n + 1 \in Nat
    <3> HIDE DEF n
    <3>1. f = [k \in 1 .. n + 1 |-> f[k]]
      BY <1>8
    <3> QED
      BY <1>1, <2>1, <3>1
  <2> HIDE DEF n
  <2> QED
    BY <1>1, <2>2
<1>11. PICK r : r = compressed.data
  OBVIOUS
<1>12. CutsOut(r, e, codes, n)
  <2> HIDE DEF n
  <2>1. CutsOut(Seqs!FlattenSeq(codes), e, codes, n)
    BY <1>1, <1>3, <1>5, RowComesApart
  <2> QED
    BY <1>4, <1>11, <2>1
<1>13. ASSUME NEW reader, ReadsLike(reader, table)
       PROVE  DecompressEach(reader, r, f) = strings
  <2>1. ASSUME NEW d \in 1 .. n
        PROVE  Decompress(reader, SubSeq(r, f[d] + 1, f[d + 1])) = strings[d]
    <3>1. d \in 1 .. n + 1 /\ d + 1 \in 1 .. n + 1 /\ d + 1 - 1 = d
      BY <1>1
    <3>2. f[d] = e[d - 1] /\ f[d + 1] = e[d]
      BY <1>9, <3>1
    <3>3. SubSeq(r, e[d - 1] + 1, e[d]) = codes[d]
      BY <1>12 DEF CutsOut
    <3>4. Decompress(reader, codes[d]) = Decompress(table, codes[d])
      BY <1>2, <1>13, SameSymbols
    <3> QED
      BY <1>2, <3>2, <3>3, <3>4
  <2>2. DecompressEach(reader, r, f)
          = [d \in 1 .. n |-> Decompress(reader, SubSeq(r, f[d] + 1, f[d + 1]))]
    <3>1. Len(f) - 1 = n
      BY <1>1, <1>10
    <3> QED
      BY <3>1 DEF DecompressEach
  <2>3. strings = [d \in 1 .. n |-> strings[d]]
    OBVIOUS
  <2> QED
    BY <2>1, <2>2, <2>3
<1>14. ReadsLike(table, table)
  BY DEF ReadsLike
<1> QED
  BY <1>7, <1>10, <1>11, <1>13, <1>14

-----------------------------------------------------------------------------
(* Dictionaries.                                                           *)

\* What compress may do with every string of a dictionary.
AllSafe(table, dict) == TableOK(table) /\ \A d \in 1 .. Len(dict) : Safe(table, dict[d])

\* Bytes are numbers.
LEMMA BytesAreNumbers ==
  ASSUME NEW s \in Bytes
  PROVE  s \in Seq(Nat)
<1>1. s \in Seq(0 .. ByteMax)
  BY DEF Bytes
<1>2. ByteMax \in Nat
  BY ByteMaxIs
<1> HIDE DEF ByteMax
<1>3. Len(s) \in Nat /\ \A k \in 1 .. Len(s) : s[k] \in 0 .. ByteMax
  <2>1. \A S : s \in Seq(S) => Len(s) \in Nat /\ \A k \in 1 .. Len(s) : s[k] \in S
    OBVIOUS
  <2> QED
    BY <1>1, <2>1
<1>4. \A k \in 1 .. Len(s) : s[k] \in Nat
  BY <1>2, <1>3
<1>5. s = [k \in 1 .. Len(s) |-> s[k]]
  <2>1. \A S : s \in Seq(S) => s = [k \in 1 .. Len(s) |-> s[k]]
    OBVIOUS
  <2> QED
    BY <1>1, <2>1
<1> QED
  BY <1>3, <1>4, <1>5

\* So are those of strings.
LEMMA StringsAreNumbers ==
  ASSUME NEW dict \in Seq(Bytes)
  PROVE  dict \in Seq(Seq(Nat))
<1>1. Len(dict) \in Nat /\ \A d \in 1 .. Len(dict) : dict[d] \in Bytes
  OBVIOUS
<1>2. \A d \in 1 .. Len(dict) : dict[d] \in Seq(Nat)
  BY <1>1, BytesAreNumbers
<1>3. dict = [d \in 1 .. Len(dict) |-> dict[d]]
  OBVIOUS
<1> QED
  BY <1>1, <1>2, <1>3

\* The suffixes are as safe as the entries, and are sequences of numbers.
LEMMA SuffixesAreSafe ==
  ASSUME NEW dict \in Seq(Bytes), NEW prefix, NEW suffixes, Split(dict, prefix, suffixes),
         NEW table, AllSafe(table, dict)
  PROVE  /\ suffixes \in Seq(Seq(Nat))
         /\ \A d \in 1 .. Len(suffixes) : Safe(table, suffixes[d])
<1>1. /\ prefix \in Bytes /\ suffixes \in Seq(Bytes) /\ Len(suffixes) = Len(dict)
      /\ \A d \in 1 .. Len(dict) :
           /\ Len(suffixes[d]) = Len(dict[d]) - Len(prefix)
           /\ \A k \in 1 .. Len(suffixes[d]) : suffixes[d][k] = dict[d][Len(prefix) + k]
  BY DEF Split
<1>3. suffixes \in Seq(Seq(Nat))
  BY <1>1, StringsAreNumbers
<1>4. ASSUME NEW d \in 1 .. Len(suffixes) PROVE Safe(table, suffixes[d])
  <2>1. PICK s, t, p : s = suffixes[d] /\ t = dict[d] /\ p = Len(prefix)
    OBVIOUS
  <2>2. d \in 1 .. Len(dict)
    BY <1>1
  <2>3. s \in Bytes /\ t \in Bytes /\ p \in Nat
    BY <1>1, <2>1, <2>2 DEF Bytes
  <2>4. Len(s) = Len(t) - p /\ \A k \in 1 .. Len(s) : s[k] = t[p + k]
    BY <1>1, <2>1, <2>2
  <2>5. Safe(table, t)
    BY <2>1, <2>2 DEF AllSafe
  <2>6. DOMAIN s = 1 .. Len(s) /\ DOMAIN t = 1 .. Len(t) /\ Len(s) \in Nat /\ Len(t) \in Nat
    BY <2>3 DEF Bytes
  <2>7. CASE table.phantom = <<>>
    BY <2>1, <2>7 DEF Safe
  <2>8. CASE \A k \in DOMAIN t : t[k] # 0
    <3>1. ASSUME NEW k \in DOMAIN s PROVE s[k] # 0
      <4>1. k \in 1 .. Len(s) /\ p + k \in 1 .. Len(t)
        BY <2>3, <2>4, <2>6
      <4> QED
        BY <2>4, <2>6, <2>8, <4>1
    <3> QED
      BY <2>1, <3>1 DEF Safe
  <2> QED
    BY <2>5, <2>7, <2>8 DEF Safe
<1> QED
  BY <1>3, <1>4

\* A copy has what the entries are decompressed from.
KeptAs(copy, liquid) ==
  /\ copy.prefix = liquid.prefix /\ copy.data = liquid.data
  /\ ReadsLike(copy.table, liquid.table)
  /\ OffsetsOf(copy.offsets) = OffsetsOf(liquid.offsets)

\* What is kept of the entries of a dictionary, their common prefix, their
\* compressed suffixes and the line through the offsets of these, restores them.
LEMMA EntriesComeBack ==
  ASSUME NEW dict \in Seq(Bytes), NEW table, AllSafe(table, dict), NEW packed, NEW liquid,
         liquid = Assembled(SharedPrefix(dict), SuffixesOf(dict, SharedPrefix(dict)), table, packed)
  PROVE  /\ Entries(liquid) = dict /\ liquid.packed = packed
         /\ \A copy : KeptAs(copy, liquid) => Entries(copy) = dict
<1>1. PICK prefix, suffixes :
        prefix = SharedPrefix(dict) /\ suffixes = SuffixesOf(dict, prefix)
  OBVIOUS
<1>2. Split(dict, prefix, suffixes)
  BY <1>1, SharedPrefixIs
<1>3. /\ suffixes \in Seq(Seq(Nat))
      /\ \A d \in 1 .. Len(suffixes) : Safe(table, suffixes[d])
  BY <1>2, SuffixesAreSafe
<1>4. PICK compressed : compressed = CompressEach(table, suffixes)
  OBVIOUS
<1>5. /\ compressed.offsets \in Seq(Int) /\ compressed.offsets # <<>>
      /\ \A reader : ReadsLike(reader, table) =>
           DecompressEach(reader, compressed.data, compressed.offsets) = suffixes
  <2>1. TableOK(table)
    BY DEF AllSafe
  <2> QED
    BY <1>3, <1>4, <2>1, EachRestores
<1>6. /\ liquid.prefix = prefix /\ liquid.table = table /\ liquid.data = compressed.data
      /\ liquid.offsets = CompactOffsets(compressed.offsets)
      /\ liquid.packed = packed
  BY <1>1, <1>4 DEF Assembled
<1>7. OffsetsOf(liquid.offsets) = compressed.offsets
  BY <1>5, <1>6, OffsetsComeBack
<1>8. /\ DOMAIN suffixes = 1 .. Len(dict)
      /\ \A d \in 1 .. Len(dict) : prefix \o suffixes[d] = dict[d]
  BY <1>2 DEF Split
<1>9. dict = [d \in 1 .. Len(dict) |-> dict[d]]
  OBVIOUS
<1>10. ASSUME NEW copy, KeptAs(copy, liquid) PROVE Entries(copy) = dict
  <2>1. /\ copy.prefix = prefix /\ copy.data = compressed.data /\ ReadsLike(copy.table, table)
        /\ OffsetsOf(copy.offsets) = compressed.offsets
    BY <1>6, <1>7, <1>10 DEF KeptAs
  <2>2. DecompressEach(copy.table, copy.data, OffsetsOf(copy.offsets)) = suffixes
    BY <1>5, <2>1
  <2>3. Entries(copy) = [d \in DOMAIN suffixes |-> prefix \o suffixes[d]]
    BY <2>1, <2>2 DEF Entries
  <2> QED
    BY <1>8, <1>9, <2>3
<1>11. KeptAs(liquid, liquid)
  BY <1>6 DEF KeptAs, ReadsLike, AllSafe
<1> QED
  BY <1>6, <1>10, <1>11

\* Sequences, flattened, are a sequence.
LEMMA FlattenedIsSeq ==
  ASSUME NEW S, NEW seqs \in Seq(Seq(S))
  PROVE  Seqs!FlattenSeq(seqs) \in Seq(S)
<1>1. PICK n : n = Len(seqs)
  OBVIOUS
<1>2. n \in Nat /\ seqs \in [1 .. n -> Seq(S)]
  BY <1>1
<1> DEFINE w == [d \in 1 .. n |-> Len(seqs[d])]
           e == [k \in 0 .. n |-> Total(w, 1 .. k)]
<1>3. Ends(e, seqs, n)
  <2>1. Lengths(w, seqs, n)
    BY DEF Lengths
  <2>2. Sums(e, w, n)
    BY DEF Sums
  <2> HIDE DEF w, e
  <2> QED
    BY <1>2, <2>1, <2>2, EndsOfRow
<1>4. e \in [0 .. n -> Nat]
  <2>1. e = [k \in 0 .. n |-> e[k]]
    OBVIOUS
  <2> HIDE DEF e
  <2> QED
    BY <1>3, <2>1 DEF Ends
<1> HIDE DEF e
<1>5. InARow(Seqs!FlattenSeq(seqs), S, seqs, e, n)
  BY <1>2, <1>3, <1>4, FlattenedInARow DEF Ends
<1> QED
  BY <1>5 DEF InARow

\* The slots where values are met first: one for each value.
LEMMA FirstsAre ==
  ASSUME NEW a, ByteSlice(a)
  PROVE  /\ FirstsOf(a) \in SUBSET ValidIn(a) /\ FirstsOf(a) \in SUBSET Int
         /\ IsFiniteSet(FirstsOf(a))
         /\ \A i \in ValidIn(a) : \E f \in FirstsOf(a) : SlotAt(a, f).value = SlotAt(a, i).value
         /\ \A f, g \in FirstsOf(a) : SlotAt(a, f).value = SlotAt(a, g).value => f = g
<1> DEFINE value(i) == SlotAt(a, i).value
           F == FirstsOf(a)
           V == ValidIn(a)
<1>1. Length(a) \in Nat /\ Index(a) = 0 .. Length(a) - 1 /\ V \in SUBSET Index(a)
  BY SliceIs
<1> HIDE DEF value
<1>2. F = {i \in V : \A j \in V : j < i => value(j) # value(i)}
  BY DEF FirstsOf, value
<1> HIDE DEF F, V
<1>3. V \in SUBSET Nat
  BY <1>1
<1>4. F \in SUBSET V /\ F \in SUBSET Int
  BY <1>2, <1>3
<1>5. IsFiniteSet(F)
  <2>1. 0 \in Int /\ Length(a) - 1 \in Int
    BY <1>1
  <2>2. IsFiniteSet(Index(a))
    BY <1>1, <2>1, FS_Interval
  <2>3. F \in SUBSET Index(a)
    BY <1>1, <1>4
  <2> QED
    BY <2>2, <2>3, FS_Subset
<1>6. ASSUME NEW i \in V PROVE \E f \in F : value(f) = value(i)
  <2> DEFINE same == {j \in Nat : j \in V /\ value(j) = value(i)}
  <2>1. i \in same
    BY <1>3
  <2>2. PICK f \in same : \A j \in same : f <= j
    BY <2>1, LeastElement
  <2>3. f \in Nat /\ f \in V /\ value(f) = value(i)
    BY <2>2
  <2>4. ASSUME NEW j \in V, j < f PROVE value(j) # value(f)
    <3>1. j \in Nat /\ ~(f <= j)
      BY <1>3, <2>3, <2>4
    <3>2. j \notin same
      <4> HIDE DEF same
      <4> QED
        BY <2>2, <3>1
    <3> QED
      BY <2>3, <2>4, <3>1, <3>2
  <2> QED
    BY <1>2, <2>3, <2>4
<1>7. ASSUME NEW f \in F, NEW g \in F, value(f) = value(g) PROVE f = g
  <2>1. f \in V /\ g \in V /\ f \in Int /\ g \in Int
    BY <1>4
  <2>2. ~(f < g) /\ ~(g < f)
    BY <1>2, <1>7, <2>1
  <2> QED
    BY <2>1, <2>2
<1> QED
  BY <1>4, <1>5, <1>6, <1>7 DEF F, V, value

\* The values of a set, each once.
Lists(dict, set) ==
  /\ Cardinality(set) \in Nat /\ dict \in [1 .. Cardinality(set) -> set]
  /\ \A v \in set : \E k \in 1 .. Cardinality(set) : dict[k] = v
  /\ \A j, k \in 1 .. Cardinality(set) : dict[j] = dict[k] => j = k

\* A dictionary lists the values of its array.
LEMMA DictionaryIs ==
  ASSUME NEW a, ByteSlice(a)
  PROVE  Lists(DictionaryOf(a), ValuesOf(a))
<1> DEFINE F == FirstsOf(a)
           V == ValuesOf(a)
           firsts == Ascending(F)
           n == Cardinality(F)
           value(i) == SlotAt(a, i).value
           f == [i \in F |-> value(i)]
           dict == DictionaryOf(a)
<1>1. /\ F \in SUBSET ValidIn(a) /\ F \in SUBSET Int /\ IsFiniteSet(F)
      /\ \A i \in ValidIn(a) : \E g \in F : value(g) = value(i)
      /\ \A g, h \in F : value(g) = value(h) => g = h
  BY FirstsAre
<1>2. V = {value(i) : i \in ValidIn(a)}
  BY DEF ValuesOf
<1>3. dict = [k \in DOMAIN firsts |-> value(firsts[k])]
  BY DEF DictionaryOf
<1> HIDE DEF value, F, V, dict
<1>4. Cardinality(V) = n
  <2>1. f \in [F -> V]
    BY <1>1, <1>2
  <2>2. \A g, h \in F : f[g] = f[h] => g = h
    BY <1>1
  <2>3. \A v \in V : \E g \in F : f[g] = v
    <3> TAKE v \in V
    <3>1. PICK i \in ValidIn(a) : v = value(i)
      BY <1>2
    <3>2. PICK g \in F : value(g) = value(i)
      BY <1>1
    <3> QED
      BY <3>1, <3>2
  <2>4. f \in Bijection(F, V)
    BY <2>1, <2>2, <2>3 DEF Bijection, Injection, Surjection, IsInjective
  <2>5. ExistsBijection(F, V)
    BY <2>4 DEF ExistsBijection
  <2> QED
    BY <1>1, <2>5, FS_Bijection
<1>5. /\ n \in Nat /\ firsts \in [1 .. n -> F] /\ DOMAIN firsts = 1 .. n
      /\ \A x \in F : \E j \in 1 .. n : firsts[j] = x
      /\ \A j, k \in 1 .. n : j < k => firsts[j] < firsts[k]
  BY <1>1, AscendingIs
<1> HIDE DEF firsts, n
<1>6. \A k \in 1 .. n : firsts[k] \in F /\ firsts[k] \in Int /\ firsts[k] \in ValidIn(a)
  BY <1>1, <1>5
<1>7. dict = [k \in 1 .. n |-> value(firsts[k])]
  BY <1>3, <1>5
<1>8. dict \in [1 .. n -> V]
  <2>1. \A k \in 1 .. n : value(firsts[k]) \in V
    BY <1>2, <1>6
  <2> QED
    BY <1>7, <2>1
<1>9. ASSUME NEW v \in V PROVE \E k \in 1 .. n : dict[k] = v
  <2>1. PICK i \in ValidIn(a) : v = value(i)
    BY <1>2
  <2>2. PICK g \in F : value(g) = value(i)
    BY <1>1
  <2>3. PICK k \in 1 .. n : firsts[k] = g
    BY <1>5
  <2> QED
    BY <1>7, <2>1, <2>2, <2>3
<1>10. ASSUME NEW j \in 1 .. n, NEW k \in 1 .. n, dict[j] = dict[k] PROVE j = k
  <2>1. value(firsts[j]) = value(firsts[k])
    BY <1>7, <1>10
  <2>2. firsts[j] = firsts[k]
    BY <1>1, <1>6, <2>1
  <2>3. ~(j < k) /\ ~(k < j)
    BY <1>5, <1>6, <2>2
  <2> QED
    BY <2>3
<1> QED
  BY <1>4, <1>5, <1>8, <1>9, <1>10 DEF Lists, dict, V

\* A key counts the dictionary's entries before its value, unless there are
\* more of them than a key can count.
LEMMA KeysAre ==
  ASSUME NEW a, ByteSlice(a), NEW dict, Lists(dict, ValuesOf(a)),
         Cardinality(ValuesOf(a)) <= 2^KeyBits, NEW i \in ValidIn(a)
  PROVE  /\ KeysOf(a, dict)[i] \in Nat /\ KeysOf(a, dict)[i] < Cardinality(ValuesOf(a))
         /\ dict[KeysOf(a, dict)[i] + 1] = SlotAt(a, i).value
<1> DEFINE n == Cardinality(ValuesOf(a))
           v == SlotAt(a, i).value
           place == CHOOSE k \in DOMAIN dict : dict[k] = v
           m == 2^KeyBits
           key == KeysOf(a, dict)[i]
<1>1. n \in Nat /\ m \in Nat \ {0} /\ n <= m
  <2>1. KeyBits \in Nat
    BY KeyBitsAssumption, SizesAreNumbers
  <2> QED
    BY <2>1, PowersGrow DEF Lists
<1>2. v \in ValuesOf(a) /\ DOMAIN dict = 1 .. n
  BY DEF ValuesOf, Lists
<1>3. place \in 1 .. n /\ dict[place] = v
  <2>1. \E k \in DOMAIN dict : dict[k] = v
    BY <1>2 DEF Lists
  <2> HIDE DEF v, n
  <2> QED
    BY <1>2, <2>1
<1>4. i \in Index(a)
  BY SliceIs
<1>5. key = (place - 1) % m
  <2> DEFINE where(w) == CHOOSE k \in DOMAIN dict : dict[k] = w
  <2>1. KeysOf(a, dict) = [j \in Index(a) |-> IF j \in ValidIn(a)
                             THEN (where(SlotAt(a, j).value) - 1) % m ELSE 0]
    BY DEF KeysOf
  <2>2. place = where(v)
    OBVIOUS
  <2> HIDE DEF where, place, m
  <2> QED
    BY <1>4, <2>1, <2>2
<1> HIDE DEF place, m, n, key, v
<1>6. key = place - 1
  <2>1. place - 1 \in 0 .. m - 1
    BY <1>1, <1>3
  <2> QED
    BY <1>1, <1>5, <2>1
<1>7. key \in Nat /\ key < n /\ dict[key + 1] = v
  BY <1>1, <1>3, <1>6
<1> QED
  BY <1>7 DEF key, n, v

\* As many bits as a key of a dictionary takes.
LEMMA KeyWidthIs ==
  ASSUME NEW V, NEW dict, Lists(dict, V), Cardinality(V) <= 2^KeyBits
  PROVE  /\ KeyWidth(dict, KeyBits) \in 0 .. WordBits
         /\ \A x \in Nat : x < Cardinality(V) => x < 2^KeyWidth(dict, KeyBits) /\ x < 2^KeyBits
<1> DEFINE n == Cardinality(V)
           last == IF dict = <<>> THEN 0 ELSE (Len(dict) - 1) % 2^KeyBits
           width == KeyWidth(dict, KeyBits)
           m == 2^KeyBits
<1>1. KeyBits \in Nat /\ WordBits \in Nat /\ KeyBits \in 0 .. WordBits
  BY KeyBitsAssumption, SizesAreNumbers
<1>2. /\ n \in Nat /\ m \in Nat \ {0} /\ n <= m
      /\ 2^WordBits \in Nat \ {0} /\ m <= 2^WordBits
  BY <1>1, PowersGrow DEF Lists
<1>3. DOMAIN dict = 1 .. n
  BY DEF Lists
<1> HIDE DEF n, m
<1>4. last \in Nat /\ last < m /\ (n # 0 => last = n - 1)
  <2>1. CASE n = 0
    <3>1. DOMAIN dict = {}
      BY <1>3, <2>1
    <3>2. dict = <<>>
      <4>1. dict \in [1 .. 0 -> V]
        BY <2>1 DEF Lists, n
      <4> QED
        BY <4>1
    <3> QED
      BY <1>2, <2>1, <3>2
  <2>2. CASE n # 0
    <3>1. dict # <<>>
      <4>1. 1 \in DOMAIN dict
        BY <1>2, <1>3, <2>2
      <4>2. 1 \notin DOMAIN <<>>
        OBVIOUS
      <4> QED
        BY <4>1, <4>2
    <3>2. Len(dict) = n
      BY <1>2, <1>3
    <3>3. n - 1 \in 0 .. m - 1
      BY <1>2, <2>2
    <3>4. last = (n - 1) % m
      BY <3>1, <3>2 DEF m
    <3> HIDE DEF last
    <3> QED
      BY <1>2, <3>3, <3>4
  <2> QED
    BY <2>1, <2>2
<1>5. width = GetBitWidth(last)
  BY DEF KeyWidth
<1> HIDE DEF last, width
<1>6. width \in 1 .. WordBits /\ last < 2^width
  <2>1. last < 2^WordBits
    BY <1>2, <1>4
  <2> QED
    BY <1>4, <1>5, <2>1, BitWidthSuffices
<1>7. ASSUME NEW x \in Nat, x < n PROVE x < 2^width /\ x < m
  <2>1. x <= last /\ n # 0
    BY <1>2, <1>4, <1>7
  <2>2. 2^width \in Nat
    BY <1>1, <1>6, PowersGrow
  <2> QED
    BY <1>2, <1>4, <1>6, <1>7, <2>1, <2>2
<1> QED
  BY <1>1, <1>6, <1>7 DEF n, m, width

\* The null bitmap of a slice that begins with its buffer has its nulls.
LEMMA NullsFromStartAre ==
  ASSUME NEW a, ByteSlice(a), a.offset = 0 \/ NullCount(a) = 0,
         NEW packed, packed.nulls = NullsFromStart(a), NEW i \in Index(a)
  PROVE  IsNull(packed, i) <=> i \notin ValidIn(a)
<1>1. /\ Length(a) \in Nat /\ Index(a) = 0 .. Length(a) - 1
      /\ ValidIn(a) \in SUBSET Index(a)
      /\ \A j \in Index(a) : j \in ValidIn(a) <=> SlotAt(a, j).valid
  BY SliceIs
<1>2. CASE NullCount(a) = 0
  <2>1. ValidIn(a) = Index(a)
    BY <1>2, NothingIsNull
  <2>2. packed.nulls = <<>>
    BY <1>2 DEF NullsFromStart
  <2> QED
    BY <2>1, <2>2 DEF IsNull
<1>3. CASE NullCount(a) # 0
  <2>1. packed.nulls = [j \in Index(a) |-> a.slots[j + 1].valid]
    BY <1>3 DEF NullsFromStart
  <2>2. a.offset = 0 /\ i \in Int
    BY <1>1, <1>3
  <2>3. packed.nulls[i] = SlotAt(a, i).valid
    BY <2>1, <2>2 DEF SlotAt
  <2>4. packed.nulls # <<>>
    <3>1. 0 \in DOMAIN packed.nulls
      BY <1>1, <2>1
    <3>2. 0 \notin DOMAIN <<>>
      OBVIOUS
    <3> QED
      BY <3>1, <3>2
  <2> QED
    BY <1>1, <2>3, <2>4 DEF IsNull
<1> QED
  BY <1>2, <1>3

\* Where each valid slot has the key of its value, and the keys fit the width
\* they are packed with.
Keyed(a, f, dict, width) ==
  \A i \in ValidIn(a) : /\ f[i] \in Nat /\ f[i] < 2^width /\ f[i] < 2^KeyBits
                        /\ f[i] < Len(dict) /\ dict[f[i] + 1] = SlotAt(a, i).value

\* Looking such keys up in the dictionary restores an array.
LEMMA KeysLookUp ==
  ASSUME NEW a, ByteSlice(a), a.offset = 0 \/ NullCount(a) = 0,
         NEW f, NEW dict, NEW width \in 0 .. WordBits, Keyed(a, f, dict, width),
         NEW packed, packed = Pack(Words(a, f), NullsFromStart(a), width), NEW none
  PROVE  Restores(Looked(packed, dict, none), a)
<1> DEFINE temp == BulkUnpack(packed, KeyBits)
           decoded == Looked(packed, dict, none)
           slot(i) == [valid |-> ~IsNull(packed, i),
                       value |-> IF ~IsNull(packed, i) /\ Number(temp[i]) < Len(dict)
                                 THEN dict[Number(temp[i]) + 1] ELSE none]
<1>1. /\ Length(a) \in Nat /\ Index(a) = 0 .. Length(a) - 1
      /\ ValidIn(a) \in SUBSET Index(a)
      /\ \A i \in Index(a) : i \in ValidIn(a) <=> SlotAt(a, i).valid
  BY SliceIs
<1>2. KeyBits \in 0 .. WordBits
  BY KeyBitsAssumption, SizesAreNumbers
<1>3. /\ DOMAIN temp = Index(a) /\ packed.nulls = NullsFromStart(a)
      /\ \A i \in Index(a) :
           f[i] \in Nat /\ f[i] < 2^width /\ f[i] < 2^KeyBits => Number(temp[i]) = f[i]
  BY <1>1, <1>2, NumbersComeBack
<1> HIDE DEF temp
<1>4. decoded = [i \in Index(a) |-> slot(i)]
  <2>1. UnpackedKeys(packed) = [i \in Index(a) |-> Number(temp[i])]
    BY <1>3 DEF UnpackedKeys, temp
  <2>2. DOMAIN UnpackedKeys(packed) = Index(a)
        /\ \A i \in Index(a) : UnpackedKeys(packed)[i] = Number(temp[i])
    BY <2>1
  <2> QED
    BY <2>2 DEF Looked
<1> HIDE DEF decoded
<1>5. ASSUME NEW i \in Index(a)
      PROVE  /\ decoded[i].valid = SlotAt(a, i).valid
             /\ decoded[i].valid => decoded[i].value = SlotAt(a, i).value
  <2>1. IsNull(packed, i) <=> i \notin ValidIn(a)
    BY <1>3, NullsFromStartAre
  <2>2. decoded[i].valid = ~IsNull(packed, i)
    BY <1>4
  <2>3. decoded[i].valid \in BOOLEAN /\ SlotAt(a, i).valid \in BOOLEAN
    BY <2>2 DEF ByteSlice
  <2>4. decoded[i].valid = SlotAt(a, i).valid
    BY <1>1, <2>1, <2>2, <2>3
  <2>5. ASSUME decoded[i].valid PROVE decoded[i].value = SlotAt(a, i).value
    <3>1. i \in ValidIn(a) /\ ~IsNull(packed, i)
      BY <2>1, <2>2, <2>5
    <3>2. PICK key : key = f[i]
      OBVIOUS
    <3>3. /\ key \in Nat /\ key < 2^width /\ key < 2^KeyBits /\ key < Len(dict)
          /\ dict[key + 1] = SlotAt(a, i).value
      BY <3>1, <3>2 DEF Keyed
    <3>4. Number(temp[i]) = key
      BY <1>3, <3>2, <3>3
    <3>5. decoded[i].value = IF ~IsNull(packed, i) /\ Number(temp[i]) < Len(dict)
                             THEN dict[Number(temp[i]) + 1] ELSE none
      BY <1>4
    <3> QED
      BY <3>1, <3>3, <3>4, <3>5
  <2> QED
    BY <2>4, <2>5
<1>6. DOMAIN decoded = Index(a)
  BY <1>4
<1> QED
  BY <1>5, <1>6 DEF Restores, decoded

\* So does looking the keys of the slice's own dictionary up.
LEMMA LookedRestores ==
  ASSUME NEW a, ByteSlice(a), a.offset = 0 \/ NullCount(a) = 0,
         NEW dict, Lists(dict, ValuesOf(a)), Cardinality(ValuesOf(a)) <= 2^KeyBits, NEW none
  PROVE  Restores(Looked(PackKeys(a, dict), dict, none), a)
<1>1. PICK n, keys, width, packed :
        /\ n = Cardinality(ValuesOf(a)) /\ keys = KeysOf(a, dict)
        /\ width = KeyWidth(dict, KeyBits) /\ packed = PackKeys(a, dict)
  OBVIOUS
<1>2. /\ width \in 0 .. WordBits
      /\ \A x \in Nat : x < n => x < 2^width /\ x < 2^KeyBits
  BY <1>1, KeyWidthIs
<1>3. packed = Pack(Words(a, keys), NullsFromStart(a), width)
  BY <1>1 DEF PackKeys
<1>4. Len(dict) = n
  <2>1. n \in Nat /\ DOMAIN dict = 1 .. n
    BY <1>1 DEF Lists
  <2> QED
    BY <2>1
<1>5. \A i \in ValidIn(a) : /\ keys[i] \in Nat /\ keys[i] < n
                            /\ dict[keys[i] + 1] = SlotAt(a, i).value
  BY <1>1, KeysAre
<1>6. Keyed(a, keys, dict, width)
  BY <1>2, <1>4, <1>5 DEF Keyed
<1> QED
  BY <1>1, <1>2, <1>3, <1>6, KeysLookUp

-----------------------------------------------------------------------------
(* Strings.                                                                *)

\* A table that was trained is safe for whatever is compressed with it.
LEMMA LearnedIsSafe ==
  ASSUME NEW table, Learned(table), NEW dict
  PROVE  AllSafe(table, dict)
BY DEF Learned, AllSafe, Safe

\* A dictionary is built with a table that may compress it.
LEMMA BuiltRestores ==
  ASSUME NEW dict \in Seq(Bytes), NEW packed, NEW given,
         given = {} \/ \E t : given = {t} /\ AllSafe(t, dict),
         NEW liquid, liquid = BuildEncodedDict(dict, packed, given)
  PROVE  /\ Entries(liquid) = dict /\ liquid.packed = packed
         /\ \A copy : KeptAs(copy, liquid) => Entries(copy) = dict
<1>1. PICK prefix, suffixes :
        prefix = SharedPrefix(dict) /\ suffixes = SuffixesOf(dict, prefix)
  OBVIOUS
<1>2. PICK table :
        table = IF given = {} THEN Train(Seqs!FlattenSeq(suffixes)) ELSE CHOOSE t \in given : TRUE
  OBVIOUS
<1>3. liquid = Assembled(prefix, suffixes, table, packed)
  BY <1>1, <1>2 DEF BuildEncodedDict
<1>4. AllSafe(table, dict)
  <2>1. CASE given = {}
    <3>1. suffixes \in Seq(Bytes)
      BY <1>1, SharedPrefixIs DEF Split
    <3>2. Seqs!FlattenSeq(suffixes) \in Bytes
      BY <3>1, FlattenedIsSeq DEF Bytes
    <3>3. Learned(table)
      BY <1>2, <2>1, <3>2, TrainedTables
    <3> QED
      BY <3>3, LearnedIsSafe
  <2>2. CASE given # {}
    <3>1. PICK t : given = {t} /\ AllSafe(t, dict)
      BY <2>2
    <3>2. table = t
      BY <1>2, <2>2, <3>1
    <3> QED
      BY <3>1, <3>2
  <2> QED
    BY <2>1, <2>2
<1>5. liquid = Assembled(SharedPrefix(dict), SuffixesOf(dict, SharedPrefix(dict)), table, packed)
  BY <1>1, <1>3
<1> QED
  BY <1>4, <1>5, EntriesComeBack

\* A slice of strings.
StringSlice(a) == ByteSlice(a) /\ \A i \in ValidIn(a) : SlotAt(a, i).value \in Bytes

\* Its dictionary is a sequence of strings, of those that the slice has.
LEMMA DictionaryOfStrings ==
  ASSUME NEW a, StringSlice(a)
  PROVE  /\ DictionaryOf(a) \in Seq(Bytes)
         /\ \A d \in 1 .. Len(DictionaryOf(a)) : DictionaryOf(a)[d] \in ValuesOf(a)
<1>1. PICK dict : dict = DictionaryOf(a)
  OBVIOUS
<1>2. Lists(dict, ValuesOf(a))
  BY <1>1, DictionaryIs DEF StringSlice
<1>3. PICK n : n = Cardinality(ValuesOf(a))
  OBVIOUS
<1>4. n \in Nat /\ dict \in [1 .. n -> ValuesOf(a)]
  BY <1>2, <1>3 DEF Lists
<1>5. \A v \in ValuesOf(a) : v \in Bytes
  BY DEF StringSlice, ValuesOf
<1>6. Len(dict) = n /\ \A d \in 1 .. n : dict[d] \in ValuesOf(a)
  BY <1>4
<1>7. dict \in [1 .. n -> Bytes]
  BY <1>4, <1>5
<1>8. dict \in Seq(Bytes)
  BY <1>4, <1>7
<1> QED
  BY <1>1, <1>6, <1>8

\* What a given compressor may be used for: it was trained, or what it finds
\* beyond its symbols is not in any string.
Usable(given, values) ==
  given = {} \/ \E t : given = {t} /\ TableOK(t) /\ \A v \in values : Safe(t, v)

\* Strings and binaries come back from their dictionary, its entries
\* compressed, with their nulls, if the slice begins with its buffer or has
\* none, and if a key can tell the entries apart.
THEOREM StringsRestore ==
  ASSUME NEW a, StringSlice(a), a.offset = 0 \/ NullCount(a) = 0,
         Cardinality(ValuesOf(a)) <= 2^KeyBits, NEW given, Usable(given, ValuesOf(a)), NEW binary
  PROVE  Restores(ByteViewToArrow(ByteViewFromArrow(a, binary, given)), a)
<1>1. PICK dict : dict = DictionaryOf(a)
  OBVIOUS
<1>2. PICK packed : packed = PackKeys(a, dict)
  OBVIOUS
<1>3. PICK liquid : liquid = BuildEncodedDict(dict, packed, given)
  OBVIOUS
<1>4. dict \in Seq(Bytes) /\ \A d \in 1 .. Len(dict) : dict[d] \in ValuesOf(a)
  BY <1>1, DictionaryOfStrings
<1>5. given = {} \/ \E t : given = {t} /\ AllSafe(t, dict)
  BY <1>4 DEF Usable, AllSafe
<1>6. Entries(liquid) = dict /\ liquid.packed = packed
  BY <1>3, <1>4, <1>5, BuiltRestores
<1>7. ByteViewFromArrow(a, binary, given).array = liquid
  BY <1>1, <1>2, <1>3 DEF ByteViewFromArrow, WithFlags
<1>8. ByteViewToArrow(ByteViewFromArrow(a, binary, given)) = Looked(packed, dict, <<>>)
  BY <1>6, <1>7 DEF ByteViewToArrow
<1>9. ByteSlice(a) /\ Lists(dict, ValuesOf(a))
  BY <1>1, DictionaryIs DEF StringSlice
<1>10. Restores(Looked(PackKeys(a, dict), dict, <<>>), a)
  BY <1>9, LookedRestores
<1> QED
  BY <1>2, <1>8, <1>10

-----------------------------------------------------------------------------
(* Decimals of one word.                                                   *)

\* The type of unsigned words, a word being eight bytes at most.
LEMMA UInt64Is ==
  /\ IntegerType(UInt64) /\ UInt64.bits \in 1 .. WordBits /\ MinOf(UInt64) = 0
  /\ 2^UInt64.bits \in Nat \ {0} /\ MaxOf(UInt64) = 2^UInt64.bits - 1
  /\ 2^UInt64.bits <= 2^WordBits /\ 2^WordBits \in Nat
<1> DEFINE n == Smaller(8, WordBytes)
<1>1. n \in Nat \ {0} /\ n <= WordBytes /\ ByteBits \in Nat \ {0} /\ WordBytes \in Nat \ {0}
  BY SizesAssumption DEF Smaller
<1>2. UInt64.bits = ByteBits * n
  BY DEF UInt64, NativeOf
<1> HIDE DEF n
<1>3. ByteBits * n \in Nat \ {0} /\ ByteBits * n <= ByteBits * WordBytes
  BY <1>1
<1>4. UInt64.bits \in 1 .. WordBits /\ WordBits \in Nat
  BY <1>1, <1>2, <1>3 DEF WordBits
<1>5. IntegerType(UInt64)
  BY <1>4 DEF IntegerType
<1>6. ~UInt64.signed
  BY DEF UInt64, NativeOf
<1>7. MinOf(UInt64) = 0 /\ MaxOf(UInt64) = 2^UInt64.bits - 1
  BY <1>6 DEF MinOf, MaxOf
<1>8. 2^UInt64.bits \in Nat \ {0} /\ 2^UInt64.bits <= 2^WordBits /\ 2^WordBits \in Nat
  BY <1>4, PowersGrow
<1> QED
  BY <1>4, <1>5, <1>7, <1>8

\* A slice of decimals.
DecimalSlice(a) == ByteSlice(a) /\ \A i \in ValidIn(a) : SlotAt(a, i).value \in Int

\* What the decoder makes of the numbers it unpacks.
LEMMA DecimalsAre ==
  ASSUME NEW a, DecimalSlice(a), FitsU64(a), a.offset = 0 \/ NullCount(a) = 0,
         NEW liquid, liquid.packed.nulls = NullsFromStart(a),
         NEW temp, temp = BulkUnpack(liquid.packed, UInt64.bits), DOMAIN temp = Index(a),
         \A i \in ValidIn(a) :
           Number(temp[i]) + liquid.reference = SlotAt(a, i).value
  PROVE  Restores(DecimalToArrow(liquid).slots, a)
<1> DEFINE decoded == DecimalToArrow(liquid).slots
<1>1. /\ Length(a) \in Nat /\ Index(a) = 0 .. Length(a) - 1
      /\ ValidIn(a) \in SUBSET Index(a)
      /\ \A i \in Index(a) : i \in ValidIn(a) <=> SlotAt(a, i).valid
  BY SliceIs DEF DecimalSlice
<1>2. DOMAIN decoded = Index(a)
      /\ \A i \in Index(a) :
           /\ decoded[i].valid = ~IsNull(liquid.packed, i)
           /\ decoded[i].value = Unsigned(Number(temp[i]) + liquid.reference, UInt64)
  BY DEF DecimalToArrow, DecodedAs
<1> HIDE DEF decoded
<1>3. ASSUME NEW i \in Index(a)
      PROVE  /\ decoded[i].valid = SlotAt(a, i).valid
             /\ decoded[i].valid => decoded[i].value = SlotAt(a, i).value
  <2>1. IsNull(liquid.packed, i) <=> i \notin ValidIn(a)
    <3>1. ByteSlice(a)
      BY DEF DecimalSlice
    <3> QED
      BY <3>1, NullsFromStartAre
  <2>2. decoded[i].valid = ~IsNull(liquid.packed, i)
    BY <1>2
  <2>3. decoded[i].valid \in BOOLEAN /\ SlotAt(a, i).valid \in BOOLEAN
    BY <2>2 DEF DecimalSlice, ByteSlice
  <2>4. decoded[i].valid = SlotAt(a, i).valid
    BY <1>1, <2>1, <2>2, <2>3
  <2>5. ASSUME decoded[i].valid PROVE decoded[i].value = SlotAt(a, i).value
    <3>1. i \in ValidIn(a)
      BY <2>1, <2>2, <2>5
    <3>2. PICK v : v = SlotAt(a, i).value
      OBVIOUS
    <3>3. PICK m : m = 2^UInt64.bits
      OBVIOUS
    <3>4. m \in Nat \ {0} /\ v \in 0 .. m - 1
      <4>1. v \in 0 .. MaxOf(UInt64)
        BY <3>1, <3>2 DEF FitsU64, ValuesOf
      <4> QED
        BY <3>3, <4>1, UInt64Is
    <3>5. v % m = v
      BY <3>4
    <3>6. Unsigned(v, UInt64) = v
      BY <3>3, <3>5 DEF Unsigned
    <3> QED
      BY <1>2, <3>1, <3>2, <3>6
  <2> QED
    BY <2>4, <2>5
<1> QED
  BY <1>2, <1>3 DEF Restores, decoded

\* Decimals of one word, the bits of their distances to the least of them.
LEMMA DecimalRange ==
  ASSUME NEW a, FitsU64(a), ValidIn(a) # {}, NEW S, S = ValuesOf(a),
         NEW m, m = 2^UInt64.bits, NEW min, min = Min(S), NEW max, max = Max(S),
         NEW width, width = GetBitWidth(max - min)
  PROVE  /\ min \in 0 .. m - 1 /\ max \in 0 .. m - 1
         /\ \A x \in S : min <= x /\ x <= max /\ x \in Nat
         /\ width \in 1 .. WordBits /\ max - min < 2^width /\ 2^width \in Nat
<1>1. m \in Nat \ {0} /\ m <= 2^WordBits /\ 2^WordBits \in Nat
  BY UInt64Is
<1>2. S # {} /\ S \in SUBSET (0 .. m - 1)
  BY UInt64Is DEF FitsU64, ValuesOf
<1>3. m - 1 \in Int /\ 0 \in Int
  BY <1>1
<1>4. min \in S /\ max \in S /\ \A x \in S : min <= x /\ x <= max
  BY <1>2, <1>3, ExtremesExist
<1>5. min \in 0 .. m - 1 /\ max \in 0 .. m - 1 /\ \A x \in S : x \in Nat
  BY <1>1, <1>2, <1>4
<1>6. max - min \in Nat /\ max - min < 2^WordBits
  BY <1>1, <1>4, <1>5
<1>7. width \in 1 .. WordBits /\ max - min < 2^width
  BY <1>6, BitWidthSuffices
<1>8. 2^width \in Nat
  BY <1>7, SizesAreNumbers, PowersGrow
<1> QED
  BY <1>4, <1>5, <1>7, <1>8

\* Their differences to the least of them are unpacked, and with it make them.
LEMMA DecimalsAreUnpacked ==
  ASSUME NEW a, DecimalSlice(a), FitsU64(a), NEW t, NEW liquid, liquid = DecimalFromArrow(a, t),
         NEW temp, temp = BulkUnpack(liquid.packed, UInt64.bits)
  PROVE  /\ DOMAIN temp = Index(a) /\ liquid.type = t
         /\ liquid.packed.nulls = NullsFromStart(a)
         /\ \A i \in ValidIn(a) : Number(temp[i]) + liquid.reference = SlotAt(a, i).value
<1>1. PICK valid : valid = ValidIn(a)
  OBVIOUS
<1>2. /\ Length(a) \in Nat /\ Index(a) = 0 .. Length(a) - 1 /\ valid \in SUBSET Index(a)
      /\ UInt64.bits \in 0 .. WordBits /\ 0 \in 0 .. WordBits
  BY <1>1, SliceIs, UInt64Is, SizesAreNumbers DEF DecimalSlice
<1>3. /\ DOMAIN temp = Index(a) /\ liquid.packed.nulls = NullsFromStart(a)
      /\ \A i \in valid : Number(temp[i]) + liquid.reference = SlotAt(a, i).value
  <2>1. CASE valid = {}
    <3>1. liquid.packed = Pack([i \in 1 .. Length(a) |-> {}], NullsFromStart(a), 0)
      BY <1>1, <2>1 DEF DecimalFromArrow
    <3>2. liquid.packed.length = Length(a) /\ liquid.packed.nulls = NullsFromStart(a)
      BY <1>2, <3>1 DEF Pack
    <3>3. DOMAIN temp = Index(a)
      BY <1>2, <3>2 DEF BulkUnpack
    <3> QED
      BY <2>1, <3>2, <3>3
  <2>2. CASE valid # {}
    <3>1. PICK S, m, min, max :
            S = ValuesOf(a) /\ m = 2^UInt64.bits /\ min = Min(S) /\ max = Max(S)
      OBVIOUS
    <3>2. PICK width : width = GetBitWidth(max - min)
      OBVIOUS
    <3>3. /\ m \in Nat \ {0} /\ min \in 0 .. m - 1 /\ max \in 0 .. m - 1
          /\ \A i \in valid : SlotAt(a, i).value \in S
          /\ \A x \in S : min <= x /\ x <= max /\ x \in Nat
          /\ width \in 1 .. WordBits /\ max - min < 2^width /\ 2^width \in Nat
      <4>1. m \in Nat \ {0}
        BY <3>1, UInt64Is
      <4>2. /\ min \in 0 .. m - 1 /\ max \in 0 .. m - 1
            /\ \A x \in S : min <= x /\ x <= max /\ x \in Nat
            /\ width \in 1 .. WordBits /\ max - min < 2^width /\ 2^width \in Nat
        BY <1>1, <2>2, <3>1, <3>2, DecimalRange
      <4>3. \A i \in valid : SlotAt(a, i).value \in S
        BY <1>1, <3>1 DEF ValuesOf
      <4> QED
        BY <4>1, <4>2, <4>3
    <3>4. PICK f : f = [i \in Index(a) |-> IF i \in ValidIn(a) THEN SlotAt(a, i).value - min ELSE 0]
      OBVIOUS
    <3>5. liquid.reference = min
           /\ liquid.packed = Pack(Words(a, f), NullsFromStart(a), width)
      BY <1>1, <2>2, <3>1, <3>2, <3>4 DEF DecimalFromArrow
    <3>6. width \in 0 .. WordBits
      BY <3>3, SizesAreNumbers
    <3>7. /\ DOMAIN BulkUnpack(liquid.packed, UInt64.bits) = Index(a)
           /\ liquid.packed.nulls = NullsFromStart(a)
           /\ \A i \in Index(a) :
                f[i] \in Nat /\ f[i] < 2^width /\ f[i] < 2^UInt64.bits
                  => Number(BulkUnpack(liquid.packed, UInt64.bits)[i]) = f[i]
      BY <1>2, <3>5, <3>6, NumbersComeBack
    <3>8. ASSUME NEW i \in valid PROVE Number(temp[i]) + liquid.reference = SlotAt(a, i).value
      <4>1. PICK v : v = SlotAt(a, i).value
        OBVIOUS
      <4>2. v \in Nat /\ min <= v /\ v <= max
        BY <3>3, <4>1
      <4>3. i \in Index(a) /\ f[i] = v - min
        BY <1>1, <1>2, <3>4, <4>1
      <4>4. v - min \in Nat /\ v - min < 2^width /\ v - min < m
        BY <3>3, <4>2
      <4>5. Number(temp[i]) = v - min
        BY <3>1, <3>7, <4>3, <4>4
      <4>6. min \in Int /\ v \in Int
        BY <3>3, <4>2
      <4> QED
        BY <3>5, <4>1, <4>5, <4>6
    <3> QED
      BY <3>7, <3>8
  <2> QED
    BY <2>1, <2>2
<1> QED
  BY <1>1, <1>3 DEF DecimalFromArrow

\* Non-negative decimals of one word come back from their differences to the
\* least of them, with their nulls, if the slice begins with its buffer or has
\* none.
THEOREM DecimalsRestore ==
  ASSUME NEW a, DecimalSlice(a), FitsU64(a), a.offset = 0 \/ NullCount(a) = 0, NEW t
  PROVE  Restores(DecimalToArrow(DecimalFromArrow(a, t)).slots, a)
<1>1. PICK liquid : liquid = DecimalFromArrow(a, t)
  OBVIOUS
<1>2. PICK temp : temp = BulkUnpack(liquid.packed, UInt64.bits)
  OBVIOUS
<1>3. /\ DOMAIN temp = Index(a) /\ liquid.packed.nulls = NullsFromStart(a)
      /\ \A i \in ValidIn(a) : Number(temp[i]) + liquid.reference = SlotAt(a, i).value
  BY <1>1, <1>2, DecimalsAreUnpacked
<1> QED
  BY <1>1, <1>2, <1>3, DecimalsAre

-----------------------------------------------------------------------------
(* Bytes of buffers and bytes of strings.                                  *)

\* The bits of a number lie below those it needs.
LEMMA BitsAreLow ==
  ASSUME NEW n \in Nat, NEW w \in 0 .. WordBits, n < 2^w
  PROVE  Bits(n) \in SUBSET (0 .. w - 1) /\ Number(Bits(n)) = n
<1>1. WordBits \in Nat /\ w \in Nat
  BY SizesAreNumbers
<1>2. ASSUME NEW b \in Bits(n) PROVE b \in 0 .. w - 1
  <2>1. b \in 0 .. WordBits - 1 /\ (n \div 2^b) % 2 = 1
    BY <1>2 DEF Bits
  <2>2. CASE b >= w
    <3>1. PICK p, q : p = 2^b /\ q = 2^w
      OBVIOUS
    <3>2. p \in Nat \ {0} /\ q <= p /\ q \in Nat
      <4>1. b \in Nat /\ w \in 0 .. b
        BY <1>1, <2>1, <2>2
      <4> QED
        BY <1>1, <3>1, <4>1, PowersGrow
    <3>3. n < p
      BY <3>1, <3>2
    <3>4. n \div p = 0 /\ 0 % 2 = 0
      BY <3>2, <3>3
    <3>5. (n \div p) % 2 = 1
      BY <2>1, <3>1
    <3>6. (n \div p) % 2 = 0
      BY <3>4
    <3> QED
      BY <3>5, <3>6
  <2> QED
    BY <1>1, <2>1, <2>2
<1>3. Low(Bits(n), w) = Bits(n)
  BY <1>2 DEF Low
<1>4. Number(Low(Bits(n), w)) = n % 2^w
  BY NumberOfLowBits
<1>5. n % 2^w = n
  <2>1. PICK m : m = 2^w
    OBVIOUS
  <2>2. m \in Nat \ {0} /\ n < m
    BY <1>1, <2>1, PowersGrow
  <2>3. n % m = n
    BY <2>2
  <2> QED
    BY <2>1, <2>3
<1> QED
  BY <1>2, <1>3, <1>4, <1>5

\* There are as many sets of low bits as numbers: every set is a number's.
LEMMA SetsAreNumbers ==
  ASSUME NEW w \in 0 .. WordBits, NEW s \in SUBSET (0 .. w - 1)
  PROVE  Number(s) \in 0 .. 2^w - 1 /\ Bits(Number(s)) = s
<1> DEFINE N == 0 .. 2^w - 1
           T == SUBSET (0 .. w - 1)
           f == [n \in N |-> Bits(n)]
<1>1. w \in Nat /\ 2^w \in Nat \ {0}
  BY SizesAreNumbers, PowersGrow
<1>2. \A n \in N : Bits(n) \in T /\ Number(Bits(n)) = n
  <2> TAKE n \in N
  <2>1. n \in Nat /\ n < 2^w
    BY <1>1
  <2> QED
    BY <2>1, BitsAreLow
<1>3. IsFiniteSet(N) /\ Cardinality(N) = 2^w
  BY <1>1, FS_Interval
<1>4. IsFiniteSet(T) /\ Cardinality(T) = 2^w
  <2>1. IsFiniteSet(0 .. w - 1) /\ Cardinality(0 .. w - 1) = w
    <3>1. 0 \in Int /\ w - 1 \in Int
      BY <1>1
    <3>2. /\ IsFiniteSet(0 .. w - 1)
          /\ Cardinality(0 .. w - 1) = IF 0 > w - 1 THEN 0 ELSE (w - 1) - 0 + 1
      BY <3>1, FS_Interval
    <3>3. (IF 0 > w - 1 THEN 0 ELSE (w - 1) - 0 + 1) = w
      BY <1>1
    <3> QED
      BY <3>2, <3>3
  <2> QED
    BY <2>1, FS_SUBSET
<1> HIDE DEF N, T
<1>5. f \in Injection(N, T)
  <2>1. f \in [N -> T]
    BY <1>2
  <2>2. \A x, y \in N : f[x] = f[y] => x = y
    BY <1>2
  <2> HIDE DEF f
  <2> QED
    BY <2>1, <2>2 DEF Injection, IsInjective
<1>6. f \in Surjection(N, T)
  <2> HIDE DEF f
  <2> QED
    BY <1>3, <1>4, <1>5, FS_Injection
<1>7. s \in T
  BY DEF T
<1>8. PICK n \in N : f[n] = s
  <2> HIDE DEF f
  <2> QED
    BY <1>6, <1>7 DEF Surjection
<1>9. Bits(n) = s /\ Number(s) = n
  BY <1>2, <1>8
<1> QED
  BY <1>9 DEF N

\* The bytes of a buffer.
Octets == SUBSET (0 .. ByteBits - 1)

\* A byte is a number, and a number a byte.
LEMMA OctetsAre ==
  /\ \A s \in Octets : Number(s) \in 0 .. ByteMax /\ Bits(Number(s)) = s
  /\ \A n \in 0 .. ByteMax : Bits(n) \in Octets /\ Number(Bits(n)) = n
<1>1. ByteBits \in 0 .. WordBits /\ 2^ByteBits \in Nat \ {0}
  <2>1. /\ ByteBits \in Nat \ {0} /\ WordBytes \in Nat \ {0} /\ WordBits = WordBytes * ByteBits
        /\ WordBits \in Nat
    BY SizesAreNumbers
  <2>2. ByteBits <= WordBytes * ByteBits
    BY <2>1
  <2> QED
    BY <2>1, <2>2, PowersGrow
<1>2. ASSUME NEW s \in Octets PROVE Number(s) \in 0 .. ByteMax /\ Bits(Number(s)) = s
  BY <1>1, SetsAreNumbers DEF Octets, ByteMax
<1>3. ASSUME NEW n \in 0 .. ByteMax PROVE Bits(n) \in Octets /\ Number(Bits(n)) = n
  <2>1. n \in Nat /\ n < 2^ByteBits
    BY <1>1 DEF ByteMax
  <2> QED
    BY <1>1, <2>1, BitsAreLow DEF Octets
<1> QED
  BY <1>2, <1>3

\* A buffer's bytes as a string, and the string as a buffer again.
LEMMA BufferComesBack ==
  ASSUME NEW buffer \in Seq(Octets)
  PROVE  FromBuffer(buffer) \in Bytes /\ ToBuffer(FromBuffer(buffer)) = buffer
<1>1. PICK n : n = Len(buffer)
  OBVIOUS
<1>2. n \in Nat /\ DOMAIN buffer = 1 .. n /\ buffer \in [1 .. n -> Octets]
  BY <1>1
<1>3. PICK s : s = FromBuffer(buffer)
  OBVIOUS
<1>4. s = [k \in 1 .. n |-> Number(buffer[k])]
  BY <1>2, <1>3 DEF FromBuffer
<1>5. \A k \in 1 .. n : s[k] \in 0 .. ByteMax /\ Bits(s[k]) = buffer[k]
  BY <1>2, <1>4, OctetsAre
<1>6. DOMAIN s = 1 .. n
  BY <1>4
<1>7. s \in [1 .. n -> 0 .. ByteMax]
  BY <1>4, <1>5
<1>8. s \in Bytes
  <2>1. \A S : s \in [1 .. n -> S] => s \in Seq(S)
    BY <1>2
  <2> QED
    BY <1>7, <2>1 DEF Bytes
<1>9. ToBuffer(s) = [k \in 1 .. n |-> buffer[k]]
  BY <1>5, <1>6 DEF ToBuffer
<1> QED
  BY <1>2, <1>3, <1>8, <1>9

\* A string as a buffer, and the buffer as a string again.
LEMMA StringComesBack ==
  ASSUME NEW s \in Bytes
  PROVE  ToBuffer(s) \in Seq(Octets) /\ FromBuffer(ToBuffer(s)) = s
<1>1. PICK n : n = Len(s)
  OBVIOUS
<1>2. n \in Nat /\ DOMAIN s = 1 .. n /\ s \in [1 .. n -> 0 .. ByteMax]
  <2>1. \A S : s \in Seq(S) =>
          Len(s) \in Nat /\ DOMAIN s = 1 .. Len(s) /\ s \in [1 .. Len(s) -> S]
    OBVIOUS
  <2> QED
    BY <1>1, <2>1 DEF Bytes
<1>3. PICK buffer : buffer = ToBuffer(s)
  OBVIOUS
<1>4. buffer = [k \in 1 .. n |-> Bits(s[k])]
  BY <1>2, <1>3 DEF ToBuffer
<1>5. \A k \in 1 .. n : buffer[k] \in Octets /\ Number(buffer[k]) = s[k]
  BY <1>2, <1>4, OctetsAre
<1>6. DOMAIN buffer = 1 .. n
  BY <1>4
<1>7. buffer \in [1 .. n -> Octets]
  BY <1>4, <1>5
<1>8. buffer \in Seq(Octets)
  BY <1>2, <1>7
<1>9. FromBuffer(buffer) = [k \in 1 .. n |-> s[k]]
  BY <1>5, <1>6 DEF FromBuffer
<1> QED
  BY <1>2, <1>3, <1>8, <1>9

\* A number's field is a string, from whose bytes the number comes back: from
\* all of them, or from the lowest of them if it fits those.
LEMMA NumberInRestores ==
  ASSUME NEW w \in Nat \ {0}, NEW part \in 1 .. w, NEW h, h = 2^(part * ByteBits - 1),
         NEW v \in Int, -h <= v, v < h
  PROVE  /\ FromBuffer(Field(v, w)) \in Bytes
         /\ NumberIn(FromBuffer(Field(v, w)), part) = v
<1>1. PICK field : field = Field(v, w)
  OBVIOUS
<1>2. field \in Seq(Octets)
  <2>1. field = [k \in 1 .. w |-> ByteOfNumber(v, k)]
    BY <1>1 DEF Field, ByteOfNumber
  <2>2. \A k \in 1 .. w : ByteOfNumber(v, k) \in Octets
    BY DEF ByteOfNumber, Octets
  <2> QED
    BY <2>1, <2>2
<1>3. FromBuffer(field) \in Bytes /\ ToBuffer(FromBuffer(field)) = field
  BY <1>2, BufferComesBack
<1>4. PICK bytes : bytes = field \o Zeros(part)
  OBVIOUS
<1>5. NumberIn(FromBuffer(field), part) = SignedAt(bytes, 0, part)
  BY <1>3, <1>4 DEF NumberIn
<1>6. FieldAt(bytes, 0, part) = v % 2^(part * ByteBits)
  <2>1. /\ field \in Buffers /\ Len(field) = w /\ Zeros(part) \in Buffers
        /\ \A k \in 1 .. w : field[k] = ByteOfNumber(v, k)
    BY <1>1, PartsAre
  <2>2. \A k \in 1 .. Len(field) : bytes[k] = field[k]
    BY <1>4, <2>1, Concatenated
  <2>3. \A k \in 1 .. part : bytes[0 + k] = ByteOfNumber(v, k)
    BY <2>1, <2>2
  <2> QED
    BY <2>3, FieldIsRead
<1>7. SignedAt(bytes, 0, part) = v
  <2>1. part * ByteBits \in Nat \ {0}
    BY SizesAreNumbers
  <2> QED
    BY <1>6, <2>1, SignedRestores DEF SignedAt
<1> QED
  BY <1>1, <1>3, <1>5, <1>7

-----------------------------------------------------------------------------
(* Decimals as entries of a compressed dictionary.                         *)

\* A slice of decimals that fit the width of their type.
WideSlice(a, width) ==
  /\ ByteSlice(a)
  /\ \A i \in ValidIn(a) : SlotAt(a, i).value \in -(2^(width * ByteBits - 1)) .. 2^(width * ByteBits - 1) - 1

\* A compressor that a batch of decimals may be given: any but one without
\* symbols is used, and such a one is trained.
Trainable(given) ==
  given = {} \/ \E t : given = {t} /\ TableOK(t) /\ (t.built \/ t.symbols = <<>>)

\* The fields of some decimals as strings.
FieldsAsStrings(dict, width) == [d \in DOMAIN dict |-> FromBuffer(Field(dict[d], width))]

\* They are strings, and the decimals can be read from as many of their bytes
\* as they fit.
LEMMA FieldsAreStrings ==
  ASSUME NEW dict, NEW n \in Nat, DOMAIN dict = 1 .. n, Len(dict) = n, NEW width \in Nat \ {0},
         NEW part \in 1 .. width, NEW h, h = 2^(part * ByteBits - 1),
         \A d \in 1 .. n : dict[d] \in Int /\ -h <= dict[d] /\ dict[d] < h,
         NEW entries, entries = FieldsAsStrings(dict, width)
  PROVE  /\ entries \in Seq(Bytes) /\ Len(entries) = n /\ DOMAIN entries = 1 .. n
         /\ \A d \in 1 .. n : NumberIn(entries[d], part) = dict[d]
<1>1. ASSUME NEW d \in 1 .. n
      PROVE  entries[d] \in Bytes /\ NumberIn(entries[d], part) = dict[d]
  <2>1. entries[d] = FromBuffer(Field(dict[d], width))
    BY DEF FieldsAsStrings
  <2>2. PICK v : v = dict[d]
    OBVIOUS
  <2>3. v \in Int /\ -h <= v /\ v < h
    BY <2>2
  <2>4. FromBuffer(Field(v, width)) \in Bytes /\ NumberIn(FromBuffer(Field(v, width)), part) = v
    BY <2>3, NumberInRestores
  <2> QED
    BY <2>1, <2>2, <2>4
<1>2. DOMAIN entries = 1 .. n /\ entries = [d \in 1 .. n |-> entries[d]]
  BY DEF FieldsAsStrings
<1>3. entries \in [1 .. n -> Bytes]
  BY <1>1, <1>2
<1>4. entries \in Seq(Bytes) /\ Len(entries) = n
  <2>1. \A S : entries \in [1 .. n -> S] => entries \in Seq(S)
    OBVIOUS
  <2>2. Len(entries) = n
    BY <1>2
  <2> QED
    BY <1>3, <2>1, <2>2
<1> QED
  BY <1>1, <1>2, <1>4

\* The same of whole fields.
LEMMA WholeFieldsAreStrings ==
  ASSUME NEW dict, NEW n \in Nat, DOMAIN dict = 1 .. n, Len(dict) = n, NEW width \in Nat \ {0},
         NEW h, h = 2^(width * ByteBits - 1),
         \A d \in 1 .. n : dict[d] \in Int /\ -h <= dict[d] /\ dict[d] < h,
         NEW entries, entries = FieldsAsStrings(dict, width)
  PROVE  entries \in Seq(Bytes) /\ Len(entries) = n
<1>1. width \in 1 .. width
  OBVIOUS
<1> QED
  BY <1>1, FieldsAreStrings

\* The table a dictionary of decimals is compressed with.
LEMMA FixedLenTableIs ==
  ASSUME NEW entries \in Seq(Bytes), NEW given, Trainable(given),
         NEW table, table = FixedLenTable(Seqs!FlattenSeq(entries), given)
  PROVE  AllSafe(table, entries)
<1>1. CASE \A t \in given : t.symbols = <<>>
  <2>1. Seqs!FlattenSeq(entries) \in Bytes
    BY FlattenedIsSeq DEF Bytes
  <2>2. Learned(table)
    BY <1>1, <2>1, TrainedTables DEF FixedLenTable
  <2> QED
    BY <2>2, LearnedIsSafe
<1>2. CASE ~(\A t \in given : t.symbols = <<>>)
  <2>1. PICK t : given = {t} /\ TableOK(t) /\ (t.built \/ t.symbols = <<>>)
    BY <1>2 DEF Trainable
  <2>2. table = t
    BY <1>2, <2>1 DEF FixedLenTable
  <2>3. t.built
    BY <1>2, <2>1
  <2>4. Learned(t)
    BY <2>1, <2>3 DEF Learned, TableOK
  <2> QED
    BY <2>2, <2>4, LearnedIsSafe
<1> QED
  BY <1>1, <1>2

\* The distinct values of a slice of decimals.
LEMMA DictionaryOfDecimals ==
  ASSUME NEW width, NEW a, WideSlice(a, width), NEW dict, dict = DictionaryOf(a),
         NEW h, h = 2^(width * ByteBits - 1), h \in Nat
  PROVE  /\ Lists(dict, ValuesOf(a))
         /\ \E n \in Nat : /\ DOMAIN dict = 1 .. n /\ Len(dict) = n
                           /\ \A d \in 1 .. n : dict[d] \in Int /\ -h <= dict[d] /\ dict[d] < h
<1>1. Lists(dict, ValuesOf(a))
  BY DictionaryIs DEF WideSlice
<1>2. PICK n : n = Cardinality(ValuesOf(a))
  OBVIOUS
<1>3. n \in Nat /\ dict \in [1 .. n -> ValuesOf(a)]
  BY <1>1, <1>2 DEF Lists
<1>4. \A v \in ValuesOf(a) : v \in -h .. h - 1
  BY DEF WideSlice, ValuesOf
<1>5. DOMAIN dict = 1 .. n /\ Len(dict) = n /\ \A d \in 1 .. n : dict[d] \in -h .. h - 1
  BY <1>3, <1>4
<1> QED
  BY <1>1, <1>3, <1>5

\* Decimals have bytes, and every so many bytes numbers they can tell apart.
LEMMA WidthsAre ==
  ASSUME NEW id, NEW part \in 1 .. ValueWidth(id), NEW h, h = 2^(part * ByteBits - 1)
  PROVE  ValueWidth(id) \in Nat \ {0} /\ h \in Nat
<1>1. ValueWidth(id) \in Nat \ {0} /\ ByteBits \in Nat \ {0}
  BY SizesAreNumbers DEF ValueWidth
<1>2. part * ByteBits - 1 \in Nat
  BY <1>1
<1> QED
  BY <1>1, <1>2, PowersGrow

\* A copy whose entries are decompressed from the same codes.
FixedLenKept(copy, liquid) ==
  /\ ReadsLike(copy.table, liquid.table)
  /\ copy.data = liquid.data /\ copy.offsets = liquid.offsets

\* The decimals of a slice are found in the bytes of the entries, also of those
\* of a copy, and the keys lead to them.
LEMMA WideDecimalsAre ==
  ASSUME NEW t, t.id \in Decimals, NEW a, NEW part \in 1 .. ValueWidth(t.id), WideSlice(a, part),
         NEW given, Trainable(given), NEW liquid, liquid = FixedLenFromDecimal(a, t, given),
         NEW entries, entries = FixedLenEntries(liquid)
  PROVE  /\ liquid.type = t /\ liquid.packed = PackKeys(a, DictionaryOf(a))
         /\ Lists(DictionaryOf(a), ValuesOf(a))
         /\ [d \in DOMAIN entries |-> NumberIn(entries[d], part)] = DictionaryOf(a)
         /\ \A copy : FixedLenKept(copy, liquid) => FixedLenEntries(copy) = entries
<1>1. PICK width, h : width = ValueWidth(t.id) /\ h = 2^(part * ByteBits - 1)
  OBVIOUS
<1>2. width \in Nat \ {0} /\ h \in Nat
  BY <1>1, WidthsAre
<1>3. PICK dict : dict = DictionaryOf(a)
  OBVIOUS
<1>4. part \in 1 .. width
  BY <1>1
<1>5. Lists(dict, ValuesOf(a))
  BY <1>1, <1>2, <1>3, DictionaryOfDecimals
<1>6. PICK n \in Nat : /\ DOMAIN dict = 1 .. n /\ Len(dict) = n
                       /\ \A d \in 1 .. n : dict[d] \in Int /\ -h <= dict[d] /\ dict[d] < h
  BY <1>1, <1>2, <1>3, DictionaryOfDecimals
<1>7. PICK strings : strings = FieldsAsStrings(dict, width)
  OBVIOUS
<1>8. /\ strings \in Seq(Bytes) /\ Len(strings) = n /\ DOMAIN strings = 1 .. n
      /\ \A d \in 1 .. n : NumberIn(strings[d], part) = dict[d]
  <2>1. width \in Nat \ {0} /\ h = 2^(part * ByteBits - 1)
    BY <1>1, <1>2
  <2>2. /\ n \in Nat /\ DOMAIN dict = 1 .. n /\ Len(dict) = n
        /\ \A d \in 1 .. n : dict[d] \in Int /\ -h <= dict[d] /\ dict[d] < h
    BY <1>6
  <2> QED
    BY <1>4, <1>7, <2>1, <2>2, FieldsAreStrings
<1>9. PICK table : table = FixedLenTable(Seqs!FlattenSeq(strings), given)
  OBVIOUS
<1>10. AllSafe(table, strings)
  BY <1>8, <1>9, FixedLenTableIs
<1>11. PICK compressed : compressed = CompressEach(table, strings)
  OBVIOUS
<1>12. liquid = FixedLenOf(t, strings, PackKeys(a, dict), given)
  BY <1>1, <1>3, <1>7 DEF FixedLenFromDecimal, FieldsAsStrings
<1>13. /\ liquid.type = t /\ liquid.table = table /\ liquid.packed = PackKeys(a, dict)
       /\ liquid.data = compressed.data /\ liquid.offsets = compressed.offsets
  BY <1>9, <1>11, <1>12 DEF FixedLenOf
<1>14. entries = strings /\ \A copy : FixedLenKept(copy, liquid) => FixedLenEntries(copy) = strings
  <2>1. strings \in Seq(Seq(Nat))
    BY <1>8, StringsAreNumbers
  <2>2. /\ DecompressEach(table, compressed.data, compressed.offsets) = strings
        /\ \A reader : ReadsLike(reader, table) =>
             DecompressEach(reader, compressed.data, compressed.offsets) = strings
    BY <1>10, <1>11, <2>1, EachRestores DEF AllSafe
  <2>3. ASSUME NEW copy, FixedLenKept(copy, liquid) PROVE FixedLenEntries(copy) = strings
    BY <1>13, <2>2, <2>3 DEF FixedLenKept, FixedLenEntries
  <2> QED
    BY <1>13, <2>2, <2>3 DEF FixedLenEntries
<1>15. [d \in DOMAIN strings |-> NumberIn(strings[d], part)] = dict
  <2>1. [d \in 1 .. n |-> NumberIn(strings[d], part)] = [d \in 1 .. n |-> dict[d]]
    BY <1>8
  <2>2. [d \in 1 .. n |-> dict[d]] = dict
    BY <1>5, <1>6 DEF Lists
  <2> QED
    BY <1>8, <2>1, <2>2
<1> QED
  BY <1>3, <1>5, <1>13, <1>14, <1>15

\* Decimals come back from the bytes of their distinct values, compressed,
\* with their nulls, if the slice begins with its buffer or has none, if a key
\* can tell the values apart, and if they fit the width of their type.
THEOREM WideDecimalsRestore ==
  ASSUME NEW t, t.id \in Decimals, NEW a, WideSlice(a, ValueWidth(t.id)),
         a.offset = 0 \/ NullCount(a) = 0, Cardinality(ValuesOf(a)) <= 2^KeyBits,
         NEW given, Trainable(given)
  PROVE  Restores(FixedLenToArrow(FixedLenFromDecimal(a, t, given)).slots, a)
<1>1. PICK width : width = ValueWidth(t.id)
  OBVIOUS
<1>2. PICK liquid : liquid = FixedLenFromDecimal(a, t, given)
  OBVIOUS
<1>3. PICK dict, entries : dict = DictionaryOf(a) /\ entries = FixedLenEntries(liquid)
  OBVIOUS
<1>4. width \in 1 .. ValueWidth(t.id)
  BY <1>1, SizesAreNumbers DEF ValueWidth
<1>5. WideSlice(a, width)
  BY <1>1
<1>6. /\ liquid.type = t /\ liquid.packed = PackKeys(a, dict) /\ Lists(dict, ValuesOf(a))
      /\ [d \in DOMAIN entries |-> NumberIn(entries[d], width)] = dict
  BY <1>2, <1>3, <1>4, <1>5, WideDecimalsAre
<1>7. FixedLenToArrow(liquid).slots = Looked(PackKeys(a, dict), dict, 0)
  BY <1>1, <1>3, <1>6 DEF FixedLenToArrow, DecodedAs
<1>8. ByteSlice(a)
  BY DEF WideSlice
<1>9. Restores(Looked(PackKeys(a, dict), dict, 0), a)
  BY <1>6, <1>8, LookedRestores
<1> QED
  BY <1>2, <1>7, <1>9

-----------------------------------------------------------------------------
(* Columns of strings.                                                     *)

\* Slices of such a column are slices of strings.
LEMMA StringColumns ==
  ASSUME ColumnFits, IsString, NEW a \in ByteSlices
  PROVE  StringSlice(a)
<1>1. ByteSlice(a) /\ \A i \in Index(a) : Fitting(SlotAt(a, i))
  BY ByteSlicesOfColumn
<1>2. ValuesIn(type) = Strings
  BY DEF ValuesIn, IsString
<1>3. \A i \in ValidIn(a) : SlotAt(a, i).value \in Bytes
  BY <1>1, <1>2, StringsAssumption DEF ValidIn, Fitting, Bytes
<1> QED
  BY <1>1, <1>3 DEF StringSlice

\* The types of strings that the store's arrays decode to.
LEMMA TypesOfStrings ==
  ASSUME IsString, NEW t \in ReadableTypes
  PROVE  t \in ArrowTypes /\ t = ArrowType(t.id) /\ t.id \in {"String", "Binary"}
<1>1. ~IsDecimal
  BY DEF IsString, IsDecimal
<1>2. t \in ArrowTypes /\ t.id \in {"String", "Binary"}
  BY DEF ReadableTypes
<1>3. PICK id \in StringTypes : t = ArrowType(id)
  BY <1>1, <1>2 DEF ArrowTypes
<1> QED
  BY <1>2, <1>3 DEF ArrowType

\* What the store keeps of strings decodes to them, whether it trains a table
\* or is given one that may be used.
LEMMA StringsAreKept ==
  ASSUME ColumnFits, IsString, NEW t \in ReadableTypes, NEW a \in ByteSlices,
         NEW given, Usable(given, ValuesOf(a))
  PROVE  Restorable(t, a, given)
<1>1. t = ArrowType(t.id) /\ t.id \in {"String", "Binary"}
  BY TypesOfStrings
<1>2. SUFFICES ASSUME Sliceable(a), Numberable(a)
               PROVE  \E liquid \in TranscodeToLiquidArray(t, a, given) :
                        /\ WrapperToArrow(liquid).type = t
                        /\ Restores(WrapperToArrow(liquid).slots, a)
  BY DEF Restorable
<1>3. PICK binary : binary = (t.id \in BinaryTypes)
  OBVIOUS
<1>4. PICK inner : inner = ByteViewFromArrow(a, binary, given)
  OBVIOUS
<1>5. PICK liquid : liquid = Wrapped(inner, "ByteViewArray", Physical(t, a), t)
  OBVIOUS
<1>6. /\ t.id \in StringTypes /\ Logical(t, a) = "ByteViewArray"
      /\ Supported(t) /\ Sharing(t, given) = given
  BY <1>1 DEF Logical, Supported, Sharing, StringTypes, BinaryTypes, ArrowType
<1>7. liquid \in TranscodeToLiquidArray(t, a, given)
  BY <1>3, <1>4, <1>5, <1>6 DEF TranscodeToLiquidArray
<1>8. Restores(ByteViewToArrow(inner), a)
  <2>1. a.offset = 0 \/ NullCount(a) = 0
    BY <1>2 DEF Sliceable
  <2>2. Cardinality(ValuesOf(a)) <= 2^KeyBits
    BY <1>2 DEF Numberable
  <2>3. StringSlice(a)
    BY StringColumns
  <2> QED
    BY <1>4, <2>1, <2>2, <2>3, StringsRestore
<1>9. /\ liquid.original = t /\ liquid.inner = inner /\ liquid.logical = "ByteViewArray"
      /\ inner.binary = binary
  BY <1>4, <1>5 DEF Wrapped, ByteViewFromArrow, WithFlags
<1>10. ArrowType(IF inner.binary THEN "Binary" ELSE "String") = t
  <2>1. PICK id : id = t.id
    OBVIOUS
  <2>2. t = ArrowType(id) /\ id \in {"String", "Binary"}
    BY <1>1, <2>1
  <2>3. binary = (id = "Binary")
    BY <1>3, <2>1, <2>2 DEF BinaryTypes
  <2>4. (IF inner.binary THEN "Binary" ELSE "String") = id
    BY <1>9, <2>2, <2>3
  <2> QED
    BY <2>2, <2>4
<1>11. InnerToArrow(liquid).type = t /\ InnerToArrow(liquid).slots = ByteViewToArrow(inner)
  BY <1>9, <1>10 DEF InnerToArrow, DecodedAs
<1>12. WrapperToArrow(liquid) = InnerToArrow(liquid)
  BY <1>9, <1>11 DEF WrapperToArrow
<1> QED
  BY <1>7, <1>8, <1>11, <1>12

-----------------------------------------------------------------------------
(* Columns of decimals.                                                    *)

\* Slices of such a column are slices of decimals, which have room in their
\* types.
LEMMA DecimalColumns ==
  ASSUME ColumnFits, IsDecimal, NEW a \in ByteSlices
  PROVE  DecimalSlice(a) /\ \A id \in Decimals : WideSlice(a, ValueWidth(id))
<1>1. ByteSlice(a) /\ \A i \in Index(a) : Fitting(SlotAt(a, i))
  BY ByteSlicesOfColumn
<1>2. PICK m : m = 2^UInt64.bits
  OBVIOUS
<1>3. m \in Nat \ {0} /\ MaxOf(UInt64) = m - 1 /\ m <= 2^WordBits /\ 2^WordBits \in Nat
  BY <1>2, UInt64Is
<1>4. ValuesIn(type) = {-1, 0, 1, m - 1, (m - 1) + 1}
  BY <1>3 DEF ValuesIn, IsDecimal, DecimalBoundary
<1>5. \A i \in ValidIn(a) : SlotAt(a, i).value \in {-1, 0, 1, m - 1, (m - 1) + 1}
  BY <1>1, <1>4 DEF ValidIn, Fitting
<1>6. DecimalSlice(a)
  BY <1>1, <1>3, <1>5 DEF DecimalSlice
<1>7. ASSUME NEW id \in Decimals PROVE WideSlice(a, ValueWidth(id))
  <2>1. PICK width, h : width = ValueWidth(id) /\ h = 2^(width * ByteBits - 1)
    OBVIOUS
  <2>2. h \in Nat /\ m < h /\ h > 1
    <3>1. PICK half : half = WordBits
      OBVIOUS
    <3>2. half \in Nat /\ half > 1 /\ WordBytes \in Nat \ {0} /\ ByteBits \in Nat
          /\ half = WordBytes * ByteBits
      <4>1. ByteBits \in Nat /\ ByteBits > 1 /\ WordBytes \in Nat \ {0}
        BY SizesAssumption, FormatAssumption
      <4>2. WordBytes * ByteBits >= ByteBits
        BY <4>1
      <4> QED
        BY <3>1, <4>1, <4>2, SizesAreNumbers
    <3>3. width * ByteBits \in Nat /\ width * ByteBits >= 2 * half
      <4>1. width = 2 * WordBytes \/ width = 4 * WordBytes
        BY <2>1 DEF ValueWidth
      <4>2. (2 * WordBytes) * ByteBits = 2 * half /\ (4 * WordBytes) * ByteBits = 4 * half
        BY <3>2
      <4> QED
        BY <3>2, <4>1, <4>2
    <3>4. half + 1 \in 0 .. width * ByteBits - 1 /\ width * ByteBits - 1 \in Nat
      BY <3>2, <3>3
    <3>5. 2^(half + 1) <= h /\ h \in Nat
      BY <2>1, <3>4, PowersGrow
    <3>6. 2^(half + 1) = 2 * 2^half /\ 2^half \in Nat \ {0}
      BY <3>2, PowerDoubles, PowersGrow
    <3> QED
      BY <1>3, <3>1, <3>5, <3>6
  <2>3. \A i \in ValidIn(a) : SlotAt(a, i).value \in -h .. h - 1
    BY <1>3, <1>5, <2>2
  <2> QED
    BY <1>1, <2>1, <2>3 DEF WideSlice
<1> QED
  BY <1>6, <1>7

\* The types of decimals.
LEMMA TypesOfDecimals ==
  ASSUME IsDecimal, NEW t \in ArrowTypes
  PROVE  t.id \in Decimals /\ t.id \notin StringTypes /\ t.id \notin FloatTypes /\ ~t.zoned
<1>1. t \in [id : Decimals, zoned : {FALSE}, scale : {-1, 2}]
  BY DEF ArrowTypes
<1> QED
  BY <1>1 DEF Decimals, StringTypes, BinaryTypes, FloatTypes

\* What the store keeps of decimals decodes to them: of those that are all
\* words, and of others, whatever compressor it is given.
LEMMA DecimalsAreKept ==
  ASSUME ColumnFits, IsDecimal, NEW t \in ArrowTypes, NEW a \in ByteSlices,
         NEW given, Trainable(given)
  PROVE  Restorable(t, a, given)
<1>1. t.id \in Decimals /\ t.id \notin StringTypes /\ t.id \notin FloatTypes /\ ~t.zoned
  BY TypesOfDecimals
<1>2. SUFFICES ASSUME Sliceable(a), Numberable(a)
               PROVE  \E liquid \in TranscodeToLiquidArray(t, a, given) :
                        /\ WrapperToArrow(liquid).type = t
                        /\ Restores(WrapperToArrow(liquid).slots, a)
  BY DEF Restorable
<1>3. (a.offset = 0 \/ NullCount(a) = 0) /\ Cardinality(ValuesOf(a)) <= 2^KeyBits
  BY <1>2 DEF Sliceable, Numberable
<1>4. DecimalSlice(a) /\ WideSlice(a, ValueWidth(t.id))
  BY <1>1, DecimalColumns
<1>5. Supported(t)
  BY <1>1 DEF Supported
<1>6. CASE FitsU64(a)
  <2>1. PICK inner : inner = DecimalFromArrow(a, t)
    OBVIOUS
  <2>2. PICK liquid : liquid = Wrapped(inner, "Decimal", Physical(t, a), t)
    OBVIOUS
  <2>3. Logical(t, a) = "Decimal"
    BY <1>1, <1>6 DEF Logical
  <2>4. liquid \in TranscodeToLiquidArray(t, a, given)
    BY <1>5, <2>1, <2>2, <2>3 DEF TranscodeToLiquidArray
  <2>5. Restores(DecimalToArrow(inner).slots, a)
    BY <1>3, <1>4, <1>6, <2>1, DecimalsRestore
  <2>6. liquid.original = t /\ liquid.inner = inner /\ liquid.logical = "Decimal"
    BY <2>2 DEF Wrapped
  <2>7. DecimalToArrow(inner).type = t
    BY <2>1 DEF DecimalToArrow, DecimalFromArrow, DecodedAs
  <2>8. InnerToArrow(liquid) = DecimalToArrow(inner)
    BY <2>6 DEF InnerToArrow
  <2>9. WrapperToArrow(liquid) = InnerToArrow(liquid)
    BY <2>6, <2>7, <2>8 DEF WrapperToArrow
  <2> QED
    BY <2>4, <2>5, <2>7, <2>8, <2>9
<1>7. CASE ~FitsU64(a)
  <2>1. PICK inner : inner = FixedLenFromDecimal(a, t, given)
    OBVIOUS
  <2>2. PICK liquid : liquid = Wrapped(inner, "FixedLenByteArray", Physical(t, a), t)
    OBVIOUS
  <2>3. Logical(t, a) = "FixedLenByteArray"
    BY <1>1, <1>7 DEF Logical
  <2>4. liquid \in TranscodeToLiquidArray(t, a, given)
    BY <1>5, <2>1, <2>2, <2>3 DEF TranscodeToLiquidArray
  <2>5. Restores(FixedLenToArrow(inner).slots, a)
    BY <1>1, <1>3, <1>4, <2>1, WideDecimalsRestore
  <2>6. liquid.original = t /\ liquid.inner = inner /\ liquid.logical = "FixedLenByteArray"
    BY <2>2 DEF Wrapped
  <2>7. FixedLenToArrow(inner).type = t
    BY <2>1 DEF FixedLenToArrow, FixedLenFromDecimal, FixedLenOf, DecodedAs
  <2>8. InnerToArrow(liquid) = FixedLenToArrow(inner)
    BY <2>6 DEF InnerToArrow
  <2>9. WrapperToArrow(liquid) = InnerToArrow(liquid)
    BY <2>6, <2>7, <2>8 DEF WrapperToArrow
  <2> QED
    BY <2>4, <2>5, <2>7, <2>8, <2>9
<1> QED
  BY <1>6, <1>7

\* There are four kinds of columns.
LEMMA KindsAre ==
  ASSUME ColumnFits
  PROVE  IsInteger \/ IsFloat \/ IsString \/ IsDecimal
BY TypesAssumption DEF ColumnFits, ColumnOK, IsInteger, IsFloat, IsString, IsDecimal

\* What the store keeps of a column decodes to an array of the column's own
\* type, with its nulls and values, for every type that is read as it was.
THEOREM ColumnsAreStored == Spec => []StoredArraysRestore
<1>1. ColumnFits => (IsString \/ IsDecimal => StoredArraysRestore)
  <2> SUFFICES ASSUME ColumnFits, IsString \/ IsDecimal, NEW t \in ReadableTypes, NEW a \in ByteSlices
               PROVE  Restorable(t, a, {})
    BY DEF StoredArraysRestore
  <2>1. CASE IsString
    <3>1. Usable({}, ValuesOf(a))
      BY DEF Usable
    <3> QED
      BY <2>1, <3>1, StringsAreKept
  <2>2. CASE IsDecimal
    <3>1. Trainable({}) /\ t \in ArrowTypes
      BY DEF Trainable, ReadableTypes
    <3> QED
      BY <2>2, <3>1, DecimalsAreKept
  <2> QED
    BY <2>1, <2>2
<1>2. ColumnFits => IsInteger \/ IsFloat \/ IsString \/ IsDecimal
  BY KindsAre
<1>3. Spec => [](IsInteger \/ IsFloat => StoredArraysRestore)
  BY NumbersAreStored
<1>4. ColumnFits /\ (IsInteger \/ IsFloat => StoredArraysRestore) => StoredArraysRestore
  BY <1>1, <1>2
<1> QED
  BY <1>3, <1>4, ColumnStaysFit, PTL DEF Spec

-----------------------------------------------------------------------------
(* Compressors that batches share.                                         *)

\* The compressor of a column, if there is one: its symbols are trained, and
\* only one whose lookup table was never built has none.  Columns of numbers
\* leave none.
CompressorFits == ColumnFits /\ Trainable(compressor)

\* A copy of a trained table may be given to a later batch.
LEMMA CopiesAreTrainable ==
  ASSUME NEW table, TableOK(table), table.built \/ table.symbols = <<>>,
         table.phantom # <<>> => ~table.built,
         NEW copy \in Copies(table)
  PROVE  Trainable({copy})
<1>1. CASE table.built
  <2>1. copy = table
    BY <1>1 DEF Copies
  <2> QED
    BY <1>1, <2>1 DEF Trainable
<1>2. CASE ~table.built
  <2>1. PICK symbol \in {<<>>} \cup Phantoms : copy = [table EXCEPT !.phantom = symbol]
    BY <1>2 DEF Copies
  <2>2. symbol # <<>> => symbol[1] = 0
    BY SymbolsAssumption
  <2>3. copy.symbols = table.symbols /\ copy.built = table.built
    BY <2>1
  <2>4. copy.phantom # <<>> => copy.phantom = symbol
    BY <2>1
  <2>5. TableOK(copy)
    BY <1>2, <2>2, <2>3, <2>4 DEF TableOK
  <2> QED
    BY <2>3, <2>5 DEF Trainable
<1> QED
  BY <1>1, <1>2

\* Strings train a table, unless they are empty.
LEMMA StringsTrain ==
  ASSUME NEW a, StringSlice(a), NEW table, table = ByteViewFromArrow(a, FALSE, {}).array.table
  PROVE  Learned(table)
<1>1. PICK dict : dict = DictionaryOf(a)
  OBVIOUS
<1>2. PICK prefix, suffixes :
        prefix = SharedPrefix(dict) /\ suffixes = SuffixesOf(dict, prefix)
  OBVIOUS
<1>3. PICK packed : packed = PackKeys(a, dict)
  OBVIOUS
<1>4. PICK trained : trained = Train(Seqs!FlattenSeq(suffixes))
  OBVIOUS
<1>5. PICK liquid : liquid = BuildEncodedDict(dict, packed, {})
  OBVIOUS
<1>6. liquid = Assembled(prefix, suffixes, trained, packed)
  BY <1>2, <1>4, <1>5 DEF BuildEncodedDict
<1>7. liquid.table = trained
  BY <1>6 DEF Assembled
<1>8. ByteViewFromArrow(a, FALSE, {}).array = liquid
  BY <1>1, <1>3, <1>5 DEF ByteViewFromArrow, WithFlags
<1>9. dict \in Seq(Bytes)
  BY <1>1, DictionaryOfStrings
<1>10. suffixes \in Seq(Bytes)
  BY <1>2, <1>9, SharedPrefixIs DEF Split
<1>11. Seqs!FlattenSeq(suffixes) \in Bytes
  BY <1>10, FlattenedIsSeq DEF Bytes
<1> QED
  BY <1>4, <1>7, <1>8, <1>11, TrainedTables

\* So do decimals that are not all words.
LEMMA DecimalsTrain ==
  ASSUME NEW t, t.id \in Decimals, NEW a, WideSlice(a, ValueWidth(t.id)),
         NEW table, table = FixedLenFromDecimal(a, t, {}).table
  PROVE  Learned(table)
<1>1. PICK width, h : width = ValueWidth(t.id) /\ h = 2^(width * ByteBits - 1)
  OBVIOUS
<1>2. width \in Nat \ {0} /\ h \in Nat
  <2>1. width \in 1 .. ValueWidth(t.id)
    BY <1>1, SizesAreNumbers DEF ValueWidth
  <2> QED
    BY <1>1, <2>1, WidthsAre
<1>3. PICK dict : dict = DictionaryOf(a)
  OBVIOUS
<1>4. WideSlice(a, width)
  BY <1>1
<1>5. PICK n \in Nat : /\ DOMAIN dict = 1 .. n /\ Len(dict) = n
                       /\ \A d \in 1 .. n : dict[d] \in Int /\ -h <= dict[d] /\ dict[d] < h
  BY <1>1, <1>2, <1>3, <1>4, DictionaryOfDecimals
<1>6. PICK entries : entries = FieldsAsStrings(dict, width)
  OBVIOUS
<1>7. entries \in Seq(Bytes)
  BY <1>1, <1>2, <1>5, <1>6, WholeFieldsAreStrings
<1>8. PICK trained : trained = FixedLenTable(Seqs!FlattenSeq(entries), {})
  OBVIOUS
<1>9. trained = Train(Seqs!FlattenSeq(entries))
  BY <1>8 DEF FixedLenTable
<1>10. PICK liquid : liquid = FixedLenFromDecimal(a, t, {})
  OBVIOUS
<1>11. liquid = FixedLenOf(t, entries, PackKeys(a, dict), {})
  BY <1>1, <1>3, <1>6, <1>10 DEF FixedLenFromDecimal, FieldsAsStrings
<1>12. liquid.table = trained
  BY <1>8, <1>11 DEF FixedLenOf
<1>13. Seqs!FlattenSeq(entries) \in Bytes
  BY <1>7, FlattenedIsSeq DEF Bytes
<1> QED
  BY <1>9, <1>10, <1>12, <1>13, TrainedTables

\* What a batch leaves for the next ones can be copied for them.
LEMMA TablesAreLeft ==
  ASSUME CompressorFits, NEW t \in ArrowTypes,
         NEW table \in CompressorAfter(t, Array(column, 0), compressor)
  PROVE  /\ TableOK(table) /\ (table.built \/ table.symbols = <<>>)
         /\ table.phantom # <<>> => ~table.built
<1>1. PICK a : a = Array(column, 0)
  OBVIOUS
<1>2. a \in ByteSlices /\ ColumnFits
  BY <1>1, ColumnIsSlice DEF CompressorFits, ColumnFits
<1>3. CASE compressor # {}
  <2>1. PICK u : compressor = {u} /\ TableOK(u) /\ (u.built \/ u.symbols = <<>>)
    BY <1>3 DEF CompressorFits, Trainable
  <2>2. table = u
    BY <1>3, <2>1 DEF CompressorAfter
  <2> QED
    BY <2>1, <2>2 DEF TableOK
<1>4. CASE compressor = {}
  <2>1. table \in CASE t.id \in {"String", "LargeString", "Binary", "LargeBinary"} ->
                          {ByteViewFromArrow(a, FALSE, {}).array.table}
                   [] t.id \in Decimals /\ ~FitsU64(a) -> {FixedLenFromDecimal(a, t, {}).table}
                   [] OTHER -> {}
    BY <1>1, <1>4 DEF CompressorAfter
  <2>2. CASE t.id \in {"String", "LargeString", "Binary", "LargeBinary"}
    <3>1. table = ByteViewFromArrow(a, FALSE, {}).array.table
      BY <2>1, <2>2 DEF Decimals
    <3>2. IsString
      <4>1. t.id \in StringTypes /\ t.id \notin Decimals
        BY <2>2 DEF StringTypes, BinaryTypes, Decimals
      <4>2. ~IsDecimal
        BY <4>1, TypesOfDecimals
      <4>3. ~(IsInteger \/ IsFloat)
        BY <4>1, TypesOfNumbers
      <4>4. IsInteger \/ IsFloat \/ IsString \/ IsDecimal
        BY <1>2, KindsAre
      <4> QED
        BY <4>2, <4>3, <4>4
    <3>3. Learned(table)
      BY <1>2, <3>1, <3>2, StringColumns, StringsTrain
    <3> QED
      BY <3>3 DEF Learned
  <2>3. CASE t.id \in Decimals /\ ~FitsU64(a)
    <3>1. table = FixedLenFromDecimal(a, t, {}).table
      BY <2>1, <2>3 DEF Decimals
    <3>2. IsDecimal
      <4>1. t.id \notin StringTypes
        BY <2>3 DEF StringTypes, BinaryTypes, Decimals
      <4>2. ~(IsInteger \/ IsFloat)
        BY <2>3, TypesOfNumbers
      <4>3. ~IsString
        <5> SUFFICES ASSUME IsString PROVE FALSE
          OBVIOUS
        <5>1. PICK id \in StringTypes : t = ArrowType(id)
          BY DEF ArrowTypes, IsString, IsDecimal
        <5> QED
          BY <4>1, <5>1 DEF ArrowType
      <4>4. IsInteger \/ IsFloat \/ IsString \/ IsDecimal
        BY <1>2, KindsAre
      <4> QED
        BY <4>2, <4>3, <4>4
    <3>3. WideSlice(a, ValueWidth(t.id))
      BY <1>2, <2>3, <3>2, DecimalColumns
    <3>4. Learned(table)
      BY <2>3, <3>1, <3>3, DecimalsTrain
    <3> QED
      BY <3>4 DEF Learned
  <2> QED
    BY <2>1, <2>2, <2>3
<1> QED
  BY <1>3, <1>4

\* No batch leaves another kind of compressor.
LEMMA CompressorStaysFit ==
  /\ Init => CompressorFits
  /\ CompressorFits /\ [Next]_vars => CompressorFits'
<1>1. Init => CompressorFits
  BY ColumnStaysFit DEF Init, CompressorFits, Trainable
<1>2. ASSUME CompressorFits, [Next]_vars PROVE CompressorFits'
  <2>1. ColumnFits'
    BY <1>2, ColumnStaysFit DEF CompressorFits
  <2>2. Trainable(compressor')
    <3>1. CASE compressor' = compressor
      BY <1>2, <3>1 DEF CompressorFits
    <3>2. CASE NextBatch
      <4>1. PICK t \in ArrowTypes :
              \E table \in CompressorAfter(t, Array(column, 0), compressor) :
                \E copy \in Copies(table) : compressor' = {copy}
        BY <3>2 DEF NextBatch
      <4> PICK table \in CompressorAfter(t, Array(column, 0), compressor) :
            \E copy \in Copies(table) : compressor' = {copy}
        BY <4>1
      <4> PICK copy \in Copies(table) : compressor' = {copy}
        OBVIOUS
      <4>2. /\ TableOK(table) /\ (table.built \/ table.symbols = <<>>)
            /\ table.phantom # <<>> => ~table.built
        BY <1>2, TablesAreLeft
      <4>3. Trainable({copy})
        BY <4>2, CopiesAreTrainable
      <4> QED
        BY <4>3
    <3> QED
      BY <1>2, <3>1, <3>2 DEF Next, AppendSlot, vars
  <2>3. Trainable(compressor)'
    BY <2>2 DEF Trainable, TableOK
  <2> QED
    BY <2>1, <2>3 DEF CompressorFits
<1> QED
  BY <1>1, <1>2

\* A compressor that a column can come to may be used for strings that can be
\* read with it.
LEMMA ReadableIsUsable ==
  ASSUME CompressorFits, IsString, NEW a, Readable(a)
  PROVE  Usable(compressor, ValuesOf(a))
<1>1. CASE compressor = {}
  BY <1>1 DEF Usable
<1>2. CASE compressor # {}
  <2>1. PICK u : compressor = {u} /\ TableOK(u) /\ (u.built \/ u.symbols = <<>>)
    BY <1>2 DEF CompressorFits, Trainable
  <2>2. ASSUME NEW v \in ValuesOf(a) PROVE Safe(u, v)
    <3>1. u.built \/ \A k \in DOMAIN v : v[k] # 0
      BY <2>1 DEF Readable
    <3> QED
      BY <2>1, <3>1 DEF Safe, TableOK
  <2> QED
    BY <2>1, <2>2 DEF Usable
<1> QED
  BY <1>1, <1>2

\* What is kept of a batch decodes to it as well if it was given the table of a
\* batch before, of the same column or of another file's, unless that table
\* was never built and the batch's strings have zero bytes.
THEOREM TablesAreShared == Spec => []SharedTablesRestore
<1>1. CompressorFits /\ NumbersFit => SharedTablesRestore
  <2> SUFFICES ASSUME CompressorFits, NumbersFit, NEW t \in ReadableTypes, NEW a \in ByteSlices,
                      compressor # {}, Readable(a)
               PROVE  Restorable(t, a, compressor)
    BY DEF SharedTablesRestore
  <2>1. ColumnFits /\ ~(IsInteger \/ IsFloat)
    BY DEF CompressorFits, NumbersFit
  <2>2. CASE IsString
    <3>1. Usable(compressor, ValuesOf(a))
      BY <2>2, ReadableIsUsable
    <3> QED
      BY <2>1, <2>2, <3>1, StringsAreKept
  <2>3. CASE IsDecimal
    <3>1. Trainable(compressor) /\ t \in ArrowTypes
      BY DEF CompressorFits, ReadableTypes
    <3> QED
      BY <2>1, <2>3, <3>1, DecimalsAreKept
  <2> QED
    BY <2>1, <2>2, <2>3, KindsAre
<1> QED
  BY <1>1, CompressorStaysFit, NumbersStayFit, PTL DEF Spec

-----------------------------------------------------------------------------
(* Strings and decimals as Velox vectors.                                  *)

\* Looking the keys up in a dictionary restores an array.
LooksUp(packed, dict, a) == \A none : Restores(Looked(packed, dict, none), a)

\* The keys of the valid slots lead to their values.
LEMMA LookedLeads ==
  ASSUME NEW a, NEW packed, NEW dict, NEW keys, keys = UnpackedKeys(packed),
         LooksUp(packed, dict, a)
  PROVE  /\ DOMAIN keys = Index(a)
         /\ \A i \in Index(a) :
              /\ SlotAt(a, i).valid = ~IsNull(packed, i)
              /\ ~IsNull(packed, i) => dict[keys[i] + 1] = SlotAt(a, i).value
<1>1. ASSUME NEW none PROVE Restores(Looked(packed, dict, none), a)
  BY DEF LooksUp
<1>2. ASSUME NEW none
      PROVE  /\ DOMAIN Looked(packed, dict, none) = DOMAIN keys
             /\ \A i \in DOMAIN keys :
                  /\ Looked(packed, dict, none)[i].valid = ~IsNull(packed, i)
                  /\ Looked(packed, dict, none)[i].value =
                       IF ~IsNull(packed, i) /\ keys[i] < Len(dict) THEN dict[keys[i] + 1] ELSE none
  BY DEF Looked
<1>3. DOMAIN keys = Index(a)
  BY <1>1, <1>2 DEF Restores
<1>4. ASSUME NEW i \in Index(a)
      PROVE  /\ SlotAt(a, i).valid = ~IsNull(packed, i)
             /\ ~IsNull(packed, i) => dict[keys[i] + 1] = SlotAt(a, i).value
  <2>1. ASSUME NEW none
        PROVE  /\ SlotAt(a, i).valid = ~IsNull(packed, i)
               /\ ~IsNull(packed, i) =>
                    (IF keys[i] < Len(dict) THEN dict[keys[i] + 1] ELSE none) = SlotAt(a, i).value
    <3>1. PICK looked : looked = Looked(packed, dict, none)
      OBVIOUS
    <3>2. /\ looked[i].valid = SlotAt(a, i).valid
          /\ looked[i].valid => looked[i].value = SlotAt(a, i).value
      BY <1>1, <3>1 DEF Restores
    <3>3. /\ looked[i].valid = ~IsNull(packed, i)
          /\ looked[i].value =
               IF ~IsNull(packed, i) /\ keys[i] < Len(dict) THEN dict[keys[i] + 1] ELSE none
      BY <1>2, <1>3, <3>1
    <3> QED
      BY <3>2, <3>3
  <2>2. SlotAt(a, i).valid = ~IsNull(packed, i)
    BY <2>1
  <2>3. ASSUME ~IsNull(packed, i) PROVE dict[keys[i] + 1] = SlotAt(a, i).value
    <3>1. CASE keys[i] < Len(dict)
      <4>1. (IF keys[i] < Len(dict) THEN dict[keys[i] + 1] ELSE 0) = SlotAt(a, i).value
        BY <2>1, <2>3
      <4> QED
        BY <3>1, <4>1
    <3>2. CASE ~(keys[i] < Len(dict))
      <4>1. (IF keys[i] < Len(dict) THEN dict[keys[i] + 1] ELSE 0) = SlotAt(a, i).value
        BY <2>1, <2>3
      <4>2. (IF keys[i] < Len(dict) THEN dict[keys[i] + 1] ELSE 1) = SlotAt(a, i).value
        BY <2>1, <2>3
      <4> QED
        BY <3>2, <4>1, <4>2
    <3> QED
      BY <3>1, <3>2
  <2> QED
    BY <2>2, <2>3
<1> QED
  BY <1>3, <1>4

\* So do those of the slice's own dictionary.
LEMMA KeysLead ==
  ASSUME NEW a, ByteSlice(a), a.offset = 0 \/ NullCount(a) = 0,
         NEW dict, Lists(dict, ValuesOf(a)), Cardinality(ValuesOf(a)) <= 2^KeyBits,
         NEW packed, packed = PackKeys(a, dict), NEW keys, keys = UnpackedKeys(packed)
  PROVE  /\ DOMAIN keys = Index(a)
         /\ \A i \in Index(a) :
              /\ SlotAt(a, i).valid = ~IsNull(packed, i)
              /\ ~IsNull(packed, i) => dict[keys[i] + 1] = SlotAt(a, i).value
<1>1. LooksUp(packed, dict, a)
  BY LookedRestores DEF LooksUp
<1> QED
  BY <1>1, LookedLeads

\* A vector of the values themselves agrees with what it is made of.
LEMMA SameSlotsAgree ==
  ASSUME NEW t, t.id # "Date64", t.id \notin Timestamps, NEW veloxType,
         NEW vector, vector.type = veloxType, NEW a, Restores(vector.slots, a)
  PROVE  AgreesInVelox(t, vector, veloxType, a)
<1>1. ASSUME NEW i \in Index(a), vector.slots[i].valid
      PROVE  SameInVelox(t, veloxType, vector.slots[i].value, SlotAt(a, i).value)
  <2>1. vector.slots[i].value = SlotAt(a, i).value
    BY <1>1 DEF Restores
  <2> QED
    BY <2>1 DEF SameInVelox
<1> QED
  BY <1>1 DEF AgreesInVelox, Restores

\* The rows' types of strings: views have none.
LEMMA RowTypesOfStrings ==
  ASSUME IsString, NEW t \in ArrowTypes, NEW rowType \in RowTypeOf(t)
  PROVE  /\ t.id \in {"String", "LargeString", "Binary", "LargeBinary"} /\ t = ArrowType(t.id)
         /\ rowType = IF t.id \in BinaryTypes THEN "VARBINARY" ELSE "VARCHAR"
<1>1. PICK id \in StringTypes : t = ArrowType(id)
  BY DEF ArrowTypes, IsString, IsDecimal
<1>2. t.id = id /\ id \notin Physicals /\ id \notin Decimals
  <2>1. \A p \in Physicals : p \notin StringTypes
    <3> SUFFICES ASSUME NEW n \in DOMAIN PhysicalTypes PROVE PhysicalTypes[n] \notin StringTypes
      BY DEF Physicals
    <3>1. n \in 1 .. 16
      BY DEF PhysicalTypes
    <3> QED
      BY <3>1 DEF PhysicalTypes, StringTypes, BinaryTypes
  <2>2. \A d \in Decimals : d \notin StringTypes
    BY DEF Decimals, StringTypes, BinaryTypes
  <2> QED
    BY <1>1, <2>1, <2>2 DEF ArrowType
<1>3. id \in {"String", "LargeString", "Binary", "LargeBinary"}
  BY <1>2 DEF RowTypeOf
<1>4. rowType = IF id \in {"String", "LargeString"} THEN "VARCHAR" ELSE "VARBINARY"
  BY <1>2, <1>3 DEF RowTypeOf
<1> QED
  BY <1>1, <1>2, <1>3, <1>4 DEF BinaryTypes

\* A vector of strings has what a lookup of its keys restores.
LEMMA VectorRestores ==
  ASSUME NEW a, NEW liquid, NEW packed, packed = liquid.array.packed,
         NEW dict, dict = Entries(liquid.array), LooksUp(packed, dict, a),
         NEW vector, vector = ByteViewToVelox(liquid)
  PROVE  /\ Restores(vector.slots, a)
         /\ vector.type = IF liquid.binary THEN "VARBINARY" ELSE "VARCHAR"
         /\ vector.ascii => liquid.ascii
<1>1. PICK keys : keys = UnpackedKeys(packed)
  OBVIOUS
<1>2. /\ DOMAIN keys = Index(a)
      /\ \A i \in Index(a) :
           /\ SlotAt(a, i).valid = ~IsNull(packed, i)
           /\ ~IsNull(packed, i) => dict[keys[i] + 1] = SlotAt(a, i).value
  BY <1>1, LookedLeads
<1>3. /\ vector.type = IF liquid.binary THEN "VARBINARY" ELSE "VARCHAR"
      /\ vector.ascii = (DOMAIN keys # {} /\ liquid.ascii)
      /\ vector.slots = [i \in DOMAIN keys |->
                           [valid |-> ~IsNull(packed, i),
                            value |-> IF IsNull(packed, i) THEN <<>> ELSE dict[keys[i] + 1]]]
  BY <1>1 DEF ByteViewToVelox
<1>4. DOMAIN vector.slots = Index(a)
  BY <1>2, <1>3
<1>5. ASSUME NEW i \in Index(a)
      PROVE  /\ vector.slots[i].valid = SlotAt(a, i).valid
             /\ vector.slots[i].valid => vector.slots[i].value = SlotAt(a, i).value
  <2>1. /\ vector.slots[i].valid = ~IsNull(packed, i)
        /\ vector.slots[i].value = IF IsNull(packed, i) THEN <<>> ELSE dict[keys[i] + 1]
    BY <1>2, <1>3
  <2>2. vector.slots[i].valid = SlotAt(a, i).valid
    <3>1. SlotAt(a, i).valid = ~IsNull(packed, i)
      BY <1>2, Zenon
    <3>2. vector.slots[i].valid = ~IsNull(packed, i)
      BY <2>1, Zenon
    <3> QED
      BY <3>1, <3>2
  <2>3. ASSUME vector.slots[i].valid PROVE vector.slots[i].value = SlotAt(a, i).value
    BY <1>2, <2>1, <2>3
  <2> QED
    BY <2>2, <2>3
<1> QED
  BY <1>3, <1>4, <1>5 DEF Restores

\* The vector of a slice of strings has its nulls and strings, which are ASCII
\* if that is said of a slice that begins with its buffer.
LEMMA StringsAgree ==
  ASSUME NEW a, StringSlice(a), a.offset = 0 \/ NullCount(a) = 0,
         Cardinality(ValuesOf(a)) <= 2^KeyBits, NEW given, Usable(given, ValuesOf(a)),
         NEW binary \in BOOLEAN,
         NEW vector, vector = ByteViewToVelox(ByteViewFromArrow(a, binary, given))
  PROVE  /\ Restores(vector.slots, a)
         /\ vector.type = IF binary THEN "VARBINARY" ELSE "VARCHAR"
         /\ (vector.ascii /\ a.offset = 0) => \A v \in ValuesOf(a) : IsAscii(v)
<1>1. PICK dict : dict = DictionaryOf(a)
  OBVIOUS
<1>2. PICK packed : packed = PackKeys(a, dict)
  OBVIOUS
<1>3. PICK liquid : liquid = BuildEncodedDict(dict, packed, given)
  OBVIOUS
<1>4. dict \in Seq(Bytes) /\ \A d \in 1 .. Len(dict) : dict[d] \in ValuesOf(a)
  BY <1>1, DictionaryOfStrings
<1>5. given = {} \/ \E t : given = {t} /\ AllSafe(t, dict)
  BY <1>4 DEF Usable, AllSafe
<1>6. Entries(liquid) = dict /\ liquid.packed = packed
  BY <1>3, <1>4, <1>5, BuiltRestores
<1>7. PICK whole : whole = ByteViewFromArrow(a, binary, given)
  OBVIOUS
<1>8. /\ whole.array = liquid /\ whole.binary = binary
      /\ whole.ascii = (~binary /\ CheckAllAscii(a))
  BY <1>1, <1>2, <1>3, <1>7 DEF ByteViewFromArrow, WithFlags
<1>9. ByteSlice(a) /\ Lists(dict, ValuesOf(a))
  BY <1>1, DictionaryIs DEF StringSlice
<1>10. LooksUp(packed, dict, a)
  BY <1>2, <1>9, LookedRestores DEF LooksUp
<1>11. /\ Restores(vector.slots, a)
       /\ vector.type = IF whole.binary THEN "VARBINARY" ELSE "VARCHAR"
       /\ vector.ascii => whole.ascii
  BY <1>6, <1>7, <1>8, <1>10, VectorRestores
<1>12. ASSUME vector.ascii, a.offset = 0, NEW v \in ValuesOf(a) PROVE IsAscii(v)
  <2>1. PICK i \in ValidIn(a) : v = SlotAt(a, i).value
    BY DEF ValuesOf
  <2>2. i \in Index(a) /\ SlotAt(a, i).valid /\ i \in Int
    BY SliceIs DEF StringSlice
  <2>3. a.slots[i + 1].valid
    BY <1>12, <2>2 DEF SlotAt
  <2>4. CheckAllAscii(a)
    BY <1>8, <1>11, <1>12
  <2> QED
    BY <2>1, <2>2, <2>3, <2>4 DEF CheckAllAscii
<1> QED
  BY <1>8, <1>11, <1>12

\* So it does for what the store keeps of a column of strings.
LEMMA StoredStringsAgree ==
  ASSUME ColumnFits, IsString, NEW t \in ArrowTypes, NEW a \in ByteSlices,
         Sliceable(a), Numberable(a), Usable(compressor, ValuesOf(a)),
         NEW short \in BOOLEAN, NEW rowType \in RowTypeOf(t)
  PROVE  StoredVectorAgrees(t, a, short, rowType)
<1>1. /\ t.id \in {"String", "LargeString", "Binary", "LargeBinary"}
      /\ rowType = IF t.id \in BinaryTypes THEN "VARBINARY" ELSE "VARCHAR"
  BY RowTypesOfStrings
<1>2. PICK binary \in BOOLEAN : binary = (t.id \in BinaryTypes)
  <2>1. (t.id \in BinaryTypes) \in BOOLEAN
    OBVIOUS
  <2> QED
    BY <2>1, Zenon
<1>3. PICK inner : inner = ByteViewFromArrow(a, binary, compressor)
  OBVIOUS
<1>4. /\ Logical(t, a) = "ByteViewArray" /\ Sharing(t, compressor) = compressor
      /\ t.id \notin Timestamps /\ t.id # "Date64"
  BY <1>1 DEF Logical, Sharing, StringTypes, BinaryTypes, Timestamps
<1>5. SUFFICES ASSUME NEW liquid \in TranscodeToLiquidArray(t, a, compressor),
                      NEW vector, vector = ToVelox(liquid, short)
               PROVE  /\ AgreesInVelox(t, vector, rowType, a)
                      /\ (vector.ascii /\ a.offset = 0) => \A v \in ValuesOf(a) : IsAscii(v)
  BY <1>4 DEF StoredVectorAgrees
<1>6. liquid = Wrapped(inner, "ByteViewArray", Physical(t, a), t)
  BY <1>2, <1>3, <1>4 DEF TranscodeToLiquidArray
<1>7. liquid.inner = inner /\ liquid.logical = "ByteViewArray"
  BY <1>6 DEF Wrapped
<1>8. vector = ByteViewToVelox(inner)
  BY <1>5, <1>7 DEF ToVelox
<1>9. /\ StringSlice(a) /\ (a.offset = 0 \/ NullCount(a) = 0)
      /\ Cardinality(ValuesOf(a)) <= 2^KeyBits
  BY StringColumns DEF Sliceable, Numberable
<1>10. /\ Restores(vector.slots, a)
       /\ vector.type = IF binary THEN "VARBINARY" ELSE "VARCHAR"
       /\ (vector.ascii /\ a.offset = 0) => \A v \in ValuesOf(a) : IsAscii(v)
  BY <1>3, <1>8, <1>9, StringsAgree
<1>11. vector.type = rowType
  BY <1>1, <1>2, <1>10
<1> QED
  BY <1>4, <1>10, <1>11, SameSlotsAgree

\* The vector of a slice of decimals of one word has its nulls and values,
\* even if they are cast to int64_t, as long as they are of that type.
LEMMA DecimalsAgree ==
  ASSUME NEW a, DecimalSlice(a), FitsU64(a), a.offset = 0 \/ NullCount(a) = 0,
         NEW short \in BOOLEAN,
         short => \A v \in ValuesOf(a) : v \in MinOf(Int64) .. MaxOf(Int64),
         NEW t, NEW vector, vector = DecimalToVelox(DecimalFromArrow(a, t), short)
  PROVE  Restores(vector.slots, a) /\ vector.type = DecimalType(t.scale) /\ ~vector.ascii
<1>1. PICK liquid : liquid = DecimalFromArrow(a, t)
  OBVIOUS
<1>2. PICK temp : temp = BulkUnpack(liquid.packed, UInt64.bits)
  OBVIOUS
<1>3. /\ DOMAIN temp = Index(a) /\ liquid.type = t /\ liquid.packed.nulls = NullsFromStart(a)
      /\ \A i \in ValidIn(a) : Number(temp[i]) + liquid.reference = SlotAt(a, i).value
  BY <1>1, <1>2, DecimalsAreUnpacked
<1>4. /\ vector.type = DecimalType(t.scale) /\ ~vector.ascii
      /\ vector.slots = [i \in DOMAIN temp |->
                           [valid |-> ~IsNull(liquid.packed, i),
                            value |-> IF short THEN Native(Number(temp[i]) + liquid.reference, Int64)
                                      ELSE Number(temp[i]) + liquid.reference]]
  BY <1>1, <1>2, <1>3 DEF DecimalToVelox, Vector
<1>5. ByteSlice(a) /\ \A i \in Index(a) : i \in ValidIn(a) <=> SlotAt(a, i).valid
  BY SliceIs DEF DecimalSlice
<1>6. ASSUME NEW i \in Index(a)
      PROVE  /\ vector.slots[i].valid = SlotAt(a, i).valid
             /\ vector.slots[i].valid => vector.slots[i].value = SlotAt(a, i).value
  <2>1. IsNull(liquid.packed, i) <=> i \notin ValidIn(a)
    BY <1>3, <1>5, NullsFromStartAre
  <2>2. vector.slots[i].valid = ~IsNull(liquid.packed, i)
    BY <1>3, <1>4
  <2>3. vector.slots[i].valid \in BOOLEAN /\ SlotAt(a, i).valid \in BOOLEAN
    BY <1>5, <2>2 DEF ByteSlice
  <2>4. vector.slots[i].valid = SlotAt(a, i).valid
    BY <1>5, <2>1, <2>2, <2>3
  <2>5. ASSUME vector.slots[i].valid PROVE vector.slots[i].value = SlotAt(a, i).value
    <3>1. i \in ValidIn(a)
      BY <2>1, <2>2, <2>5
    <3>2. PICK v : v = SlotAt(a, i).value
      OBVIOUS
    <3>3. v \in Int /\ v \in ValuesOf(a) /\ Number(temp[i]) + liquid.reference = v
      BY <1>3, <3>1, <3>2 DEF DecimalSlice, ValuesOf
    <3>4. vector.slots[i].value = IF short THEN Native(v, Int64) ELSE v
      BY <1>3, <1>4, <3>3
    <3>5. ASSUME short PROVE Native(v, Int64) = v
      <4>1. IntegerType(Int64) /\ ValueOf(v, Int64)
        <5>1. v \in MinOf(Int64) .. MaxOf(Int64)
          BY <3>3, <3>5
        <5>2. WordBits \in 1 .. WordBits
          BY SizesAreNumbers
        <5>3. Int64.bits = WordBits
          BY DEF Int64
        <5> QED
          BY <5>1, <5>2, <5>3 DEF IntegerType, ValueOf
      <4>2. v = v + 0 * 2^Int64.bits
        <5>1. 2^Int64.bits \in Nat
          BY SizesAreNumbers, PowersGrow DEF Int64
        <5> QED
          BY <3>3, <5>1
      <4> QED
        BY <4>1, <4>2, NativeRestores
    <3> QED
      BY <3>2, <3>4, <3>5
  <2> QED
    BY <2>4, <2>5
<1>7. DOMAIN vector.slots = Index(a)
  BY <1>3, <1>4
<1> QED
  BY <1>4, <1>6, <1>7 DEF Restores

\* That of other decimals has theirs, if they fit the bytes that are read of
\* an entry.
LEMMA WideDecimalsAgree ==
  ASSUME NEW t, t.id \in Decimals, NEW a, a.offset = 0 \/ NullCount(a) = 0,
         Cardinality(ValuesOf(a)) <= 2^KeyBits, NEW given, Trainable(given),
         NEW short \in BOOLEAN,
         NEW part, part = (IF short THEN WordBytes ELSE 2 * WordBytes), WideSlice(a, part),
         NEW vector, vector = FixedLenToVelox(FixedLenFromDecimal(a, t, given), short)
  PROVE  Restores(vector.slots, a) /\ vector.type = DecimalType(t.scale) /\ ~vector.ascii
<1>1. PICK liquid : liquid = FixedLenFromDecimal(a, t, given)
  OBVIOUS
<1>2. PICK dict, entries : dict = DictionaryOf(a) /\ entries = FixedLenEntries(liquid)
  OBVIOUS
<1>3. part \in 1 .. ValueWidth(t.id)
  BY SizesAreNumbers DEF ValueWidth
<1>4. /\ liquid.type = t /\ liquid.packed = PackKeys(a, dict) /\ Lists(dict, ValuesOf(a))
      /\ [d \in DOMAIN entries |-> NumberIn(entries[d], part)] = dict
  BY <1>1, <1>2, <1>3, WideDecimalsAre
<1>5. vector = Vector(DecimalType(t.scale), Looked(PackKeys(a, dict), dict, 0))
  BY <1>1, <1>2, <1>4 DEF FixedLenToVelox
<1>6. ByteSlice(a)
  BY DEF WideSlice
<1>7. Restores(Looked(PackKeys(a, dict), dict, 0), a)
  BY <1>4, <1>6, LookedRestores
<1> QED
  BY <1>5, <1>7 DEF Vector

\* The bytes of an entry that are read hold every decimal of a column that is
\* short, if it is read as such, and any of its decimals otherwise.
LEMMA PartsSuffice ==
  ASSUME ColumnFits, IsDecimal, NEW a \in ByteSlices, NEW short \in BOOLEAN, Fits(a, short),
         NEW part, part = (IF short THEN WordBytes ELSE 2 * WordBytes)
  PROVE  WideSlice(a, part)
<1>1. DecimalSlice(a) /\ WideSlice(a, ValueWidth("Decimal128"))
  BY DecimalColumns DEF Decimals
<1>2. CASE short
  <2>1. \A i \in ValidIn(a) : SlotAt(a, i).value \in MinOf(Int64) .. MaxOf(Int64)
    BY <1>2 DEF Fits, ValuesOf
  <2>2. PICK h : h = 2^(part * ByteBits - 1)
    OBVIOUS
  <2>3. MinOf(Int64) = -h /\ MaxOf(Int64) = h - 1
    <3>1. Int64.bits = WordBits /\ Int64.signed
      BY DEF Int64
    <3>2. part * ByteBits = WordBits
      <4>1. part = WordBytes
        BY <1>2
      <4> QED
        BY <4>1, SizesAreNumbers
    <3>3. h = 2^(Int64.bits - 1)
      BY <2>2, <3>1, <3>2
    <3> QED
      BY <3>1, <3>3 DEF MinOf, MaxOf
  <2>4. \A i \in ValidIn(a) : SlotAt(a, i).value \in -h .. h - 1
    BY <2>1, <2>3
  <2>5. ByteSlice(a)
    BY <1>1 DEF WideSlice
  <2> QED
    BY <2>2, <2>4, <2>5 DEF WideSlice
<1>3. CASE ~short
  BY <1>1, <1>3 DEF ValueWidth
<1> QED
  BY <1>2, <1>3

\* The rows' type of decimals.
LEMMA RowTypesOfDecimals ==
  ASSUME IsDecimal, NEW t \in ArrowTypes, NEW rowType \in RowTypeOf(t)
  PROVE  rowType = DecimalType(t.scale)
<1>1. t.id \in Decimals /\ t.id \notin StringTypes
  BY TypesOfDecimals
<1>2. t.id \notin Physicals
  <2>1. \A n \in DOMAIN PhysicalTypes : PhysicalTypes[n] \notin Decimals
    <3> TAKE n \in DOMAIN PhysicalTypes
    <3>1. n \in 1 .. 16
      BY DEF PhysicalTypes
    <3> QED
      BY <3>1 DEF PhysicalTypes, Decimals
  <2> QED
    BY <1>1, <2>1 DEF Physicals
<1>3. t.id \notin {"String", "LargeString", "Binary", "LargeBinary"}
  BY <1>1 DEF StringTypes, BinaryTypes
<1> QED
  BY <1>2, <1>3 DEF RowTypeOf

\* The vector of what the store keeps of a column of decimals agrees with it.
LEMMA StoredDecimalsAgree ==
  ASSUME ColumnFits, IsDecimal, NEW t \in ArrowTypes, NEW a \in ByteSlices,
         Sliceable(a), Numberable(a), Trainable(compressor),
         NEW short \in BOOLEAN, Fits(a, short), NEW rowType \in RowTypeOf(t)
  PROVE  StoredVectorAgrees(t, a, short, rowType)
<1>1. /\ t.id \in Decimals /\ t.id \notin StringTypes /\ t.id \notin FloatTypes
      /\ rowType = DecimalType(t.scale)
  BY TypesOfDecimals, RowTypesOfDecimals
<1>2. t.id \notin Timestamps /\ t.id # "Date64"
  <2>1. \A d \in Decimals : d \notin Timestamps /\ d # "Date64"
    BY DEF Decimals, Timestamps
  <2> QED
    BY <1>1, <2>1
<1>3. /\ (a.offset = 0 \/ NullCount(a) = 0) /\ Cardinality(ValuesOf(a)) <= 2^KeyBits
      /\ DecimalSlice(a)
      /\ short => \A v \in ValuesOf(a) : v \in MinOf(Int64) .. MaxOf(Int64)
  BY DecimalColumns DEF Sliceable, Numberable, Fits
<1>4. SUFFICES ASSUME NEW liquid \in TranscodeToLiquidArray(t, a, compressor),
                      NEW vector, vector = ToVelox(liquid, short)
               PROVE  AgreesInVelox(t, vector, rowType, a) /\ ~vector.ascii
  BY <1>2 DEF StoredVectorAgrees
<1>5. Restores(vector.slots, a) /\ vector.type = DecimalType(t.scale) /\ ~vector.ascii
  <2>1. CASE FitsU64(a)
    <3>1. Logical(t, a) = "Decimal"
      BY <1>1, <2>1 DEF Logical
    <3>2. liquid = Wrapped(DecimalFromArrow(a, t), "Decimal", Physical(t, a), t)
      BY <1>4, <3>1 DEF TranscodeToLiquidArray
    <3>3. vector = DecimalToVelox(DecimalFromArrow(a, t), short)
      BY <1>4, <3>2 DEF ToVelox, Wrapped
    <3> QED
      BY <1>3, <2>1, <3>3, DecimalsAgree
  <2>2. CASE ~FitsU64(a)
    <3>1. Logical(t, a) = "FixedLenByteArray"
      BY <1>1, <2>2 DEF Logical
    <3>2. liquid = Wrapped(FixedLenFromDecimal(a, t, compressor), "FixedLenByteArray",
                           Physical(t, a), t)
      BY <1>4, <3>1 DEF TranscodeToLiquidArray
    <3>3. vector = FixedLenToVelox(FixedLenFromDecimal(a, t, compressor), short)
      BY <1>4, <3>2 DEF ToVelox, Wrapped
    <3>4. PICK part : part = IF short THEN WordBytes ELSE 2 * WordBytes
      OBVIOUS
    <3>5. WideSlice(a, part)
      BY <3>4, PartsSuffice
    <3> QED
      BY <1>1, <1>3, <3>3, <3>4, <3>5, WideDecimalsAgree
  <2> QED
    BY <2>1, <2>2
<1>6. vector.type = rowType
  BY <1>1, <1>5
<1> QED
  BY <1>2, <1>5, <1>6, SameSlotsAgree

\* Every column is as a Velox vector what it is as an Arrow array, whichever
\* encoding it is in and whichever compressor it shares, and a vector of
\* strings that is said to be all ASCII is.
THEOREM ColumnsAgreeInVelox == Spec => []VeloxAgrees
<1>1. CompressorFits => (IsString \/ IsDecimal => VeloxAgrees)
  <2> SUFFICES ASSUME CompressorFits, IsString \/ IsDecimal PROVE VeloxAgrees
    OBVIOUS
  <2>1. ColumnFits /\ ~IsInteger /\ Trainable(compressor)
    BY DEF CompressorFits, IsString, IsDecimal, IsInteger
  <2>2. ASSUME NEW t \in ArrowTypes, NEW a \in ByteSlices, NEW short \in BOOLEAN,
               NEW rowType \in RowTypeOf(t),
               Sliceable(a), Numberable(a), Readable(a), Fits(a, short)
        PROVE  StoredVectorAgrees(t, a, short, rowType)
    <3>1. CASE IsString
      BY <2>1, <2>2, <3>1, ReadableIsUsable, StoredStringsAgree
    <3>2. CASE IsDecimal
      BY <2>1, <2>2, <3>2, StoredDecimalsAgree
    <3> QED
      BY <3>1, <3>2
  <2> QED
    BY <2>1, <2>2 DEF VeloxAgrees
<1>2. ColumnFits => IsInteger \/ IsFloat \/ IsString \/ IsDecimal
  BY KindsAre
<1>3. Spec => [](IsInteger \/ IsFloat => VeloxAgrees)
  BY NumbersAgreeInVelox
<1>4. CompressorFits /\ (IsInteger \/ IsFloat => VeloxAgrees) => VeloxAgrees
  BY <1>1, <1>2 DEF CompressorFits
<1> QED
  BY <1>3, <1>4, CompressorStaysFit, PTL DEF Spec

-----------------------------------------------------------------------------
(* The bytes of strings: symbol tables, compressed data and offsets.       *)

\* A byte is the bits of its number.
LEMMA ByteIsFound ==
  ASSUME NEW n \in 0 .. ByteMax, NEW bytes, NEW offset \in Nat, Has(bytes, offset, Field(n, 1))
  PROVE  Number(bytes[offset + 1]) = n
<1>1. bytes[offset + 1] = Field(n, 1)[1] /\ Field(n, 1)[1] = ByteOfNumber(n, 1)
  <2>1. Len(Field(n, 1)) = 1 /\ \A k \in 1 .. 1 : Field(n, 1)[k] = ByteOfNumber(n, k)
    BY PartsAre
  <2> QED
    BY <2>1 DEF Has
<1>2. Bits(n) \in Octets /\ Number(Bits(n)) = n
  BY OctetsAre
<1>3. ByteOfNumber(n, 1) = {b \in 0 .. ByteBits - 1 : (n \div 2^b) % 2 = 1}
  <2>1. ByteBits \in Nat
    BY SizesAreNumbers
  <2>2. \A b \in 0 .. ByteBits - 1 : (1 - 1) * ByteBits + b = b
    BY <2>1
  <2> QED
    BY <2>2 DEF ByteOfNumber
<1>4. ByteBits \in Nat \ {0} /\ ByteBits <= WordBits /\ WordBits \in Nat
  <2>1. /\ ByteBits \in Nat \ {0} /\ WordBytes \in Nat \ {0} /\ WordBits = ByteBits * WordBytes
        /\ WordBits \in Nat
    BY SizesAreNumbers DEF WordBits
  <2>2. \A x, y \in Nat \ {0} : x <= x * y
    OBVIOUS
  <2> QED
    BY <2>1, <2>2
<1>5. Bits(n) = {b \in 0 .. ByteBits - 1 : (n \div 2^b) % 2 = 1}
  <2>1. \A b \in 0 .. ByteBits - 1 : b \in 0 .. WordBits - 1
    BY <1>4
  <2> QED
    BY <1>2, <2>1 DEF Bits, Octets
<1> QED
  BY <1>1, <1>2, <1>3, <1>5

\* A string in a buffer, and where it is found there.
LEMMA StringIsFound ==
  ASSUME NEW s \in Bytes
  PROVE  /\ ToBuffer(s) \in Buffers /\ Len(ToBuffer(s)) = Len(s) /\ Len(s) \in Nat
         /\ FromBuffer(ToBuffer(s)) = s
         /\ \A bytes \in Buffers, offset \in Nat, end \in Nat :
              Has(bytes, offset, ToBuffer(s)) /\ end = offset + Len(s)
                => SubSeq(bytes, offset + 1, end) = ToBuffer(s)
<1>1. PICK b : b = ToBuffer(s)
  OBVIOUS
<1>2. b \in Seq(Octets) /\ FromBuffer(b) = s
  BY <1>1, StringComesBack
<1>3. Len(b) = Len(s) /\ Len(s) \in Nat
  <2>1. Len(s) \in Nat /\ DOMAIN s = 1 .. Len(s)
    <3>1. \A S : s \in Seq(S) => Len(s) \in Nat /\ DOMAIN s = 1 .. Len(s)
      OBVIOUS
    <3> QED
      BY <3>1 DEF Bytes
  <2>2. Len(b) \in Nat /\ DOMAIN b = 1 .. Len(b)
    BY <1>2
  <2>3. DOMAIN b = DOMAIN s
    BY <1>1 DEF ToBuffer
  <2>4. \A m, n \in Nat : 1 .. m = 1 .. n => m = n
    <3> SUFFICES ASSUME NEW m \in Nat, NEW n \in Nat, 1 .. m = 1 .. n PROVE m = n
      OBVIOUS
    <3>1. m \in 1 .. n \/ m = 0
      OBVIOUS
    <3>2. n \in 1 .. m \/ n = 0
      OBVIOUS
    <3>3. n \in 1 .. n \/ n = 0
      OBVIOUS
    <3> QED
      BY <3>1, <3>2
  <2> QED
    BY <2>1, <2>2, <2>3, <2>4
<1>4. b \in Buffers
  <2>1. \A x \in Octets : x \in SUBSET Int
    <3>1. ByteBits \in Nat
      BY SizesAreNumbers
    <3> QED
      BY <3>1 DEF Octets
  <2>2. \A S, T : (\A x \in S : x \in T) /\ b \in Seq(S) => b \in Seq(T)
    OBVIOUS
  <2> QED
    BY <1>2, <2>1, <2>2 DEF Buffers
<1>5. ASSUME NEW bytes \in Buffers, NEW offset \in Nat, NEW end \in Nat,
             Has(bytes, offset, b), end = offset + Len(s)
      PROVE  SubSeq(bytes, offset + 1, end) = b
  BY <1>3, <1>4, <1>5, CutOut DEF Buffers
<1> QED
  BY <1>1, <1>2, <1>3, <1>4, <1>5

\* A table whose symbols are two or three bytes and have codes.
Savable(table) == table.symbols \in Seq(Symbols) /\ Len(table.symbols) <= ByteMax

\* What load_symbol_table makes of it.
Loaded(table) == [symbols |-> table.symbols, built |-> TRUE, phantom |-> <<>>]

\* A symbol is written in eight bytes.
LEMMA SymbolIsPadded ==
  ASSUME NEW g \in Symbols
  PROVE  /\ g \in Bytes /\ Len(g) \in {2, 3}
         /\ Aligned(ToBuffer(g)) \in OfSize(SUBSET Int, 8)
         /\ \A bytes \in Buffers, offset \in Nat :
              Has(bytes, offset, Aligned(ToBuffer(g))) => Has(bytes, offset, ToBuffer(g))
<1>1. g \in Bytes /\ Len(g) \in {2, 3}
  BY DEF Symbols, Bytes
<1>2. PICK b : b = ToBuffer(g)
  OBVIOUS
<1>3. b \in Buffers /\ Len(b) = Len(g)
  BY <1>1, <1>2, StringIsFound
<1>4. Align8(Len(b)) = 8
  <2>1. Align8(2) = 8 /\ Align8(3) = 8
    BY DEF Align8, CeilDiv
  <2> QED
    BY <1>1, <1>3, <2>1
<1>5. /\ Align8(Len(b)) - Len(b) \in Nat
      /\ Aligned(b) = b \o Zeros(Align8(Len(b)) - Len(b))
      /\ Aligned(b) \in Buffers /\ Len(Aligned(b)) = 8
  BY <1>3, <1>4, AlignedIs
<1>6. PICK z : z = Zeros(Align8(Len(b)) - Len(b))
  OBVIOUS
<1>7. z \in Buffers
  BY <1>5, <1>6, PartsAre
<1>8. ASSUME NEW bytes \in Buffers, NEW offset \in Nat, Has(bytes, offset, b \o z)
      PROVE  Has(bytes, offset, b)
  BY <1>3, <1>7, <1>8, HasParts
<1> QED
  BY <1>1, <1>2, <1>5, <1>6, <1>8 DEF OfSize, Buffers

\* Where a saved table has its parts.
TableParts(bytes, symbols, n) ==
  /\ Has(bytes, 0, Field(n, 1))
  /\ \A s \in 1 .. n : /\ Has(bytes, s, Field(Len(symbols[s]), 1))
                       /\ 1 + n + 8 * (s - 1) \in Nat
                       /\ Has(bytes, 1 + n + 8 * (s - 1), ToBuffer(symbols[s]))

\* In the bytes of a symbol table, each part stands where the ones before it end.
LEMMA TableIsSaved ==
  ASSUME NEW table, Savable(table), NEW symbols, symbols = table.symbols,
         NEW n, n = Len(symbols)
  PROVE  /\ SaveSymbolTable(table) \in Buffers
         /\ Len(SaveSymbolTable(table)) = 1 + 9 * n
         /\ \A bytes \in Buffers :
              Has(bytes, 0, SaveSymbolTable(table)) => TableParts(bytes, symbols, n)
<1> DEFINE lengths == [s \in 1 .. n |-> Len(symbols[s])]
           seqs == [s \in 1 .. n |-> Aligned(ToBuffer(symbols[s]))]
           a == Field(n, 1)
           b == FieldsOf(lengths, 1)
           c == Seqs!FlattenSeq(seqs)
<1>1. n \in Nat /\ DOMAIN symbols = 1 .. n /\ \A s \in 1 .. n : symbols[s] \in Symbols
  BY DEF Savable
<1>2. SaveSymbolTable(table) = (a \o b) \o c
  BY <1>1 DEF SaveSymbolTable
<1>3. a \in Buffers /\ Len(a) = 1
  BY PartsAre
<1>4. /\ b \in Buffers /\ Len(b) = n
      /\ \A bytes \in Buffers : Has(bytes, 1, b) =>
           \A s \in 1 .. n : Has(bytes, s, Field(Len(symbols[s]), 1))
  <2>1. DOMAIN lengths = 1 .. n /\ \A s \in 1 .. n : lengths[s] = Len(symbols[s])
    OBVIOUS
  <2> HIDE DEF lengths
  <2>2. /\ b \in Buffers /\ Len(b) = 1 * n
        /\ \A bytes \in Buffers, offset \in Nat : Has(bytes, offset, b) =>
             \A s \in 1 .. n : Has(bytes, offset + 1 * (s - 1), Field(lengths[s], 1))
    <3>1. 1 \in Nat \ {0}
      OBVIOUS
    <3> QED
      BY <1>1, <2>1, <3>1, FieldsAre, Zenon
  <2> HIDE DEF b
  <2>3. ASSUME NEW bytes \in Buffers, Has(bytes, 1, b), NEW s \in 1 .. n
        PROVE  Has(bytes, s, Field(Len(symbols[s]), 1))
    <3>1. Has(bytes, 1 + 1 * (s - 1), Field(lengths[s], 1))
      BY <2>2, <2>3
    <3>2. 1 + 1 * (s - 1) = s
      BY <1>1
    <3> QED
      BY <2>1, <3>1, <3>2
  <2>4. 1 * n = n
    BY <1>1
  <2> QED
    BY <2>2, <2>3, <2>4
<1>5. /\ c \in Buffers /\ Len(c) = 8 * n
      /\ \A bytes \in Buffers : Has(bytes, 1 + n, c) =>
           \A s \in 1 .. n : /\ 1 + n + 8 * (s - 1) \in Nat
                             /\ Has(bytes, 1 + n + 8 * (s - 1), ToBuffer(symbols[s]))
  <2>1. \A s \in 1 .. n :
          /\ seqs[s] \in OfSize(SUBSET Int, 8)
          /\ \A bytes \in Buffers, offset \in Nat :
               Has(bytes, offset, seqs[s]) => Has(bytes, offset, ToBuffer(symbols[s]))
    BY <1>1, SymbolIsPadded
  <2>2. seqs = [s \in 1 .. n |-> seqs[s]]
    OBVIOUS
  <2> HIDE DEF seqs
  <2>3. seqs \in [1 .. n -> OfSize(SUBSET Int, 8)]
    BY <2>1, <2>2
  <2>4. /\ c \in Buffers /\ Len(c) = 8 * n
        /\ \A bytes \in Buffers, offset \in Nat : Has(bytes, offset, c) =>
             \A s \in 1 .. n : /\ offset + 8 * (s - 1) \in Nat
                               /\ Has(bytes, offset + 8 * (s - 1), seqs[s])
    <3>1. 8 \in Nat \ {0}
      OBVIOUS
    <3> QED
      BY <1>1, <2>3, <3>1, EvenParts, Zenon
  <2> HIDE DEF c
  <2>5. 1 + n \in Nat
    BY <1>1
  <2> QED
    BY <2>1, <2>4, <2>5
<1> HIDE DEF a, b, c
<1>6. a \o b \in Buffers /\ Len(a \o b) = 1 + n
  BY <1>3, <1>4, Appended
<1>7. (a \o b) \o c \in Buffers /\ Len((a \o b) \o c) = 1 + 9 * n
  <2>1. (a \o b) \o c \in Buffers /\ Len((a \o b) \o c) = (1 + n) + 8 * n
    BY <1>5, <1>6, Appended
  <2>2. (1 + n) + 8 * n = 1 + 9 * n
    BY <1>1
  <2> QED
    BY <2>1, <2>2
<1>8. ASSUME NEW bytes \in Buffers, Has(bytes, 0, (a \o b) \o c)
      PROVE  TableParts(bytes, symbols, n)
  <2>1. Has(bytes, 0, a \o b) /\ Has(bytes, 0 + Len(a \o b), c)
    BY <1>5, <1>6, <1>8, HasParts
  <2>2. Has(bytes, 0, a) /\ Has(bytes, 0 + Len(a), b)
    BY <1>3, <1>4, <2>1, HasParts
  <2>3. 0 + Len(a) = 1 /\ 0 + Len(a \o b) = 1 + n
    BY <1>1, <1>3, <1>6
  <2>4. Has(bytes, 1, b) /\ Has(bytes, 1 + n, c)
    BY <2>1, <2>2, <2>3
  <2> QED
    BY <1>4, <1>5, <2>2, <2>4 DEF TableParts, a
<1> QED
  BY <1>2, <1>7, <1>8

\* It is loaded from there, whatever follows it.
LEMMA TableIsLoaded ==
  ASSUME NEW table, Savable(table), NEW bytes \in Buffers, Has(bytes, 0, SaveSymbolTable(table))
  PROVE  LoadSymbolTable(bytes) = {Loaded(table)}
<1> DEFINE symbols == table.symbols
           n == Len(symbols)
           length(s) == Number(bytes[1 + s])
           symbol(count, s) == SubSeq(bytes, 1 + count + 8 * (s - 1) + 1,
                                      1 + count + 8 * (s - 1) + length(s))
<1>1. n \in Nat /\ n <= ByteMax /\ DOMAIN symbols = 1 .. n
      /\ \A s \in 1 .. n : symbols[s] \in Symbols
  BY DEF Savable
<1>2. ByteMax \in Nat /\ ByteMax >= 3
  <2>1. ByteBits \in Nat /\ ByteBits >= 2
    BY SizesAreNumbers, FormatAssumption
  <2>2. 2^2 <= 2^ByteBits /\ 2^ByteBits \in Nat
    <3>1. 2 \in 0 .. ByteBits
      BY <2>1
    <3> QED
      BY <2>1, <3>1, PowersGrow
  <2>3. 2^2 = 4
    <3>1. 2^0 = 1 /\ 2^(0 + 1) = 2 * 2^0 /\ 2^(1 + 1) = 2 * 2^1
      BY PowerDoubles
    <3> QED
      BY <3>1
  <2> QED
    BY <2>2, <2>3 DEF ByteMax
<1>3. /\ Len(SaveSymbolTable(table)) = 1 + 9 * n
      /\ TableParts(bytes, symbols, n)
  BY TableIsSaved
<1>4. 1 + 9 * n <= Len(bytes) /\ Len(bytes) \in Nat
  BY <1>1, <1>3 DEF Has, Buffers
<1> HIDE DEF n
<1>5. Number(bytes[1]) = n
  <2>1. n \in 0 .. ByteMax
    BY <1>1
  <2>2. Number(bytes[0 + 1]) = n
    BY <1>3, <2>1, ByteIsFound DEF TableParts
  <2> QED
    BY <2>2
<1>6. ASSUME NEW s \in 1 .. n PROVE FromBuffer(symbol(n, s)) = symbols[s]
  <2>1. PICK g : g = symbols[s]
    OBVIOUS
  <2>2. g \in Bytes /\ Len(g) \in {2, 3}
    BY <1>1, <2>1, SymbolIsPadded
  <2>3. PICK o : o = 1 + n + 8 * (s - 1)
    OBVIOUS
  <2>4. o \in Nat /\ Has(bytes, s, Field(Len(g), 1)) /\ Has(bytes, o, ToBuffer(g))
    BY <1>3, <2>1, <2>3 DEF TableParts
  <2>5. length(s) = Len(g)
    <3>1. Len(g) \in 0 .. ByteMax /\ s \in Nat
      <4>1. 2 \in 0 .. ByteMax /\ 3 \in 0 .. ByteMax
        BY <1>2
      <4>2. s \in Nat
        BY <1>1
      <4> QED
        BY <2>2, <4>1, <4>2
    <3>2. Number(bytes[s + 1]) = Len(g)
      BY <2>4, <3>1, ByteIsFound
    <3>3. s + 1 = 1 + s
      BY <1>1
    <3> QED
      BY <3>2, <3>3
  <2>6. symbol(n, s) = SubSeq(bytes, o + 1, o + Len(g))
    BY <2>3, <2>5
  <2>7. SubSeq(bytes, o + 1, o + Len(g)) = ToBuffer(g) /\ FromBuffer(ToBuffer(g)) = g
    <3>1. o + Len(g) \in Nat
      BY <2>2, <2>4
    <3> QED
      BY <2>2, <2>4, <3>1, StringIsFound
  <2> QED
    BY <2>1, <2>6, <2>7
<1>7. [s \in 1 .. n |-> FromBuffer(symbol(n, s))] = symbols
  <2>1. symbols = [s \in 1 .. n |-> symbols[s]]
    BY <1>1 DEF n, Savable
  <2> HIDE DEF symbols, symbol
  <2> QED
    BY <1>6, <2>1
<1>8. bytes # <<>> /\ ~(SymbolTableSize(n) > Len(bytes))
  BY <1>1, <1>4 DEF SymbolTableSize
<1>9. LoadSymbolTable(bytes)
        = {[symbols |-> [s \in 1 .. n |-> FromBuffer(symbol(n, s))], built |-> TRUE, phantom |-> <<>>]}
  BY <1>5, <1>8 DEF LoadSymbolTable
<1> QED
  BY <1>7, <1>9 DEF Loaded

\* A table that train made can be saved.
LEMMA TrainedIsSavable ==
  ASSUME NEW data \in Bytes, NEW table, table = Train(data)
  PROVE  /\ Savable(table) /\ Learned(table) /\ ReadsLike(Loaded(table), table)
<1>1. Learned(table) /\ table.symbols \in Seq(Symbols)
  BY TrainedTables
<1>2. TableOK(table) /\ Len(table.symbols) <= Escape
  BY <1>1 DEF Learned, TableOK
<1>3. Savable(table)
  BY <1>1, <1>2, ByteMaxIs DEF Savable
<1>4. TableOK(Loaded(table)) /\ Loaded(table).symbols = table.symbols
  BY <1>2 DEF Loaded, TableOK
<1> QED
  BY <1>1, <1>3, <1>4 DEF ReadsLike

\* One byte more.
LEMMA ByteIsAppended ==
  ASSUME NEW s \in Bytes, NEW n \in 0 .. ByteMax
  PROVE  s \o <<n>> \in Bytes
<1>1. \A S : s \in Seq(S) /\ n \in S => s \o <<n>> \in Seq(S)
  <2> TAKE S
  <2> HAVE s \in Seq(S) /\ n \in S
  <2>1. <<n>> \in Seq(S)
    OBVIOUS
  <2> QED
    BY <2>1, SequenceParts
<1> QED
  BY <1>1 DEF Bytes

\* The codes of bytes are bytes.
LEMMA CodesAreBytes ==
  ASSUME NEW table, TableOK(table), NEW input \in Bytes, Safe(table, input)
  PROVE  Compress(table, input) \in Bytes
<1>1. input \in Seq(Nat)
  BY BytesAreNumbers
<1>2. PICK n : n = Len(input)
  OBVIOUS
<1>3. PICK state \in [0 .. n -> Coders] :
        Encodes(state, table, input) /\ Compress(table, input) = state[n].codes
  BY <1>1, <1>2, CompressSteps
<1>4. n \in Nat /\ ByteMax \in Nat /\ Escape = ByteMax
  BY <1>1, <1>2, ByteMaxIs
<1>5. state[0].codes \in Bytes
  <2>1. state[0].codes = <<>>
    BY <1>3 DEF Encodes, Begin
  <2> QED
    BY <2>1 DEF Bytes
<1>6. ASSUME NEW k \in 1 .. n, state[k - 1].codes \in Bytes PROVE state[k].codes \in Bytes
  <2>1. PICK before, after : before = state[k - 1] /\ after = state[k]
    OBVIOUS
  <2>2. before \in Coders /\ after = Encoded(table, input, k, before) /\ before.codes \in Bytes
    <3>1. k - 1 \in 0 .. n
      BY <1>4
    <3>2. state[k - 1] \in Coders
      BY <3>1
    <3> QED
      BY <1>2, <1>3, <1>6, <2>1, <3>2 DEF Encodes
  <2>3. Adds(table, input, k, before, after)
    BY <1>1, <1>2, <2>2, EncodedIs
  <2>4. CASE after = before
    BY <2>1, <2>2, <2>4
  <2>5. ASSUME NEW m \in Nat, m < Len(table.symbols), after.codes = before.codes \o <<m>>
        PROVE  state[k].codes \in Bytes
    <3>1. table.symbols \in Seq(Seq(Nat)) /\ Len(table.symbols) <= ByteMax
      BY <1>4 DEF TableOK
    <3>2. Len(table.symbols) \in Nat
      BY <3>1
    <3>3. m \in 0 .. ByteMax
      BY <1>4, <2>5, <3>1, <3>2
    <3> QED
      BY <2>1, <2>2, <2>5, <3>3, ByteIsAppended
  <2>6. CASE after.codes = before.codes \o <<Escape, input[k]>>
    <3>1. Escape \in 0 .. ByteMax
      BY <1>4
    <3>2. input[k] \in 0 .. ByteMax
      <4>1. \A S : input \in Seq(S) => input[k] \in S
        BY <1>2
      <4> QED
        BY <4>1 DEF Bytes
    <3>3. PICK x, y, b : x = Escape /\ y = input[k] /\ b = before.codes
      OBVIOUS
    <3>4. (b \o <<x>>) \o <<y>> \in Bytes
      <4>1. b \o <<x>> \in Bytes
        BY <2>2, <3>1, <3>3, ByteIsAppended
      <4> QED
        BY <3>2, <3>3, <4>1, ByteIsAppended
    <3>5. (b \o <<x>>) \o <<y>> = b \o <<x, y>>
      <4>1. b \in Seq(Nat) /\ x \in Nat /\ y \in Nat /\ Len(b) \in Nat
        BY <1>4, <2>2, <3>1, <3>2, <3>3, BytesAreNumbers
      <4>2. PICK c, w : c = b \o <<x>> /\ w = <<x, y>>
        OBVIOUS
      <4>3. w \in Seq(Nat) /\ Len(w) = 2 /\ w[1] = x /\ w[2] = y
        BY <4>1, <4>2
      <4>4. /\ b \o w \in Seq(Nat) /\ Len(b \o w) = Len(b) + 2
            /\ \A j \in 1 .. Len(b) : (b \o w)[j] = b[j]
            /\ (b \o w)[Len(b) + 1] = x /\ (b \o w)[Len(b) + 2] = y
        BY <4>1, <4>3, SequenceParts, JoinedTwo
      <4>5. /\ c \in Seq(Nat) /\ Len(c) = Len(b) + 1 /\ c[Len(b) + 1] = x
            /\ \A j \in 1 .. Len(b) : c[j] = b[j]
        BY <4>1, <4>2
      <4>6. /\ c \o <<y>> \in Seq(Nat) /\ Len(c \o <<y>>) = Len(c) + 1
            /\ (c \o <<y>>)[Len(c) + 1] = y
            /\ \A j \in 1 .. Len(c) : (c \o <<y>>)[j] = c[j]
        BY <4>1, <4>5
      <4>7. PICK s, t : s = c \o <<y>> /\ t = b \o w
        OBVIOUS
      <4>8. /\ s \in Seq(Nat) /\ t \in Seq(Nat) /\ Len(s) = Len(b) + 2 /\ Len(t) = Len(b) + 2
            /\ \A j \in 1 .. Len(b) : s[j] = b[j] /\ t[j] = b[j]
            /\ s[Len(b) + 1] = x /\ t[Len(b) + 1] = x /\ s[Len(b) + 2] = y /\ t[Len(b) + 2] = y
        BY <4>1, <4>4, <4>5, <4>6, <4>7
      <4>9. \A j \in 1 .. Len(b) + 2 : s[j] = t[j]
        <5> TAKE j \in 1 .. Len(b) + 2
        <5>1. j \in 1 .. Len(b) \/ j = Len(b) + 1 \/ j = Len(b) + 2
          BY <4>1
        <5> QED
          BY <4>8, <5>1
      <4>10. s = t
        BY <4>8, <4>9, SameSequence
      <4> QED
        BY <4>2, <4>7, <4>10
    <3>6. b \o <<x, y>> \in Bytes
      BY <3>4, <3>5
    <3>7. after.codes = b \o <<x, y>>
      BY <2>6, <3>3, Zenon
    <3> QED
      BY <2>1, <3>6, <3>7
  <2> QED
    BY <2>3, <2>4, <2>5, <2>6 DEF Adds
<1> DEFINE bad == {k \in Nat : k \in 0 .. n /\ state[k].codes \notin Bytes}
<1>7. ASSUME bad # {} PROVE FALSE
  <2>1. PICK k \in bad : \A m \in bad : k <= m
    BY <1>7, LeastElement
  <2>2. k \in Nat /\ k \in 0 .. n /\ state[k].codes \notin Bytes
    BY <2>1
  <2>3. k # 0
    BY <1>5, <2>2
  <2>4. k - 1 \in Nat /\ k - 1 < k /\ k - 1 \in 0 .. n /\ k \in 1 .. n
    BY <1>4, <2>2, <2>3
  <2>5. k - 1 \notin bad
    <3> HIDE DEF bad
    <3> QED
      BY <2>1, <2>2, <2>4
  <2>6. state[k - 1].codes \in Bytes
    BY <2>4, <2>5
  <2> QED
    BY <1>6, <2>2, <2>4, <2>6
<1>8. state[n].codes \in Bytes
  <2>1. n \in Nat /\ n \in 0 .. n
    BY <1>4
  <2> QED
    BY <1>7, <2>1
<1> QED
  BY <1>3, <1>8

\* So are those of strings compressed one by one.
LEMMA DataAreBytes ==
  ASSUME NEW table, TableOK(table), NEW strings \in Seq(Bytes),
         \A d \in 1 .. Len(strings) : Safe(table, strings[d])
  PROVE  CompressEach(table, strings).data \in Bytes
<1> DEFINE codes == [d \in DOMAIN strings |-> Compress(table, strings[d])]
<1>1. DOMAIN strings = 1 .. Len(strings) /\ Len(strings) \in Nat
  OBVIOUS
<1>2. \A d \in 1 .. Len(strings) : Compress(table, strings[d]) \in Bytes
  BY CodesAreBytes
<1>3. codes \in Seq(Bytes)
  BY <1>1, <1>2
<1>4. CompressEach(table, strings).data = Seqs!FlattenSeq(codes)
  BY DEF CompressEach
<1> HIDE DEF codes
<1> QED
  BY <1>3, <1>4, FlattenedIsSeq DEF Bytes

\* What fits the fields of a section: the length of the strings, in eight
\* bytes, and that of their codes, in four.
SectionFits(uncompressed, data) ==
  /\ uncompressed \in Nat /\ uncompressed < 2^(8 * ByteBits)
  /\ data \in Bytes /\ Len(data) < 2^(4 * ByteBits)

\* The parts of a section: the table, the two lengths, the codes.
SectionParts(bytes, table, at, uncompressed, data) ==
  /\ Has(bytes, 0, SaveSymbolTable(table))
  /\ Has(bytes, at, Field(uncompressed, 8))
  /\ Has(bytes, at + 8, Field(Len(data), 4))
  /\ Has(bytes, at + 12, ToBuffer(data))

\* They are where their lengths say.
LEMMA SectionIs ==
  ASSUME NEW table, Savable(table), NEW uncompressed, NEW data \in Bytes,
         NEW at, at = SymbolTableSize(Len(table.symbols))
  PROVE  /\ at \in Nat /\ Len(data) \in Nat
         /\ FsstSection(table, uncompressed, data) \in Buffers
         /\ Len(FsstSection(table, uncompressed, data)) = at + 12 + Len(data)
         /\ \A bytes \in Buffers : Has(bytes, 0, FsstSection(table, uncompressed, data)) =>
              SectionParts(bytes, table, at, uncompressed, data)
<1>1. PICK p, q, r, d :
        /\ p = SaveSymbolTable(table) /\ q = Field(uncompressed, 8)
        /\ r = Field(Len(data), 4) /\ d = ToBuffer(data)
  OBVIOUS
<1>2. FsstSection(table, uncompressed, data) = ((p \o q) \o r) \o d
  BY <1>1 DEF FsstSection
<1>3. at \in Nat /\ p \in Buffers /\ Len(p) = at
  <2>1. Len(table.symbols) \in Nat
    BY DEF Savable
  <2>2. p \in Buffers /\ Len(p) = 1 + 9 * Len(table.symbols)
    BY <1>1, TableIsSaved
  <2> QED
    BY <2>1, <2>2 DEF SymbolTableSize
<1>4. q \in Buffers /\ Len(q) = 8 /\ r \in Buffers /\ Len(r) = 4
  <2>1. 8 \in Nat /\ 4 \in Nat
    OBVIOUS
  <2> QED
    BY <1>1, <2>1, PartsAre
<1>5. d \in Buffers /\ Len(d) = Len(data) /\ Len(data) \in Nat
  BY <1>1, StringIsFound
<1>6. p \o q \in Buffers /\ Len(p \o q) = at + 8
  BY <1>3, <1>4, Appended
<1>7. (p \o q) \o r \in Buffers /\ Len((p \o q) \o r) = at + 12
  <2>1. (p \o q) \o r \in Buffers /\ Len((p \o q) \o r) = at + 8 + 4
    BY <1>4, <1>6, Appended
  <2> QED
    BY <1>3, <2>1
<1>8. /\ ((p \o q) \o r) \o d \in Buffers
      /\ Len(((p \o q) \o r) \o d) = at + 12 + Len(data)
  BY <1>5, <1>7, Appended
<1>9. ASSUME NEW bytes \in Buffers, Has(bytes, 0, ((p \o q) \o r) \o d)
      PROVE  Has(bytes, 0, p) /\ Has(bytes, at, q) /\ Has(bytes, at + 8, r) /\ Has(bytes, at + 12, d)
  <2>1. Has(bytes, 0, (p \o q) \o r) /\ Has(bytes, 0 + Len((p \o q) \o r), d)
    BY <1>5, <1>7, <1>9, HasParts
  <2>2. Has(bytes, 0, p \o q) /\ Has(bytes, 0 + Len(p \o q), r)
    BY <1>4, <1>6, <2>1, HasParts
  <2>3. Has(bytes, 0, p) /\ Has(bytes, 0 + Len(p), q)
    BY <1>3, <1>4, <2>2, HasParts
  <2>4. 0 + Len((p \o q) \o r) = at + 12 /\ 0 + Len(p \o q) = at + 8 /\ 0 + Len(p) = at
    BY <1>3, <1>6, <1>7
  <2> QED
    BY <2>1, <2>2, <2>3, <2>4
<1> QED
  BY <1>1, <1>2, <1>3, <1>5, <1>8, <1>9 DEF SectionParts

\* A section is read as what was written, and what is behind it is left.
LEMMA SectionIsRead ==
  ASSUME NEW table, Savable(table), NEW uncompressed, NEW data, SectionFits(uncompressed, data),
         NEW rest \in Buffers, NEW section, section = FsstSection(table, uncompressed, data)
  PROVE  ReadFsstSection(section \o rest)
           = {[table |-> Loaded(table), uncompressed |-> uncompressed, data |-> data, rest |-> rest]}
<1>1. PICK at : at = SymbolTableSize(Len(table.symbols))
  OBVIOUS
<1>2. PICK size, bytes : size = Len(data) /\ bytes = section \o rest
  OBVIOUS
<1>3. /\ uncompressed \in Nat /\ uncompressed < 2^(8 * ByteBits)
      /\ data \in Bytes /\ size < 2^(4 * ByteBits)
  BY <1>2 DEF SectionFits
<1>4. /\ at \in Nat /\ size \in Nat /\ section \in Buffers /\ Len(section) = at + 12 + size
      /\ \A b \in Buffers : Has(b, 0, section) => SectionParts(b, table, at, uncompressed, data)
  BY <1>1, <1>2, <1>3, SectionIs
<1>5. bytes \in Buffers /\ Len(bytes) \in Nat /\ at + 12 + size <= Len(bytes)
  <2>1. bytes \in Buffers /\ Len(bytes) = Len(section) + Len(rest) /\ Len(rest) \in Nat
    BY <1>2, <1>4, Appended
  <2> QED
    BY <1>4, <2>1
<1>6. SectionParts(bytes, table, at, uncompressed, data)
  <2>1. Has(bytes, 0, bytes)
    BY <1>5, HasItself
  <2>2. Has(bytes, 0, section)
    BY <1>2, <1>4, <1>5, <2>1, HasParts
  <2> QED
    BY <1>4, <1>5, <2>2
<1>7. FieldAt(bytes, at, 8) = uncompressed
  BY <1>3, <1>6, NumberIsFound DEF SectionParts
<1>8. FieldAt(bytes, at + 8, 4) = size
  BY <1>2, <1>3, <1>4, <1>6, NumberIsFound DEF SectionParts
<1>9. FromBuffer(SubSeq(bytes, at + 13, at + 12 + size)) = data
  <2>1. PICK o, end : o = at + 12 /\ end = at + 12 + size
    OBVIOUS
  <2>2. o \in Nat /\ end \in Nat /\ o + 1 = at + 13 /\ end = o + size
    BY <1>4, <2>1
  <2>3. Has(bytes, o, ToBuffer(data))
    BY <1>6, <2>1 DEF SectionParts
  <2>4. SubSeq(bytes, o + 1, end) = ToBuffer(data) /\ FromBuffer(ToBuffer(data)) = data
    <3>1. /\ FromBuffer(ToBuffer(data)) = data
          /\ \A b \in Buffers, f \in Nat, e \in Nat :
               Has(b, f, ToBuffer(data)) /\ e = f + Len(data) => SubSeq(b, f + 1, e) = ToBuffer(data)
      BY <1>3, StringIsFound, Zenon
    <3>2. end = o + Len(data)
      BY <1>2, <2>2
    <3> QED
      BY <1>5, <2>2, <2>3, <3>1, <3>2
  <2> QED
    BY <2>1, <2>2, <2>4
<1>10. From(bytes, at + 12 + size) = rest
  BY <1>2, <1>4, FromIs
<1>11. LoadSymbolTable(bytes) = {Loaded(table)}
  BY <1>5, <1>6, TableIsLoaded DEF SectionParts
<1>12. Loaded(table).symbols = table.symbols
  BY DEF Loaded
<1>13. ~(at + 12 > Len(bytes) \/ at + 12 + size > Len(bytes))
  BY <1>4, <1>5
<1>14. ReadFsstSection(bytes)
         = UNION {{[table |-> t, uncompressed |-> uncompressed, data |-> data, rest |-> rest]} :
                    t \in {Loaded(table)}}
  BY <1>1, <1>7, <1>8, <1>9, <1>10, <1>11, <1>12, <1>13 DEF ReadFsstSection
<1> QED
  BY <1>2, <1>14

\* Offsets whose line and residuals fit four bytes.
CompactFits(compact) ==
  /\ InBytes(compact.line.slope, 4) /\ InBytes(compact.line.intercept, 4)
  /\ \A j \in DOMAIN compact.residuals : InBytes(compact.residuals[j], 4)

\* Residuals fit the width that is chosen for them.
LEMMA WidthIs ==
  ASSUME NEW residuals \in Seq(Int), \A j \in DOMAIN residuals : InBytes(residuals[j], 4),
         NEW w, w = WidthFor(residuals)
  PROVE  w \in {1, 2, 4} /\ \A j \in DOMAIN residuals : InBytes(residuals[j], w)
<1>1. \A j \in DOMAIN residuals : residuals[j] \in Int
  OBVIOUS
<1>2. ASSUME NEW s \in {1, 2},
             \A j \in DOMAIN residuals :
               residuals[j] \in -(2^(s * ByteBits - 1)) .. 2^(s * ByteBits - 1) - 1
      PROVE  \A j \in DOMAIN residuals : InBytes(residuals[j], s)
  <2>1. PICK h : h = 2^(s * ByteBits - 1)
    OBVIOUS
  <2>2. h \in Nat
    <3>1. ByteBits \in Nat \ {0}
      BY SizesAreNumbers
    <3>2. s * ByteBits - 1 \in Nat
      BY <3>1
    <3> QED
      BY <2>1, <3>2, PowersGrow
  <2>3. ASSUME NEW j \in DOMAIN residuals
        PROVE  residuals[j] \in Int /\ -h <= residuals[j] /\ residuals[j] < h
    <3>1. residuals[j] \in -h .. h - 1
      BY <1>2, <2>1
    <3> QED
      BY <1>1, <2>2, <3>1
  <2> QED
    BY <2>1, <2>3 DEF InBytes
<1> DEFINE fits(s) == \A j \in DOMAIN residuals :
                        residuals[j] \in -(2^(s * ByteBits - 1)) .. 2^(s * ByteBits - 1) - 1
<1>3. w = IF fits(1) THEN 1 ELSE IF fits(2) THEN 2 ELSE 4
  BY DEF WidthFor
<1>4. CASE fits(1)
  BY <1>2, <1>3, <1>4
<1>5. CASE ~fits(1) /\ fits(2)
  BY <1>2, <1>3, <1>5
<1>6. CASE ~fits(1) /\ ~fits(2)
  BY <1>3, <1>6
<1> QED
  BY <1>4, <1>5, <1>6

\* Where compact offsets have their parts.
CompactParts(bytes, compact, n) ==
  /\ Has(bytes, 0, Field(compact.line.slope, 4)) /\ Has(bytes, 4, Field(compact.line.intercept, 4))
  /\ Has(bytes, 8, Field(compact.width, 1))
  /\ \A j \in 1 .. n : Has(bytes, 9 + compact.width * (j - 1), Field(compact.residuals[j], compact.width))

\* In the bytes of compact offsets, they are where their widths say.
LEMMA CompactIs ==
  ASSUME NEW compact, NEW n \in Nat, DOMAIN compact.residuals = 1 .. n,
         compact.width \in Nat \ {0}, NEW bytes, bytes = CompactToBytes(compact)
  PROVE  /\ bytes \in Buffers /\ Len(bytes) = 9 + compact.width * n
         /\ CompactParts(bytes, compact, n)
<1>1. PICK p, q, r, d :
        /\ p = Field(compact.line.slope, 4) /\ q = Field(compact.line.intercept, 4)
        /\ r = Field(compact.width, 1) /\ d = FieldsOf(compact.residuals, compact.width)
  OBVIOUS
<1>2. bytes = ((p \o q) \o r) \o d
  BY <1>1 DEF CompactToBytes
<1>3. /\ p \in Buffers /\ Len(p) = 4 /\ q \in Buffers /\ Len(q) = 4
      /\ r \in Buffers /\ Len(r) = 1
  <2>1. 4 \in Nat /\ 1 \in Nat
    OBVIOUS
  <2> QED
    BY <1>1, <2>1, PartsAre
<1>4. /\ d \in Buffers /\ Len(d) = compact.width * n /\ compact.width * n \in Nat
      /\ \A b \in Buffers, offset \in Nat : Has(b, offset, d) =>
           \A j \in 1 .. n :
             Has(b, offset + compact.width * (j - 1), Field(compact.residuals[j], compact.width))
  BY <1>1, FieldsAre
<1>5. p \o q \in Buffers /\ Len(p \o q) = 8
  <2>1. p \o q \in Buffers /\ Len(p \o q) = Len(p) + Len(q)
    BY <1>3, Appended
  <2> QED
    BY <1>3, <2>1
<1>6. (p \o q) \o r \in Buffers /\ Len((p \o q) \o r) = 9
  <2>1. (p \o q) \o r \in Buffers /\ Len((p \o q) \o r) = Len(p \o q) + Len(r)
    BY <1>3, <1>5, Appended
  <2> QED
    BY <1>3, <1>5, <2>1
<1>7. bytes \in Buffers /\ Len(bytes) = 9 + compact.width * n
  <2>1. bytes \in Buffers /\ Len(bytes) = Len((p \o q) \o r) + Len(d)
    BY <1>2, <1>4, <1>6, Appended
  <2> QED
    BY <1>4, <1>6, <2>1
<1>8. Has(bytes, 0, p) /\ Has(bytes, 4, q) /\ Has(bytes, 8, r) /\ Has(bytes, 9, d)
  <2>1. Has(bytes, 0, ((p \o q) \o r) \o d)
    BY <1>2, <1>7, HasItself
  <2>2. Has(bytes, 0, (p \o q) \o r) /\ Has(bytes, 0 + Len((p \o q) \o r), d)
    BY <1>4, <1>6, <1>7, <2>1, HasParts
  <2>3. Has(bytes, 0, p \o q) /\ Has(bytes, 0 + Len(p \o q), r)
    BY <1>3, <1>5, <1>7, <2>2, HasParts
  <2>4. Has(bytes, 0, p) /\ Has(bytes, 0 + Len(p), q)
    BY <1>3, <1>7, <2>3, HasParts
  <2>5. 0 + Len((p \o q) \o r) = 9 /\ 0 + Len(p \o q) = 8 /\ 0 + Len(p) = 4
    BY <1>3, <1>5, <1>6
  <2> QED
    BY <2>2, <2>3, <2>4, <2>5
<1>9. \A j \in 1 .. n :
        Has(bytes, 9 + compact.width * (j - 1), Field(compact.residuals[j], compact.width))
  <2>1. 9 \in Nat
    OBVIOUS
  <2> QED
    BY <1>4, <1>7, <1>8, <2>1
<1> QED
  BY <1>1, <1>7, <1>8, <1>9 DEF CompactParts

\* A width is told by its byte.
LEMMA WidthIsRead ==
  ASSUME NEW w \in {1, 2, 4}, NEW size, size = w % 2^(1 * ByteBits)
  PROVE  (IF size \in {1, 2} THEN size ELSE 4) = w
<1>1. PICK p : p = 2^(1 * ByteBits)
  OBVIOUS
<1>2. p \in Nat /\ p >= 4
  <2>1. ByteBits \in Nat /\ ByteBits >= 2 /\ 1 * ByteBits = ByteBits
    BY SizesAreNumbers, FormatAssumption
  <2>2. 2^2 <= 2^ByteBits /\ 2^ByteBits \in Nat
    <3>1. 2 \in 0 .. ByteBits
      BY <2>1
    <3> QED
      BY <2>1, <3>1, PowersGrow
  <2>3. 2^2 = 4
    <3>1. 2^0 = 1 /\ 2^(0 + 1) = 2 * 2^0 /\ 2^(1 + 1) = 2 * 2^1
      BY PowerDoubles
    <3> QED
      BY <3>1
  <2> QED
    BY <1>1, <2>1, <2>2, <2>3
<1>3. 1 % p = 1 /\ 2 % p = 2
  BY <1>2
<1>4. 4 % p \notin {1, 2}
  BY <1>2
<1> QED
  BY <1>1, <1>3, <1>4

\* Compact offsets are read from their bytes: at least the offsets are.
LEMMA CompactIsRead ==
  ASSUME NEW compact, compact.residuals \in Seq(Int), CompactFits(compact),
         compact.width = WidthFor(compact.residuals), NEW bytes, bytes = CompactToBytes(compact)
  PROVE  /\ bytes \in Buffers
         /\ \E read : /\ CompactFromBytes(bytes) = {read}
                      /\ OffsetsOf(read) = OffsetsOf(compact) /\ read.residuals = compact.residuals
<1>1. PICK w, n, res : w = compact.width /\ res = compact.residuals /\ n = Len(res)
  OBVIOUS
<1>2. res \in Seq(Int) /\ n \in Nat /\ DOMAIN res = 1 .. n
  BY <1>1
<1>3. w \in {1, 2, 4} /\ \A j \in 1 .. n : InBytes(res[j], w)
  BY <1>1, <1>2, WidthIs DEF CompactFits
<1>4. bytes \in Buffers /\ Len(bytes) = 9 + w * n /\ CompactParts(bytes, compact, n)
  <2>1. compact.width \in Nat \ {0}
    BY <1>1, <1>3
  <2>2. DOMAIN compact.residuals = 1 .. n
    BY <1>1, <1>2
  <2>3. /\ bytes \in Buffers /\ Len(bytes) = 9 + compact.width * n
        /\ CompactParts(bytes, compact, n)
    BY <1>2, <2>1, <2>2, CompactIs
  <2> QED
    BY <1>1, <2>3
<1>5. /\ SignedAt(bytes, 0, 4) = compact.line.slope
      /\ SignedAt(bytes, 4, 4) = compact.line.intercept
  <2>1. 4 \in Nat \ {0}
    OBVIOUS
  <2> QED
    BY <1>4, <2>1, SignedIsFound DEF CompactParts, CompactFits
<1>6. \A j \in 1 .. n : SignedAt(bytes, 9 + (j - 1) * w, w) = res[j]
  <2> TAKE j \in 1 .. n
  <2>1. Has(bytes, 9 + w * (j - 1), Field(res[j], w))
    BY <1>1, <1>4 DEF CompactParts
  <2>2. 9 + w * (j - 1) = 9 + (j - 1) * w
    BY <1>2, <1>3
  <2>3. w \in Nat \ {0} /\ InBytes(res[j], w)
    BY <1>3
  <2> QED
    BY <2>1, <2>2, <2>3, SignedIsFound
<1>7. PICK size : size = FieldAt(bytes, 8, 1)
  OBVIOUS
<1>8. (IF size \in {1, 2} THEN size ELSE 4) = w
  <2>1. Has(bytes, 8, Field(w, 1))
    BY <1>1, <1>4 DEF CompactParts
  <2>2. w \in Int /\ 1 \in Nat
    BY <1>3
  <2>3. size = w % 2^(1 * ByteBits)
    BY <1>7, <2>1, <2>2, FieldIsFound
  <2> QED
    BY <1>3, <2>3, WidthIsRead
<1>9. (Len(bytes) - 9) \div w = n /\ ~(Len(bytes) < 9)
  <2>1. Len(bytes) - 9 = w * n /\ w * n \in Nat
    BY <1>2, <1>3, <1>4
  <2>2. (w * n) \div w = n
    BY <1>2, <1>3
  <2>3. Len(bytes) = 9 + w * n
    BY <1>4
  <2> QED
    BY <2>1, <2>2, <2>3
<1> DEFINE read == [line |-> [slope |-> compact.line.slope, intercept |-> compact.line.intercept],
                    residuals |-> res, width |-> size]
<1>10. [j \in 1 .. n |-> SignedAt(bytes, 9 + (j - 1) * w, w)] = res
  <2>1. res = [j \in 1 .. n |-> res[j]]
    BY <1>2
  <2> QED
    BY <1>6, <2>1
<1>11. CompactFromBytes(bytes) = {read}
  BY <1>5, <1>7, <1>8, <1>9, <1>10 DEF CompactFromBytes
<1>12. /\ read.residuals = res /\ read.line.slope = compact.line.slope
       /\ read.line.intercept = compact.line.intercept
  OBVIOUS
<1> HIDE DEF read
<1>13. OffsetsOf(read) = OffsetsOf(compact)
  BY <1>1, <1>12 DEF OffsetsOf, Predicted
<1> QED
  BY <1>1, <1>4, <1>11, <1>12, <1>13

\* The lengths of sections that have been aligned are summed up.
LEMMA AlignedAreSummed ==
  ASSUME NEW sizes, NEW S, IsFiniteSet(S), NEW w,
         \A m \in S : w[m] = Align8(sizes[m]) /\ w[m] \in Int
  PROVE  MapThenSumSet(LAMBDA m : Align8(sizes[m]), S) = Total(w, S)
<1> DEFINE value(m) == Align8(sizes[m])
           step(g, s) == IF s = {} THEN 0
                         ELSE LET x == CHOOSE y \in s : TRUE IN value(x) + g[s \ {x}]
           wstep(g, s) == IF s = {} THEN 0
                          ELSE LET x == CHOOSE y \in s : TRUE IN w[x] + g[s \ {x}]
           iter == CHOOSE g : g = [s \in SUBSET S |-> step(g, s)]
           total == Totals(w, S)
<1>1. MapThenSumSet(LAMBDA m : Align8(sizes[m]), S) = iter[S]
  BY DEF MapThenSumSet, MapThenFoldSet
<1>2. \A g : \A s \in SUBSET S : step(g, s) = wstep(g, s)
  <2>1. \A x \in S : value(x) = w[x]
    OBVIOUS
  <2> HIDE DEF value
  <2>2. \A s \in SUBSET S : s # {} => (CHOOSE y \in s : TRUE) \in S
    OBVIOUS
  <2> QED
    BY <2>1, <2>2
<1>3. total = [s \in SUBSET S |-> wstep(total, s)]
  <2>1. AddsUp(total, w, S)
    BY TotalsFold
  <2> QED
    BY <2>1 DEF AddsUp
<1> HIDE DEF total, step, wstep
<1>4. iter = [s \in SUBSET S |-> step(iter, s)]
  <2>1. total = [s \in SUBSET S |-> step(total, s)]
    BY <1>2, <1>3
  <2> QED
    BY <2>1
<1> HIDE DEF iter
<1>5. AddsUp(iter, w, S)
  <2>1. iter = [s \in SUBSET S |-> wstep(iter, s)]
    BY <1>2, <1>4
  <2> QED
    BY <2>1 DEF AddsUp, wstep
<1> QED
  BY <1>1, <1>5, AddsUpToTotal

\* Sections, and what they take once they are aligned.
Sections(sections, w) ==
  /\ DOMAIN sections = 1 .. 5 /\ \A k \in 1 .. 5 : sections[k] \in Buffers
  /\ w = [k \in 1 .. 5 |-> Align8(Len(sections[k]))]

\* Where the k-th of them is.
Placed(bytes, sections, w, k) ==
  /\ Total(w, 1 .. k - 1) \in Nat
  /\ Has(bytes, 40 + Total(w, 1 .. k - 1), sections[k])

\* Behind a header of 40 bytes each section is where the ones before it end.
LEMMA WrittenIs ==
  ASSUME NEW header \in Buffers, Len(header) = 40, NEW sections, NEW w, Sections(sections, w),
         NEW bytes, bytes = Written(header, sections)
  PROVE  /\ bytes \in Buffers /\ Len(bytes) >= 40 /\ Len(bytes) \in Nat /\ Has(bytes, 0, header)
         /\ \A k \in 1 .. 5 : Placed(bytes, sections, w, k)
<1>1. /\ DOMAIN sections = 1 .. 5 /\ \A k \in 1 .. 5 : sections[k] \in Buffers
      /\ w = [k \in 1 .. 5 |-> Align8(Len(sections[k]))]
  BY DEF Sections
<1>2. \A k \in 1 .. 5 :
        /\ Align8(Len(sections[k])) - Len(sections[k]) \in Nat
        /\ Aligned(sections[k]) = sections[k] \o Zeros(Align8(Len(sections[k])) - Len(sections[k]))
        /\ Aligned(sections[k]) \in Buffers
        /\ Len(Aligned(sections[k])) = Align8(Len(sections[k]))
  BY <1>1, AlignedIs
<1> DEFINE seqs == [k \in 1 .. 5 |-> Aligned(sections[k])]
           e == [k \in 0 .. 5 |-> Total(w, 1 .. k)]
           row == Seqs!FlattenSeq(seqs)
<1>3. /\ seqs \in [1 .. 5 -> Seq(SUBSET Int)]
      /\ \A k \in 1 .. 5 : seqs[k] = Aligned(sections[k])
  BY <1>2 DEF Buffers
<1>4. Lengths(w, seqs, 5)
  BY <1>1, <1>2, <1>3 DEF Lengths
<1>5. Sums(e, w, 5)
  BY DEF Sums
<1>6. e = [k \in 0 .. 5 |-> e[k]] /\ \A k \in 0 .. 5 : e[k] = Total(w, 1 .. k)
  OBVIOUS
<1>7. bytes = Aligned(header) \o row
  BY <1>1 DEF Written
<1> HIDE DEF seqs, e
<1>8. 5 \in Nat
  OBVIOUS
<1>9. Ends(e, seqs, 5)
  BY <1>3, <1>4, <1>5, <1>8, EndsOfRow
<1>10. e \in [0 .. 5 -> Nat]
  BY <1>6, <1>9 DEF Ends
<1>11. InARow(row, SUBSET Int, seqs, e, 5)
  BY <1>3, <1>8, <1>9, <1>10, FlattenedInARow DEF Ends
<1> HIDE DEF row
<1>12. row \in Buffers
  BY <1>11 DEF InARow, Buffers
<1>13. /\ Aligned(header) \in Buffers /\ Len(Aligned(header)) = 40
       /\ bytes \in Buffers /\ Len(bytes) = 40 + Len(row) /\ Len(row) \in Nat
       /\ Has(bytes, 0, header)
  <2>1. Align8(40) = 40
    BY DEF Align8, CeilDiv
  <2>2. Aligned(header) \in Buffers /\ Len(Aligned(header)) = 40
    BY <2>1, AlignedIs
  <2>3. bytes \in Buffers /\ Len(bytes) = 40 + Len(row) /\ Len(row) \in Nat /\ Has(bytes, 0, header)
    <3>1. /\ Aligned(header) \o row \in Buffers
          /\ Len(Aligned(header) \o row) = Align8(Len(header)) + Len(row)
          /\ Len(row) \in Nat /\ Has(Aligned(header) \o row, 0, header)
      BY <1>12, AlignedThen
    <3> QED
      BY <1>7, <2>1, <3>1
  <2> QED
    BY <2>2, <2>3
<1>14. Has(bytes, 40, row)
  <2>1. Has(bytes, 0, Aligned(header) \o row)
    BY <1>7, <1>13, HasItself
  <2>2. Has(bytes, 0 + Len(Aligned(header)), row)
    BY <1>12, <1>13, <2>1, HasParts
  <2> QED
    BY <1>13, <2>2
<1>15. ASSUME NEW k \in 1 .. 5
       PROVE  /\ Total(w, 1 .. k - 1) \in Nat
              /\ Has(bytes, 40 + Total(w, 1 .. k - 1), sections[k])
  <2>1. PICK a, s, t : a = e[k - 1] /\ s = sections[k] /\ t = seqs[k]
    OBVIOUS
  <2>2. k - 1 \in 0 .. 5 /\ a = Total(w, 1 .. k - 1) /\ a \in Nat
    <3>1. k - 1 \in 0 .. 5
      OBVIOUS
    <3> QED
      BY <1>6, <1>10, <2>1, <3>1
  <2>3. Has(row, a, t) /\ t \in Buffers /\ s \in Buffers
    BY <1>1, <1>2, <1>3, <1>11, <2>1 DEF InARow
  <2>4. Has(bytes, 40 + a, t)
    <3>1. Len(t) \in Nat
      BY <2>3 DEF Buffers
    <3>2. /\ a + Len(t) <= Len(row) /\ \A j \in 1 .. Len(t) : row[a + j] = t[j]
      BY <2>3 DEF Has
    <3>3. \A j \in 1 .. Len(row) : bytes[40 + j] = row[j]
      BY <1>14 DEF Has
    <3>4. \A j \in 1 .. Len(t) : bytes[40 + a + j] = t[j]
      <4> TAKE j \in 1 .. Len(t)
      <4>1. a + j \in 1 .. Len(row) /\ 40 + (a + j) = 40 + a + j
        BY <1>13, <2>2, <3>1, <3>2
      <4> QED
        BY <3>2, <3>3, <4>1
    <3>5. 40 + a + Len(t) <= Len(bytes)
      BY <1>13, <2>2, <3>1, <3>2
    <3> QED
      BY <3>4, <3>5 DEF Has
  <2>5. Has(bytes, 40 + a, s)
    <3>1. PICK z : z = Zeros(Align8(Len(s)) - Len(s))
      OBVIOUS
    <3>2. t = s \o z /\ z \in Buffers
      BY <1>2, <1>3, <2>1, <3>1, PartsAre
    <3>3. 40 + a \in Nat
      BY <2>2
    <3> QED
      BY <1>13, <2>3, <2>4, <3>2, <3>3, HasParts
  <2> QED
    BY <2>1, <2>2, <2>5
<1> QED
  BY <1>13, <1>15 DEF Placed

\* A section is cut out if the sizes up to its own are known.
LEMMA SectionIsCut ==
  ASSUME NEW bytes \in Buffers, NEW sections, NEW w, Sections(sections, w),
         NEW k \in 1 .. 5, Placed(bytes, sections, w, k),
         NEW known, \A m \in 1 .. k : ByteViewSizes(bytes, known)[m] = Len(sections[m])
  PROVE  SectionOf(bytes, known, k) = {sections[k]}
<1>1. PICK sizes, S, o, s :
        /\ sizes = ByteViewSizes(bytes, known) /\ S = 1 .. k - 1
        /\ o = 40 + Total(w, S) /\ s = sections[k]
  OBVIOUS
<1>2. MapThenSumSet(LAMBDA m : Align8(ByteViewSizes(bytes, known)[m]), S) = Total(w, S)
  <2>1. IsFiniteSet(S)
    <3>1. 1 \in Int /\ k - 1 \in Int
      OBVIOUS
    <3> QED
      BY <1>1, <3>1, FS_Interval
  <2>2. \A m \in S : w[m] = Align8(ByteViewSizes(bytes, known)[m]) /\ w[m] \in Int
    <3> TAKE m \in S
    <3>1. m \in 1 .. 5 /\ m \in 1 .. k
      BY <1>1
    <3>2. w[m] = Align8(Len(sections[m])) /\ sections[m] \in Buffers
      BY <3>1 DEF Sections
    <3>3. Align8(Len(sections[m])) \in Nat
      BY <3>2, AlignedIs
    <3> QED
      BY <3>1, <3>2, <3>3
  <2> QED
    BY <2>1, <2>2, AlignedAreSummed
<1>3. SectionOf(bytes, known, k) = SectionAt(bytes, o, Len(s))
  <2>1. ByteViewSizes(bytes, known)[k] = Len(s)
    BY <1>1
  <2> QED
    BY <1>1, <1>2, <2>1 DEF SectionOf
<1>4. s \in Buffers /\ Len(s) \in Nat /\ Len(bytes) \in Nat /\ o \in Nat /\ Has(bytes, o, s)
  <2>1. s \in Buffers
    BY <1>1 DEF Sections
  <2>2. Len(s) \in Nat /\ Len(bytes) \in Nat
    BY <2>1, Appended
  <2>3. Total(w, S) \in Nat /\ Has(bytes, o, s)
    BY <1>1 DEF Placed
  <2>4. o \in Nat
    BY <1>1, <2>3
  <2> QED
    BY <2>1, <2>2, <2>3, <2>4
<1>5. o + Len(s) <= Len(bytes)
  BY <1>4 DEF Has
<1>6. SubSeq(bytes, o + 1, o + Len(s)) = s
  BY <1>4, CutOut DEF Buffers
<1>7. ~(o + Len(s) > Len(bytes))
  BY <1>4, <1>5
<1> QED
  BY <1>1, <1>3, <1>6, <1>7 DEF SectionAt

\* Sections whose sizes fit the header, which leaves out that of the fourth.
HeaderFits(sections) == \A k \in {1, 2, 3, 5} : Len(sections[k]) < 2^(4 * ByteBits)

\* The sizes as they are read, and the flag.
SizesKnown(bytes, sections, known) ==
  /\ ByteViewSizes(bytes, known)[1] = Len(sections[1])
  /\ ByteViewSizes(bytes, known)[2] = Len(sections[2])
  /\ ByteViewSizes(bytes, known)[3] = Len(sections[3])
  /\ ByteViewSizes(bytes, known)[4] = known
  /\ ByteViewSizes(bytes, known)[5] = Len(sections[5])

\* What a buffer that begins with a header tells.
HeaderTells(header, physical, sections, ascii) ==
  /\ header \in Buffers /\ Len(header) = 40
  /\ \A bytes \in Buffers : Has(bytes, 0, header) =>
       /\ Has(bytes, 0, Header("ByteViewArray", physical))
       /\ \A known : SizesKnown(bytes, sections, known)
       /\ (FieldAt(bytes, 39, 1) % 2 = 1) <=> ascii

\* Five fields and a flag follow the first 16 bytes.
LEMMA ByteViewHeaderIs ==
  ASSUME NEW sections, NEW w, Sections(sections, w), HeaderFits(sections), NEW ascii \in BOOLEAN,
         NEW physical, NEW header,
         header = Header("ByteViewArray", physical) \o ByteViewHeader(sections, ascii)
  PROVE  HeaderTells(header, physical, sections, ascii)
<1> DEFINE numbers == <<Len(sections[2]), Len(sections[3]), Len(sections[5]), Len(sections[1]), 0>>
<1>1. PICK h, f, z, n, a :
        /\ h = Header("ByteViewArray", physical) /\ f = FieldsOf(numbers, 4) /\ z = Zeros(3)
        /\ n = (IF ascii THEN 1 ELSE 0) /\ a = Field(n, 1)
  OBVIOUS
<1>2. header = h \o ((f \o z) \o a)
  BY <1>1 DEF ByteViewHeader
<1>3. \A k \in {1, 2, 3, 5} : Len(sections[k]) \in Nat /\ Len(sections[k]) < 2^(4 * ByteBits)
  BY DEF Sections, HeaderFits, Buffers
<1>4. /\ DOMAIN numbers = 1 .. 5
      /\ numbers[1] = Len(sections[2]) /\ numbers[2] = Len(sections[3])
      /\ numbers[3] = Len(sections[5]) /\ numbers[4] = Len(sections[1])
  OBVIOUS
<1> HIDE DEF numbers
<1>5. h \in Buffers /\ Len(h) = 16
  BY <1>1, HeaderIs
<1>6. /\ f \in Buffers /\ Len(f) = 20
      /\ \A b \in Buffers, offset \in Nat : Has(b, offset, f) =>
           \A j \in 1 .. 5 : Has(b, offset + 4 * (j - 1), Field(numbers[j], 4))
  <2>1. 5 \in Nat /\ 4 \in Nat \ {0}
    OBVIOUS
  <2>2. /\ FieldsOf(numbers, 4) \in Buffers /\ Len(FieldsOf(numbers, 4)) = 4 * 5
        /\ \A b \in Buffers, offset \in Nat : Has(b, offset, FieldsOf(numbers, 4)) =>
             \A j \in 1 .. 5 : Has(b, offset + 4 * (j - 1), Field(numbers[j], 4))
    BY <1>4, <2>1, FieldsAre, Zenon
  <2> QED
    BY <1>1, <2>2
<1>7. z \in Buffers /\ Len(z) = 3 /\ a \in Buffers /\ Len(a) = 1
  <2>1. 3 \in Nat /\ 1 \in Nat
    OBVIOUS
  <2> QED
    BY <1>1, <2>1, PartsAre
<1>8. f \o z \in Buffers /\ Len(f \o z) = 23
  <2>1. f \o z \in Buffers /\ Len(f \o z) = Len(f) + Len(z)
    BY <1>6, <1>7, Appended
  <2> QED
    BY <1>6, <1>7, <2>1
<1>9. (f \o z) \o a \in Buffers /\ Len((f \o z) \o a) = 24
  <2>1. (f \o z) \o a \in Buffers /\ Len((f \o z) \o a) = Len(f \o z) + Len(a)
    BY <1>7, <1>8, Appended
  <2> QED
    BY <1>7, <1>8, <2>1
<1>10. header \in Buffers /\ Len(header) = 40
  <2>1. header \in Buffers /\ Len(header) = Len(h) + Len((f \o z) \o a)
    BY <1>2, <1>5, <1>9, Appended
  <2> QED
    BY <1>5, <1>9, <2>1
<1>11. ASSUME NEW bytes \in Buffers, Has(bytes, 0, header)
       PROVE  /\ Has(bytes, 0, h)
              /\ \A known : SizesKnown(bytes, sections, known)
              /\ (FieldAt(bytes, 39, 1) % 2 = 1) <=> ascii
  <2>1. Has(bytes, 0, h) /\ Has(bytes, 0 + Len(h), (f \o z) \o a)
    <3>1. PICK t : t = (f \o z) \o a
      OBVIOUS
    <3>2. t \in Buffers /\ Has(bytes, 0, h \o t) /\ 0 \in Nat
      BY <1>2, <1>9, <1>11, <3>1
    <3>3. Has(bytes, 0, h) /\ Has(bytes, 0 + Len(h), t)
      BY <1>5, <1>11, <3>2, HasParts
    <3> QED
      BY <3>1, <3>3
  <2>2. Has(bytes, 16, (f \o z) \o a)
    BY <1>5, <2>1
  <2>3. Has(bytes, 16, f \o z) /\ Has(bytes, 16 + Len(f \o z), a)
    BY <1>7, <1>8, <2>2, HasParts
  <2>4. Has(bytes, 16, f) /\ Has(bytes, 39, a)
    BY <1>6, <1>7, <1>8, <2>3, HasParts
  <2>5. ASSUME NEW j \in 1 .. 4, NEW offset, offset = 16 + 4 * (j - 1)
        PROVE  FieldAt(bytes, offset, 4) = numbers[j]
    <3>1. Has(bytes, 16 + 4 * (j - 1), Field(numbers[j], 4))
      <4>1. 16 \in Nat /\ j \in 1 .. 5
        OBVIOUS
      <4> QED
        BY <1>6, <2>4, <4>1
    <3>2. numbers[j] \in Nat /\ numbers[j] < 2^(4 * ByteBits)
      <4>1. j = 1 \/ j = 2 \/ j = 3 \/ j = 4
        OBVIOUS
      <4> QED
        BY <1>3, <1>4, <4>1
    <3>3. 4 \in Nat /\ Has(bytes, offset, Field(numbers[j], 4))
      BY <2>5, <3>1
    <3> QED
      BY <3>2, <3>3, NumberIsFound
  <2>6. /\ FieldAt(bytes, 16 + 4 * 0, 4) = numbers[1] /\ FieldAt(bytes, 16 + 4 * 1, 4) = numbers[2]
        /\ FieldAt(bytes, 16 + 4 * 2, 4) = numbers[3] /\ FieldAt(bytes, 16 + 4 * 3, 4) = numbers[4]
    BY <2>5
  <2>7. ASSUME NEW known PROVE SizesKnown(bytes, sections, known)
    <3>1. PICK p, q, r, s :
            /\ p = FieldAt(bytes, 16 + 4 * 0, 4) /\ q = FieldAt(bytes, 16 + 4 * 1, 4)
            /\ r = FieldAt(bytes, 16 + 4 * 2, 4) /\ s = FieldAt(bytes, 16 + 4 * 3, 4)
      OBVIOUS
    <3>2. ByteViewSizes(bytes, known) = <<s, p, q, known, r>>
      BY <3>1 DEF ByteViewSizes
    <3>3. /\ s = Len(sections[1]) /\ p = Len(sections[2]) /\ q = Len(sections[3])
          /\ r = Len(sections[5])
      BY <1>4, <2>6, <3>1
    <3> QED
      BY <3>2, <3>3 DEF SizesKnown
  <2>8. FieldAt(bytes, 39, 1) = n
    <3>1. n \in Nat /\ n < 2^(1 * ByteBits) /\ 1 \in Nat
      <4>1. ByteBits \in Nat /\ 1 \in 0 .. ByteBits /\ 1 * ByteBits = ByteBits
        BY SizesAreNumbers
      <4>2. 2^1 <= 2^ByteBits /\ 2^ByteBits \in Nat
        BY <4>1, PowersGrow
      <4>3. 2^1 = 2
        <5>1. 2^0 = 1 /\ 2^(0 + 1) = 2 * 2^0
          BY PowerDoubles
        <5> QED
          BY <5>1
      <4> QED
        BY <1>1, <4>1, <4>2, <4>3
    <3> QED
      BY <1>1, <2>4, <3>1, NumberIsFound
  <2>9. (n % 2 = 1) <=> ascii
    BY <1>1
  <2> QED
    BY <2>1, <2>7, <2>8, <2>9
<1> QED
  BY <1>1, <1>10, <1>11 DEF HeaderTells

\* What is written of strings is of the kinds that its bytes can hold, and
\* there are prefix keys for one entry less than there are offsets.
Writable(array) ==
  /\ array.prefix \in Bytes /\ array.data \in Bytes /\ array.uncompressed \in Nat
  /\ Savable(array.table) /\ ReadsLike(Loaded(array.table), array.table)
  /\ Packable(array.packed)
  /\ array.offsets.residuals \in Seq(Int) /\ array.offsets.residuals # <<>>
  /\ array.offsets.width = WidthFor(array.offsets.residuals)
  /\ array.prefixKeys \in Buffers
  /\ Len(array.prefixKeys) = 8 * (Len(array.offsets.residuals) - 1)

\* The numbers in it fit the fields they are written in.
ByteViewFits(array) ==
  /\ HeaderFits(ByteViewSections(array))
  /\ array.uncompressed < 2^(8 * ByteBits)
  /\ CompactFits(array.offsets)

\* Each section is read as what was written.
LEMMA SectionsAreRead ==
  ASSUME NEW array, Writable(array), ByteViewFits(array),
         NEW sections, sections = ByteViewSections(array)
  PROVE  /\ \E w : Sections(sections, w)
         /\ \E section : /\ ReadFsstSection(sections[1]) = {section}
                         /\ section.table = Loaded(array.table) /\ section.data = array.data
                         /\ section.uncompressed = array.uncompressed
         /\ Deserialize(sections[2]) = {array.packed}
         /\ \E offsets : /\ CompactFromBytes(sections[3]) = {offsets}
                         /\ OffsetsOf(offsets) = OffsetsOf(array.offsets)
                         /\ PrefixKeysSize(offsets) = Len(sections[4])
         /\ sections[4] = array.prefixKeys
         /\ FromBuffer(sections[5]) = array.prefix
<1>1. PICK s1, s2, s3, s4, s5 :
        /\ s1 = FsstSection(array.table, array.uncompressed, array.data)
        /\ s2 = Serialize(array.packed) /\ s3 = CompactToBytes(array.offsets)
        /\ s4 = array.prefixKeys /\ s5 = ToBuffer(array.prefix)
  OBVIOUS
<1>2. /\ DOMAIN sections = 1 .. 5
      /\ sections[1] = s1 /\ sections[2] = s2 /\ sections[3] = s3 /\ sections[4] = s4 /\ sections[5] = s5
  <2>1. sections = <<s1, s2, s3, s4, s5>>
    BY <1>1 DEF ByteViewSections
  <2> QED
    BY <2>1
<1>3. PICK at, size : at = SymbolTableSize(Len(array.table.symbols)) /\ size = Len(array.data)
  OBVIOUS
<1>4. s1 \in Buffers /\ Len(s1) = at + 12 + size /\ at \in Nat /\ size \in Nat
  <2>1. Savable(array.table) /\ array.data \in Bytes
    BY DEF Writable
  <2> QED
    BY <1>1, <1>3, <2>1, SectionIs
<1>5. \E section : /\ ReadFsstSection(s1) = {section}
                   /\ section.table = Loaded(array.table) /\ section.data = array.data
                   /\ section.uncompressed = array.uncompressed
  <2>1. SectionFits(array.uncompressed, array.data)
    <3>1. Len(s1) < 2^(4 * ByteBits)
      BY <1>2 DEF ByteViewFits, HeaderFits
    <3>2. 2^(4 * ByteBits) \in Nat
      <4>1. 4 * ByteBits \in Nat
        BY SizesAreNumbers
      <4> QED
        BY <4>1, PowersGrow
    <3>3. size < 2^(4 * ByteBits)
      BY <1>4, <3>1, <3>2
    <3> QED
      BY <1>3, <3>3 DEF SectionFits, Writable, ByteViewFits
  <2>2. <<>> \in Buffers /\ s1 \o <<>> = s1
    BY <1>4 DEF Buffers
  <2>3. ReadFsstSection(s1 \o <<>>)
          = {[table |-> Loaded(array.table), uncompressed |-> array.uncompressed,
              data |-> array.data, rest |-> <<>>]}
    <3>1. Savable(array.table)
      BY DEF Writable
    <3>2. PICK t, u, d : t = array.table /\ u = array.uncompressed /\ d = array.data
      OBVIOUS
    <3>3. Savable(t) /\ SectionFits(u, d) /\ s1 = FsstSection(t, u, d)
      BY <1>1, <2>1, <3>1, <3>2
    <3>4. \A rest \in Buffers :
            ReadFsstSection(s1 \o rest)
              = {[table |-> Loaded(t), uncompressed |-> u, data |-> d, rest |-> rest]}
      BY <3>3, SectionIsRead
    <3> QED
      BY <2>2, <3>2, <3>4
  <2>4. PICK x : x = [table |-> Loaded(array.table), uncompressed |-> array.uncompressed,
                      data |-> array.data, rest |-> <<>>]
    OBVIOUS
  <2>5. x.table = Loaded(array.table) /\ x.uncompressed = array.uncompressed /\ x.data = array.data
    BY <2>4
  <2>6. ReadFsstSection(s1) = {x}
    BY <2>2, <2>3, <2>4
  <2> QED
    BY <2>5, <2>6
<1>6. s2 \in Buffers /\ Deserialize(s2) = {array.packed}
  BY <1>1, SerializedIs, PackedBytesRestore DEF Writable
<1>7. /\ s3 \in Buffers
      /\ \E offsets : /\ CompactFromBytes(s3) = {offsets}
                      /\ OffsetsOf(offsets) = OffsetsOf(array.offsets)
                      /\ PrefixKeysSize(offsets) = Len(s4)
  <2>1. /\ s3 \in Buffers
        /\ \E read : /\ CompactFromBytes(s3) = {read}
                     /\ OffsetsOf(read) = OffsetsOf(array.offsets)
                     /\ read.residuals = array.offsets.residuals
    BY <1>1, CompactIsRead DEF Writable, ByteViewFits
  <2>2. ASSUME NEW read, read.residuals = array.offsets.residuals
        PROVE  PrefixKeysSize(read) = Len(s4)
    BY <1>1, <2>2 DEF PrefixKeysSize, Writable
  <2> QED
    BY <2>1, <2>2
<1>8. s4 \in Buffers
  BY <1>1 DEF Writable
<1>9. s5 \in Buffers /\ FromBuffer(s5) = array.prefix
  BY <1>1, StringIsFound DEF Writable
<1>10. Sections(sections, [k \in 1 .. 5 |-> Align8(Len(sections[k]))])
  <2>1. ASSUME NEW k \in 1 .. 5 PROVE sections[k] \in Buffers
    <3>1. k = 1 \/ k = 2 \/ k = 3 \/ k = 4 \/ k = 5
      OBVIOUS
    <3> QED
      BY <1>2, <1>4, <1>6, <1>7, <1>8, <1>9, <3>1
  <2> QED
    BY <1>2, <2>1 DEF Sections
<1> QED
  BY <1>1, <1>2, <1>5, <1>6, <1>7, <1>9, <1>10

\* from_bytes of what to_bytes has written: the flags, the keys and what the
\* entries are decompressed from are those of the array.
THEOREM ByteViewBytesRestore ==
  ASSUME NEW array, Writable(array), ByteViewFits(array),
         NEW binary \in BOOLEAN, NEW ascii \in BOOLEAN,
         NEW bytes, bytes = ByteViewToBytes(WithFlags(array, binary, ascii))
  PROVE  /\ ReadHeader(bytes) = {[logical |-> LogicalId("ByteViewArray"),
                                  physical |-> PhysicalId(IF binary THEN "UInt8" ELSE "Int8")]}
         /\ \E copy : /\ ByteViewFromBytes(bytes) = {WithFlags(copy, binary, ascii)}
                      /\ KeptAs(copy, array) /\ copy.packed = array.packed
<1>1. PICK sections, physical :
        sections = ByteViewSections(array) /\ physical = (IF binary THEN "UInt8" ELSE "Int8")
  OBVIOUS
<1>2. PICK header : header = Header("ByteViewArray", physical) \o ByteViewHeader(sections, ascii)
  OBVIOUS
<1>3. bytes = Written(header, sections)
  BY <1>1, <1>2 DEF ByteViewToBytes, WithFlags
<1>4. PICK w : Sections(sections, w)
  BY <1>1, SectionsAreRead
<1>5. HeaderTells(header, physical, sections, ascii)
  <2>1. HeaderFits(sections)
    BY <1>1 DEF ByteViewFits
  <2> QED
    BY <1>2, <1>4, <2>1, ByteViewHeaderIs
<1>6. /\ bytes \in Buffers /\ Len(bytes) >= 40 /\ Len(bytes) \in Nat /\ Has(bytes, 0, header)
      /\ \A k \in 1 .. 5 : Placed(bytes, sections, w, k)
  <2>1. header \in Buffers /\ Len(header) = 40
    BY <1>5 DEF HeaderTells
  <2> QED
    BY <1>3, <1>4, <2>1, WrittenIs
<1>7. /\ Has(bytes, 0, Header("ByteViewArray", physical))
      /\ \A known : SizesKnown(bytes, sections, known)
      /\ (FieldAt(bytes, 39, 1) % 2 = 1) <=> ascii
  BY <1>5, <1>6 DEF HeaderTells
<1>8. "ByteViewArray" \in Logicals /\ physical \in Physicals
  BY <1>1 DEF Logicals, LiquidDataTypes, Physicals, PhysicalTypes
<1>9. /\ ReadHeader(bytes)
           = {[logical |-> LogicalId("ByteViewArray"), physical |-> PhysicalId(physical)]}
      /\ IsOfType(bytes, "ByteViewArray")
  BY <1>6, <1>7, <1>8, HeaderIsRead
<1>10. \A k \in 1 .. 3 : SectionOf(bytes, 0, k) = {sections[k]}
  <2> TAKE k \in 1 .. 3
  <2>1. k \in 1 .. 5 /\ Placed(bytes, sections, w, k)
    BY <1>6
  <2>2. \A m \in 1 .. k : ByteViewSizes(bytes, 0)[m] = Len(sections[m])
    <3> TAKE m \in 1 .. k
    <3>1. m = 1 \/ m = 2 \/ m = 3
      OBVIOUS
    <3>2. SizesKnown(bytes, sections, 0)
      BY <1>7
    <3> QED
      BY <3>1, <3>2 DEF SizesKnown
  <2> QED
    BY <1>4, <1>6, <2>1, <2>2, SectionIsCut
<1>11. ASSUME NEW known, known = Len(sections[4])
       PROVE  \A k \in 4 .. 5 : SectionOf(bytes, known, k) = {sections[k]}
  <2> TAKE k \in 4 .. 5
  <2>1. k \in 1 .. 5 /\ Placed(bytes, sections, w, k)
    BY <1>6
  <2>2. \A m \in 1 .. k : ByteViewSizes(bytes, known)[m] = Len(sections[m])
    <3> TAKE m \in 1 .. k
    <3>1. m = 1 \/ m = 2 \/ m = 3 \/ m = 4 \/ m = 5
      OBVIOUS
    <3>2. SizesKnown(bytes, sections, known)
      BY <1>7
    <3> QED
      BY <1>11, <3>1, <3>2 DEF SizesKnown
  <2> QED
    BY <1>4, <1>6, <2>1, <2>2, SectionIsCut
<1>12. PICK section :
         /\ ReadFsstSection(sections[1]) = {section}
         /\ section.table = Loaded(array.table) /\ section.data = array.data
         /\ section.uncompressed = array.uncompressed
  BY <1>1, SectionsAreRead
<1>13. PICK offsets :
         /\ CompactFromBytes(sections[3]) = {offsets}
         /\ OffsetsOf(offsets) = OffsetsOf(array.offsets)
         /\ PrefixKeysSize(offsets) = Len(sections[4])
  BY <1>1, SectionsAreRead
<1>14. /\ Deserialize(sections[2]) = {array.packed}
       /\ sections[4] = array.prefixKeys /\ FromBuffer(sections[5]) = array.prefix
  BY <1>1, SectionsAreRead
<1>15. PICK copy :
         copy = [prefix |-> FromBuffer(sections[5]), table |-> section.table,
                 uncompressed |-> section.uncompressed, data |-> section.data,
                 offsets |-> offsets, prefixKeys |-> sections[4], packed |-> array.packed]
  OBVIOUS
<1>16. ReadSections(bytes, section, array.packed, offsets) = {copy}
  <2>1. /\ SectionOf(bytes, PrefixKeysSize(offsets), 5) = {sections[5]}
        /\ SectionOf(bytes, PrefixKeysSize(offsets), 4) = {sections[4]}
    BY <1>11, <1>13
  <2> QED
    BY <1>15, <2>1 DEF ReadSections
<1>17. /\ UNION {ReadFsstSection(s) : s \in SectionOf(bytes, 0, 1)} = {section}
       /\ UNION {Deserialize(s) : s \in SectionOf(bytes, 0, 2)} = {array.packed}
       /\ UNION {CompactFromBytes(s) : s \in SectionOf(bytes, 0, 3)} = {offsets}
  <2>1. /\ SectionOf(bytes, 0, 1) = {sections[1]} /\ SectionOf(bytes, 0, 2) = {sections[2]}
        /\ SectionOf(bytes, 0, 3) = {sections[3]}
    BY <1>10
  <2>2. /\ UNION {ReadFsstSection(s) : s \in {sections[1]}} = {section}
        /\ UNION {Deserialize(s) : s \in {sections[2]}} = {array.packed}
        /\ UNION {CompactFromBytes(s) : s \in {sections[3]}} = {offsets}
    BY <1>12, <1>13, <1>14
  <2> QED
    BY <2>1, <2>2
<1>18. (\E h \in ReadHeader(bytes) : h.physical = PhysicalId("UInt8")) <=> binary
  <2>1. (\E h \in ReadHeader(bytes) : h.physical = PhysicalId("UInt8"))
          <=> PhysicalId(physical) = PhysicalId("UInt8")
    BY <1>9
  <2>2. PhysicalId("Int8") # PhysicalId("UInt8")
    <3>1. "Int8" \in Physicals /\ "UInt8" \in Physicals
      BY DEF Physicals, PhysicalTypes
    <3>2. /\ PhysicalTypes[PhysicalId("Int8") + 1] = "Int8"
          /\ PhysicalTypes[PhysicalId("UInt8") + 1] = "UInt8"
      BY <3>1, IdsAreNumbers
    <3> QED
      BY <3>2
  <2> QED
    BY <1>1, <2>1, <2>2
<1>19. ByteViewFromBytes(bytes) = {WithFlags(copy, binary, ascii)}
  <2>1. ~(~IsOfType(bytes, "ByteViewArray") \/ Len(bytes) < 40)
    BY <1>6, <1>9
  <2>2. PICK A, B, C :
          /\ A = UNION {ReadFsstSection(s) : s \in SectionOf(bytes, 0, 1)}
          /\ B = UNION {Deserialize(s) : s \in SectionOf(bytes, 0, 2)}
          /\ C = UNION {CompactFromBytes(s) : s \in SectionOf(bytes, 0, 3)}
    OBVIOUS
  <2> DEFINE D == UNION {ReadSections(bytes, s, p, o) : s \in A, p \in B, o \in C}
  <2>3. A = {section} /\ B = {array.packed} /\ C = {offsets}
    BY <1>17, <2>2
  <2>4. ByteViewFromBytes(bytes)
          = {WithFlags(a, \E h \in ReadHeader(bytes) : h.physical = PhysicalId("UInt8"),
                       FieldAt(bytes, 39, 1) % 2 = 1) :
               a \in D}
    <3>1. ByteViewFromBytes(bytes)
            = {WithFlags(a, \E h \in ReadHeader(bytes) : h.physical = PhysicalId("UInt8"),
                         FieldAt(bytes, 39, 1) % 2 = 1) :
                 a \in UNION {ReadSections(bytes, s, p, o) :
                   s \in UNION {ReadFsstSection(s) : s \in SectionOf(bytes, 0, 1)},
                   p \in UNION {Deserialize(s) : s \in SectionOf(bytes, 0, 2)},
                   o \in UNION {CompactFromBytes(s) : s \in SectionOf(bytes, 0, 3)}}}
      BY <2>1 DEF ByteViewFromBytes
    <3> QED
      BY <2>2, <3>1
  <2>5. D = {copy}
    BY <1>16, <2>3
  <2> HIDE DEF D
  <2>6. \A x : x \in ByteViewFromBytes(bytes)
          <=> x = WithFlags(copy, \E h \in ReadHeader(bytes) : h.physical = PhysicalId("UInt8"),
                            FieldAt(bytes, 39, 1) % 2 = 1)
    BY <2>4, <2>5
  <2>7. WithFlags(copy, \E h \in ReadHeader(bytes) : h.physical = PhysicalId("UInt8"),
                  FieldAt(bytes, 39, 1) % 2 = 1) = WithFlags(copy, binary, ascii)
    BY <1>7, <1>18
  <2> QED
    BY <2>6, <2>7
<1>20. KeptAs(copy, array) /\ copy.packed = array.packed
  <2>1. /\ copy.prefix = FromBuffer(sections[5]) /\ copy.table = section.table
        /\ copy.data = section.data /\ copy.offsets = offsets /\ copy.packed = array.packed
    BY <1>15
  <2> QED
    BY <1>12, <1>13, <1>14, <2>1 DEF KeptAs, Writable
<1> QED
  BY <1>1, <1>9, <1>19, <1>20

\* A prefix key takes eight bytes.
LEMMA PrefixKeyIs ==
  ASSUME NEW s \in Bytes
  PROVE  PrefixKey(s) \in OfSize(SUBSET Int, 8)
<1>1. PICK m, first, a, z, f :
        /\ m = Smaller(7, Len(s)) /\ first = SubSeq(s, 1, m) /\ a = ToBuffer(first)
        /\ z = Zeros(7 - Len(first)) /\ f = Field(Smaller(Len(s), ByteMax), 1)
  OBVIOUS
<1>2. PrefixKey(s) = (a \o z) \o f
  BY <1>1 DEF PrefixKey
<1>3. Len(s) \in Nat
  BY StringIsFound
<1>4. m \in Nat /\ m <= 7 /\ m <= Len(s)
  <2>1. 7 \in Nat
    OBVIOUS
  <2> QED
    BY <1>1, <1>3, <2>1, SmallerIs
<1>5. first \in Bytes /\ Len(first) = m
  <2>1. \A S : s \in Seq(S) => SubSeq(s, 1, m) \in Seq(S) /\ Len(SubSeq(s, 1, m)) = m - 1 + 1
    <3> TAKE S
    <3> HAVE s \in Seq(S)
    <3>1. 1 \in Nat \ {0} /\ 1 <= m + 1
      BY <1>4
    <3> QED
      BY <1>4, <3>1, PartIs
  <2> QED
    <3>1. s \in Seq(0 .. ByteMax)
      BY DEF Bytes
    <3>2. SubSeq(s, 1, m) \in Seq(0 .. ByteMax) /\ Len(SubSeq(s, 1, m)) = m - 1 + 1
      BY <2>1, <3>1
    <3>3. m - 1 + 1 = m
      BY <1>4
    <3> QED
      BY <1>1, <3>2, <3>3 DEF Bytes
<1>6. a \in Buffers /\ Len(a) = m
  BY <1>1, <1>5, StringIsFound
<1>7. z \in Buffers /\ Len(z) = 7 - m
  <2>1. 7 - m \in Nat
    BY <1>4
  <2> QED
    BY <1>1, <1>5, <2>1, PartsAre
<1>8. f \in Buffers /\ Len(f) = 1
  <2>1. 1 \in Nat
    OBVIOUS
  <2> QED
    BY <1>1, <2>1, PartsAre
<1>9. a \o z \in Buffers /\ Len(a \o z) = 7
  <2>1. a \o z \in Buffers /\ Len(a \o z) = Len(a) + Len(z)
    BY <1>6, <1>7, Appended
  <2> QED
    BY <1>4, <1>6, <1>7, <2>1
<1>10. (a \o z) \o f \in Buffers /\ Len((a \o z) \o f) = 8
  <2>1. (a \o z) \o f \in Buffers /\ Len((a \o z) \o f) = Len(a \o z) + Len(f)
    BY <1>8, <1>9, Appended
  <2> QED
    BY <1>8, <1>9, <2>1
<1> QED
  BY <1>2, <1>10 DEF OfSize, Buffers

\* Compact offsets have a residual for each offset.
LEMMA ResidualsOfOffsets ==
  ASSUME NEW offsets \in Seq(Int), offsets # <<>>, NEW compact, compact = CompactOffsets(offsets)
  PROVE  /\ compact.residuals \in Seq(Int) /\ Len(compact.residuals) = Len(offsets)
         /\ compact.width = WidthFor(compact.residuals)
<1>1. PICK line : line = OffsetLine(offsets)
  OBVIOUS
<1>2. line.slope \in Int /\ line.intercept \in Int
  BY <1>1, LineIsWhole
<1>3. PICK residuals : residuals = [j \in DOMAIN offsets |-> offsets[j] - Predicted(line, j - 1)]
  OBVIOUS
<1>4. compact = [line |-> line, residuals |-> residuals, width |-> WidthFor(residuals)]
  BY <1>1, <1>3 DEF CompactOffsets
<1>5. \A j \in DOMAIN offsets : offsets[j] - Predicted(line, j - 1) \in Int
  <2> TAKE j \in DOMAIN offsets
  <2>1. offsets[j] \in Int /\ j \in Int
    OBVIOUS
  <2> QED
    BY <1>2, <2>1 DEF Predicted
<1>6. residuals \in Seq(Int) /\ Len(residuals) = Len(offsets)
  <2>1. DOMAIN offsets = 1 .. Len(offsets) /\ Len(offsets) \in Nat
    OBVIOUS
  <2>2. residuals \in [1 .. Len(offsets) -> Int]
    BY <1>3, <1>5, <2>1
  <2> QED
    BY <2>1, <2>2
<1> QED
  BY <1>4, <1>6

\* The bytes of the suffixes are counted.
LEMMA SuffixesAreCounted ==
  ASSUME NEW suffixes \in Seq(Bytes)
  PROVE  MapThenSumSet(LAMBDA d : Len(suffixes[d]), DOMAIN suffixes) \in Nat
<1>1. PICK n : n = Len(suffixes)
  OBVIOUS
<1>2. n \in Nat /\ DOMAIN suffixes = 1 .. n /\ \A d \in 1 .. n : suffixes[d] \in Bytes
  BY <1>1
<1>3. PICK w : w = [d \in 1 .. n |-> Len(suffixes[d])]
  OBVIOUS
<1>4. \A d \in 1 .. n : w[d] = Len(suffixes[d]) /\ w[d] \in Nat
  BY <1>2, <1>3, StringIsFound
<1>5. PICK e : e = [k \in 0 .. n |-> Total(w, 1 .. k)]
  OBVIOUS
<1>6. Ends(e, suffixes, n)
  <2>1. suffixes \in [1 .. n -> Seq(0 .. ByteMax)]
    BY <1>1, <1>2 DEF Bytes
  <2>2. Lengths(w, suffixes, n) /\ Sums(e, w, n)
    BY <1>4, <1>5 DEF Lengths, Sums
  <2> QED
    BY <1>2, <2>1, <2>2, EndsOfRow
<1>7. Total(w, 1 .. n) \in Nat
  <2>1. n \in 0 .. n
    BY <1>2
  <2> QED
    BY <1>5, <1>6, <2>1 DEF Ends
<1>8. MapThenSumSet(LAMBDA d : Len(suffixes[d]), 1 .. n) = Total(w, 1 .. n)
  <2>1. IsFiniteSet(1 .. n)
    BY <1>2, FS_Interval
  <2>2. \A d \in 1 .. n : w[d] = Len(suffixes[d]) /\ w[d] \in Int
    BY <1>4
  <2> QED
    BY <2>1, <2>2, LengthsAreSummed
<1> QED
  BY <1>2, <1>7, <1>8

\* What is kept of a dictionary can be written.
LEMMA BuiltIsWritable ==
  ASSUME NEW dict \in Seq(Bytes), NEW packed, Packable(packed),
         NEW array, array = BuildEncodedDict(dict, packed, {})
  PROVE  Writable(array)
<1>1. PICK prefix, suffixes :
        prefix = SharedPrefix(dict) /\ suffixes = SuffixesOf(dict, prefix)
  OBVIOUS
<1>2. PICK flat, table : flat = Seqs!FlattenSeq(suffixes) /\ table = Train(flat)
  OBVIOUS
<1>3. array = Assembled(prefix, suffixes, table, packed)
  BY <1>1, <1>2 DEF BuildEncodedDict
<1>4. Split(dict, prefix, suffixes)
  BY <1>1, SharedPrefixIs
<1>5. prefix \in Bytes /\ suffixes \in Seq(Bytes)
  BY <1>4 DEF Split
<1>6. flat \in Bytes
  BY <1>2, <1>5, FlattenedIsSeq DEF Bytes
<1>7. Savable(table) /\ Learned(table) /\ ReadsLike(Loaded(table), table)
  BY <1>2, <1>6, TrainedIsSavable
<1>8. /\ TableOK(table) /\ suffixes \in Seq(Seq(Nat))
      /\ \A d \in 1 .. Len(suffixes) : Safe(table, suffixes[d])
  <2>1. AllSafe(table, suffixes)
    BY <1>7, LearnedIsSafe
  <2> QED
    BY <1>5, <2>1, StringsAreNumbers DEF AllSafe
<1>9. PICK compressed : compressed = CompressEach(table, suffixes)
  OBVIOUS
<1>10. compressed.data \in Bytes
  BY <1>5, <1>8, <1>9, DataAreBytes
<1>11. /\ compressed.offsets \in Seq(Int) /\ compressed.offsets # <<>>
       /\ Len(compressed.offsets) = Len(suffixes) + 1
  BY <1>8, <1>9, EachRestores
<1>12. PICK compact : compact = CompactOffsets(compressed.offsets)
  OBVIOUS
<1>13. /\ compact.residuals \in Seq(Int) /\ Len(compact.residuals) = Len(suffixes) + 1
       /\ compact.width = WidthFor(compact.residuals)
  BY <1>11, <1>12, ResidualsOfOffsets
<1>14. PICK keys : keys = Seqs!FlattenSeq([d \in DOMAIN suffixes |-> PrefixKey(suffixes[d])])
  OBVIOUS
<1>15. keys \in Buffers /\ Len(keys) = 8 * Len(suffixes)
  <2>1. PICK seqs, n : seqs = [d \in DOMAIN suffixes |-> PrefixKey(suffixes[d])] /\ n = Len(suffixes)
    OBVIOUS
  <2>2. n \in Nat /\ DOMAIN suffixes = 1 .. n /\ \A d \in 1 .. n : suffixes[d] \in Bytes
    BY <1>5, <2>1
  <2>3. seqs \in [1 .. n -> OfSize(SUBSET Int, 8)]
    BY <2>1, <2>2, PrefixKeyIs
  <2>4. 8 \in Nat \ {0}
    OBVIOUS
  <2>5. keys = Seqs!FlattenSeq(seqs)
    BY <1>14, <2>1
  <2>6. keys \in Buffers /\ Len(keys) = 8 * n
    BY <2>2, <2>3, <2>4, <2>5, EvenParts
  <2> QED
    BY <2>1, <2>6
<1>16. PICK total : total = MapThenSumSet(LAMBDA d : Len(suffixes[d]), DOMAIN suffixes)
  OBVIOUS
<1>17. total \in Nat
  BY <1>5, <1>16, SuffixesAreCounted
<1>18. array = [prefix |-> prefix, table |-> table, uncompressed |-> total,
                data |-> compressed.data, offsets |-> compact, prefixKeys |-> keys,
                packed |-> packed]
  BY <1>3, <1>9, <1>12, <1>14, <1>16 DEF Assembled
<1>19. compact.residuals # <<>> /\ Len(keys) = 8 * (Len(compact.residuals) - 1)
  <2>1. Len(suffixes) \in Nat /\ Len(<<>>) = 0
    BY <1>5
  <2> QED
    BY <1>13, <1>15, <2>1
<1>20. /\ array.prefix = prefix /\ array.table = table /\ array.uncompressed = total
       /\ array.data = compressed.data /\ array.offsets = compact /\ array.prefixKeys = keys
       /\ array.packed = packed
  BY <1>18
<1> QED
  BY <1>5, <1>7, <1>10, <1>13, <1>15, <1>17, <1>19, <1>20 DEF Writable

\* The null bitmap of a slice that begins with its buffer.
LEMMA NullsFromStartFit ==
  ASSUME NEW a, ByteSlice(a), a.offset = 0 \/ NullCount(a) = 0,
         NEW n, n = Length(a), NEW nulls, nulls = NullsFromStart(a)
  PROVE  nulls = <<>> \/ nulls \in [0 .. n - 1 -> BOOLEAN]
<1>1. CASE NullCount(a) = 0
  BY <1>1 DEF NullsFromStart
<1>2. CASE NullCount(a) # 0
  <2>1. a.offset = 0 /\ Index(a) = 0 .. n - 1
    BY <1>2, SliceIs
  <2>2. nulls = [i \in Index(a) |-> a.slots[i + 1].valid]
    BY <1>2 DEF NullsFromStart
  <2>3. ASSUME NEW i \in Index(a) PROVE a.slots[i + 1].valid \in BOOLEAN
    <3>1. i \in Int /\ a.offset + i + 1 = i + 1
      BY <2>1
    <3>2. SlotAt(a, i) = a.slots[i + 1]
      BY <3>1 DEF SlotAt
    <3> QED
      BY <3>2 DEF ByteSlice
  <2> QED
    BY <2>1, <2>2, <2>3
<1> QED
  BY <1>1, <1>2

\* What is packed of such a slice, or of one without nulls.
LEMMA FromStartIsPackable ==
  ASSUME NEW a, ByteSlice(a), a.offset = 0 \/ NullCount(a) = 0, Length(a) \in 0 .. MaxLength,
         NEW f, NEW width \in 0 .. WordBits
  PROVE  /\ Packable(Pack(Words(a, f), NullsFromStart(a), width))
         /\ Packable(Pack([i \in 1 .. Length(a) |-> {}], NullsFromStart(a), width))
<1>1. PICK n, nulls : n = Length(a) /\ nulls = NullsFromStart(a)
  OBVIOUS
<1>2. n \in Nat /\ n \in 0 .. MaxLength /\ (nulls = <<>> \/ nulls \in [0 .. n - 1 -> BOOLEAN])
  BY <1>1, SliceIs, NullsFromStartFit
<1>3. Words(a, f) \in Seq(SUBSET Int) /\ Len(Words(a, f)) = n
  BY <1>1, SliceIsPackable
<1>4. [i \in 1 .. n |-> {}] \in Seq(SUBSET Int) /\ Len([i \in 1 .. n |-> {}]) = n
  BY <1>2
<1>5. \A words \in Seq(SUBSET Int) : Len(words) = n => Packable(Pack(words, nulls, width))
  BY <1>2, PackIsPackable
<1> QED
  BY <1>1, <1>3, <1>4, <1>5

\* The bytes of a dictionary and its keys are decoded as the keys' strings.
LEMMA ByteViewDecodes ==
  ASSUME NEW dict \in Seq(Bytes), NEW packed, Packable(packed),
         NEW array, array = BuildEncodedDict(dict, packed, {}), ByteViewFits(array),
         NEW binary \in BOOLEAN, NEW ascii \in BOOLEAN,
         NEW bytes, bytes = ByteViewToBytes(WithFlags(array, binary, ascii))
  PROVE  DecodeLiquidArray(bytes)
           = {DecodedAs(ArrowType(IF binary THEN "Binary" ELSE "String"),
                        Looked(packed, dict, <<>>))}
<1>1. Writable(array)
  BY BuiltIsWritable
<1>2. PICK physical : physical = (IF binary THEN "UInt8" ELSE "Int8")
  OBVIOUS
<1>3. /\ ReadHeader(bytes) = {[logical |-> LogicalId("ByteViewArray"),
                               physical |-> PhysicalId(physical)]}
      /\ \E copy : /\ ByteViewFromBytes(bytes) = {WithFlags(copy, binary, ascii)}
                   /\ KeptAs(copy, array) /\ copy.packed = array.packed
  BY <1>1, <1>2, ByteViewBytesRestore
<1>4. PICK copy : /\ ByteViewFromBytes(bytes) = {WithFlags(copy, binary, ascii)}
                  /\ KeptAs(copy, array) /\ copy.packed = array.packed
  BY <1>3
<1>5. Entries(copy) = dict /\ copy.packed = packed
  <2>1. /\ array.packed = packed
        /\ \A c : KeptAs(c, array) => Entries(c) = dict
    BY BuiltRestores
  <2> QED
    BY <1>4, <2>1
<1>6. "ByteViewArray" \in Logicals /\ physical \in Physicals
  BY <1>2 DEF Logicals, LiquidDataTypes, Physicals, PhysicalTypes
<1>7. DecodeLiquidArray(bytes) = DecodeAs(bytes, "ByteViewArray", physical)
  BY <1>3, <1>6, HeaderDecides
<1>8. DecodeAs(bytes, "ByteViewArray", physical) = DecodeByteView(bytes)
  BY DEF DecodeAs
<1>9. PICK whole : whole = WithFlags(copy, binary, ascii)
  OBVIOUS
<1>10. whole.binary = binary /\ whole.array = copy
  BY <1>9 DEF WithFlags
<1>11. DecodeByteView(bytes)
         = {DecodedAs(ArrowType(IF whole.binary THEN "Binary" ELSE "String"),
                      ByteViewToArrow(whole))}
  BY <1>4, <1>9 DEF DecodeByteView
<1>12. ByteViewToArrow(whole) = Looked(packed, dict, <<>>)
  BY <1>5, <1>10 DEF ByteViewToArrow
<1> QED
  BY <1>7, <1>8, <1>10, <1>11, <1>12

\* A slice of strings whose dictionary, with its keys, fits the fields of its
\* bytes, and which is not longer than a packed array may be.
StringBytesFit(a) ==
  /\ Length(a) \in 0 .. MaxLength
  /\ ByteViewFits(BuildEncodedDict(DictionaryOf(a), PackKeys(a, DictionaryOf(a)), {}))

\* Such a slice comes back from its bytes.
THEOREM StringsRestoreFromBytes ==
  ASSUME NEW a, StringSlice(a), a.offset = 0 \/ NullCount(a) = 0,
         Cardinality(ValuesOf(a)) <= 2^KeyBits, StringBytesFit(a), NEW binary \in BOOLEAN
  PROVE  DecodesTo(ByteViewToBytes(ByteViewFromArrow(a, binary, {})),
                   ArrowType(IF binary THEN "Binary" ELSE "String"), a)
<1>1. PICK dict : dict = DictionaryOf(a)
  OBVIOUS
<1>2. PICK packed : packed = PackKeys(a, dict)
  OBVIOUS
<1>3. PICK array : array = BuildEncodedDict(dict, packed, {})
  OBVIOUS
<1>4. dict \in Seq(Bytes)
  BY <1>1, DictionaryOfStrings
<1>5. ByteSlice(a) /\ Lists(dict, ValuesOf(a))
  BY <1>1, DictionaryIs DEF StringSlice
<1>6. Packable(packed)
  <2>1. KeyWidth(dict, KeyBits) \in 0 .. WordBits
    BY <1>5, KeyWidthIs
  <2> QED
    BY <1>2, <1>5, <2>1, FromStartIsPackable DEF PackKeys, StringBytesFit
<1>7. ByteViewFits(array)
  BY <1>1, <1>2, <1>3 DEF StringBytesFit
<1>8. PICK ascii \in BOOLEAN : ascii = (~binary /\ CheckAllAscii(a))
  <2>1. (~binary /\ CheckAllAscii(a)) \in BOOLEAN
    OBVIOUS
  <2> QED
    BY <2>1, Zenon
<1>9. ByteViewFromArrow(a, binary, {}) = WithFlags(array, binary, ascii)
  BY <1>1, <1>2, <1>3, <1>8 DEF ByteViewFromArrow
<1>10. PICK bytes : bytes = ByteViewToBytes(WithFlags(array, binary, ascii))
  OBVIOUS
<1>11. DecodeLiquidArray(bytes)
         = {DecodedAs(ArrowType(IF binary THEN "Binary" ELSE "String"),
                      Looked(packed, dict, <<>>))}
  BY <1>3, <1>4, <1>6, <1>7, <1>10, ByteViewDecodes
<1>12. Restores(Looked(packed, dict, <<>>), a)
  BY <1>2, <1>5, LookedRestores
<1>13. PICK t, slots :
         /\ t = ArrowType(IF binary THEN "Binary" ELSE "String")
         /\ slots = Looked(packed, dict, <<>>)
  OBVIOUS
<1>14. DecodesTo(bytes, t, a)
  <2>1. DecodedAs(t, slots) \in DecodeLiquidArray(bytes)
    BY <1>11, <1>13
  <2>2. DecodedAs(t, slots).type = t /\ DecodedAs(t, slots).slots = slots
    BY DEF DecodedAs
  <2> QED
    BY <1>12, <1>13, <2>1, <2>2 DEF DecodesTo
<1> QED
  BY <1>9, <1>10, <1>13, <1>14

\* What transcode_arrow_array writes of a column of strings is read back.
LEMMA StringColumnsDecode ==
  ASSUME ColumnFits, IsString, NEW t \in ArrowTypes, NEW a \in ByteSlices,
         Sliceable(a), Numberable(a), StringBytesFit(a)
  PROVE  DecodesTo(TranscodeArrowArray(t, a), PlainType(t), a)
<1>1. PICK id \in StringTypes : t = ArrowType(id)
  BY DEF ArrowTypes, IsString, IsDecimal
<1>2. t.id = id /\ ~t.zoned
  BY <1>1 DEF ArrowType
<1>3. PICK binary \in BOOLEAN : binary = (id \in BinaryTypes)
  <2>1. (id \in BinaryTypes) \in BOOLEAN
    OBVIOUS
  <2> QED
    BY <2>1, Zenon
<1>4. Supported(t) /\ Logical(t, a) = "ByteViewArray" /\ id \notin Timestamps
  BY <1>1, <1>2 DEF Supported, Logical, StringTypes, BinaryTypes, Timestamps
<1>5. TranscodeArrowArray(t, a) = ByteViewToBytes(ByteViewFromArrow(a, binary, {}))
  BY <1>2, <1>3, <1>4 DEF TranscodeArrowArray, Encode
<1>6. PlainType(t) = ArrowType(IF binary THEN "Binary" ELSE "String")
  BY <1>2, <1>3 DEF PlainType
<1>7. /\ StringSlice(a) /\ (a.offset = 0 \/ NullCount(a) = 0)
      /\ Cardinality(ValuesOf(a)) <= 2^KeyBits
  BY StringColumns DEF Sliceable, Numberable
<1>8. DecodesTo(ByteViewToBytes(ByteViewFromArrow(a, binary, {})),
                ArrowType(IF binary THEN "Binary" ELSE "String"), a)
  BY <1>7, StringsRestoreFromBytes
<1> QED
  BY <1>5, <1>6, <1>8

-----------------------------------------------------------------------------
(* Dictionary arrays.                                                      *)

\* The entries of a dictionary array: those of a dictionary after an empty one,
\* which stands for null.
AfterEmpty(dict, entries) ==
  /\ entries \in Seq(Bytes) /\ Len(entries) = Len(dict) + 1
  /\ \A k \in 1 .. Len(dict) : entries[k + 1] = dict[k]

\* Slots with values of a set.
HasSlots(a, V) == a.slots \in Seq([valid : BOOLEAN, value : V])

\* One element and others after it.
LEMMA OneAndOthers ==
  ASSUME NEW S, NEW one \in Seq(S), Len(one) = 1, NEW others \in Seq(S), NEW n, n = Len(others)
  PROVE  /\ DOMAIN (one \o others) = 1 .. n + 1 /\ (one \o others)[1] = one[1]
         /\ \A k \in 1 .. n : (one \o others)[k + 1] = others[k]
<1>1. PICK w : w = one \o others
  OBVIOUS
<1>2. /\ w \in Seq(S) /\ Len(w) = Len(one) + Len(others) /\ Len(others) \in Nat
      /\ \A k \in 1 .. Len(one) : w[k] = one[k]
      /\ \A k \in 1 .. Len(others) : w[Len(one) + k] = others[k]
  <2>1. \A s, t \in Seq(S) :
          /\ s \o t \in Seq(S) /\ Len(s \o t) = Len(s) + Len(t) /\ Len(t) \in Nat
          /\ \A k \in 1 .. Len(s) : (s \o t)[k] = s[k]
          /\ \A k \in 1 .. Len(t) : (s \o t)[Len(s) + k] = t[k]
    OBVIOUS
  <2> QED
    BY <1>1, <2>1, Zenon
<1>3. Len(w) = n + 1 /\ n \in Nat
  BY <1>2
<1>4. w[1] = one[1]
  BY <1>2
<1>5. \A k \in 1 .. n : w[k + 1] = others[k]
  <2> TAKE k \in 1 .. n
  <2>1. Len(one) + k = k + 1 /\ k \in 1 .. Len(others)
    BY <1>3
  <2> QED
    BY <1>2, <2>1
<1>6. DOMAIN w = 1 .. n + 1
  BY <1>2, <1>3
<1> QED
  BY <1>1, <1>4, <1>5, <1>6

\* An array's dictionary, as a dictionary array, has such entries, and a key for
\* each valid slot.
LEMMA DictionaryArrayIs ==
  ASSUME NEW a, StringSlice(a), a.offset = 0, NEW V, HasSlots(a, V),
         NEW bits,
         NEW arrow, arrow = AsDictionary(a, bits), NEW dict, dict = DictionaryOf(a),
         NEW entries, entries = [d \in DOMAIN arrow.values |->
                                   IF arrow.values[d].valid THEN arrow.values[d].value ELSE <<>>]
  PROVE  /\ AfterEmpty(dict, entries) /\ arrow.indexBits = bits
         /\ arrow.indices.offset = 0 /\ Len(arrow.indices.slots) = Len(a.slots)
         /\ DOMAIN arrow.indices.slots = DOMAIN a.slots
         /\ \A i \in Index(a) : SlotAt(arrow.indices, i).valid = SlotAt(a, i).valid
         /\ \A i \in ValidIn(a) :
              \E k \in 1 .. Len(dict) : /\ SlotAt(arrow.indices, i).value = k
                                        /\ dict[k] = SlotAt(a, i).value
<1> DEFINE values == <<[valid |-> FALSE, value |-> <<>>]>>
                       \o [k \in DOMAIN dict |-> [valid |-> TRUE, value |-> dict[k]]]
           key(v) == CHOOSE k \in DOMAIN values : values[k].valid /\ values[k].value = v
           slots == [i \in DOMAIN a.slots |->
                       [a.slots[i] EXCEPT !.value = IF @ \in ValuesOf(a) THEN key(@) - 1 ELSE 0]]
<1>1. arrow = [values |-> values, indexBits |-> bits, indices |-> Array(slots, a.offset)]
  BY DEF AsDictionary
<1>2. dict \in Seq(Bytes) /\ Lists(dict, ValuesOf(a))
  BY DictionaryOfStrings, DictionaryIs DEF StringSlice
<1>3. PICK n : n = Len(dict)
  OBVIOUS
<1>4. /\ n \in Nat /\ DOMAIN dict = 1 .. n /\ \A k \in 1 .. n : dict[k] \in Bytes
      /\ \A v \in ValuesOf(a) : \E k \in 1 .. n : dict[k] = v
  <2>1. n \in Nat /\ DOMAIN dict = 1 .. n /\ \A k \in 1 .. n : dict[k] \in Bytes
    BY <1>2, <1>3
  <2>2. n = Cardinality(ValuesOf(a))
    BY <1>2, <1>3 DEF Lists
  <2> QED
    BY <1>2, <2>1, <2>2 DEF Lists
<1>5. /\ DOMAIN values = 1 .. n + 1 /\ ~values[1].valid
      /\ \A k \in 1 .. n : values[k + 1].valid /\ values[k + 1].value = dict[k]
  <2> DEFINE R == [valid : BOOLEAN, value : Bytes \cup {<<>>}]
             head == <<[valid |-> FALSE, value |-> <<>>]>>
             tail == [k \in DOMAIN dict |-> [valid |-> TRUE, value |-> dict[k]]]
  <2>1. head \in Seq(R) /\ Len(head) = 1 /\ head[1].valid = FALSE
    OBVIOUS
  <2>2. /\ tail \in Seq(R) /\ Len(tail) = n
        /\ \A k \in 1 .. n : tail[k].valid = TRUE /\ tail[k].value = dict[k]
    <3>1. tail \in [1 .. n -> R]
      BY <1>4
    <3>2. DOMAIN tail = 1 .. n
      BY <1>4
    <3> QED
      BY <1>4, <3>1, <3>2
  <2> HIDE DEF R, head, tail
  <2>3. /\ (head \o tail)[1] = head[1] /\ DOMAIN (head \o tail) = 1 .. n + 1
        /\ \A k \in 1 .. n : (head \o tail)[k + 1] = tail[k]
    BY <2>1, <2>2, OneAndOthers
  <2> QED
    BY <2>1, <2>2, <2>3 DEF head, tail
<1> HIDE DEF values
<1>6. AfterEmpty(dict, entries)
  <2>1. entries = [d \in DOMAIN values |-> IF values[d].valid THEN values[d].value ELSE <<>>]
    BY <1>1
  <2>2. DOMAIN entries = 1 .. n + 1 /\ entries[1] = <<>>
    BY <1>4, <1>5, <2>1
  <2>3. \A k \in 1 .. n : entries[k + 1] = dict[k]
    <3> TAKE k \in 1 .. n
    <3>1. k + 1 \in 1 .. n + 1 /\ values[k + 1].valid /\ values[k + 1].value = dict[k]
      BY <1>4, <1>5
    <3> QED
      BY <1>5, <2>1, <3>1
  <2>4. <<>> \in Bytes
    BY DEF Bytes
  <2>5. \A d \in 1 .. n + 1 : entries[d] \in Bytes
    <3> TAKE d \in 1 .. n + 1
    <3>1. CASE d = 1
      BY <2>2, <2>4, <3>1
    <3>2. CASE d # 1
      <4>1. PICK k \in 1 .. n : k + 1 = d
        <5>1. d - 1 \in 1 .. n /\ (d - 1) + 1 = d
          BY <1>4, <3>2
        <5> QED
          BY <5>1
      <4> QED
        BY <1>4, <2>3, <4>1
    <3> QED
      BY <3>1, <3>2
  <2>6. entries \in [1 .. n + 1 -> Bytes]
    BY <2>1, <2>2, <2>5
  <2>7. entries \in Seq(Bytes) /\ Len(entries) = n + 1
    <3>1. n + 1 \in Nat
      BY <1>4
    <3> QED
      BY <2>6, <3>1
  <2> QED
    BY <1>3, <2>3, <2>7 DEF AfterEmpty
<1>7. \A v \in ValuesOf(a) : key(v) - 1 \in 1 .. n /\ dict[key(v) - 1] = v
  <2> TAKE v \in ValuesOf(a)
  <2>1. PICK k \in 1 .. n : dict[k] = v
    BY <1>4
  <2>2. k + 1 \in DOMAIN values /\ values[k + 1].valid /\ values[k + 1].value = v
    BY <1>4, <1>5, <2>1
  <2>3. PICK m : m = key(v)
    OBVIOUS
  <2>4. m \in DOMAIN values /\ values[m].valid /\ values[m].value = v
    BY <2>2, <2>3
  <2>5. m - 1 \in 1 .. n /\ (m - 1) + 1 = m
    <3>1. m \in 1 .. n + 1 /\ m # 1
      BY <1>5, <2>4
    <3> QED
      BY <1>4, <3>1
  <2>6. dict[m - 1] = v
    BY <1>5, <2>4, <2>5
  <2> QED
    BY <2>3, <2>5, <2>6
<1> HIDE DEF key
<1> HIDE DEF slots
<1>8. arrow.indices.offset = 0 /\ arrow.indices.slots = slots /\ arrow.indexBits = bits
  BY <1>1 DEF Array
<1>9. PICK m : m = Len(a.slots)
  OBVIOUS
<1>10. /\ m \in Nat /\ DOMAIN a.slots = 1 .. m
       /\ \A i \in 1 .. m : a.slots[i] \in [valid : BOOLEAN, value : V]
  <2>1. \A S : a.slots \in Seq(S) => /\ Len(a.slots) \in Nat /\ DOMAIN a.slots = 1 .. Len(a.slots)
                                    /\ \A i \in 1 .. Len(a.slots) : a.slots[i] \in S
    OBVIOUS
  <2> QED
    BY <1>9, <2>1 DEF HasSlots
<1>11. DOMAIN slots = 1 .. m /\ Len(slots) = m
  <2>1. DOMAIN slots = 1 .. m
    BY <1>10 DEF slots
  <2> QED
    BY <1>10, <2>1
<1>12. Index(a) = 0 .. m - 1 /\ \A i \in Index(a) : SlotAt(a, i) = a.slots[i + 1]
  BY <1>9, <1>10 DEF Index, Length, SlotAt
<1>13. ASSUME NEW i \in Index(a)
       PROVE  /\ SlotAt(arrow.indices, i).valid = SlotAt(a, i).valid
              /\ SlotAt(arrow.indices, i).value
                   = IF SlotAt(a, i).value \in ValuesOf(a) THEN key(SlotAt(a, i).value) - 1 ELSE 0
  <2>1. PICK s : s = a.slots[i + 1]
    OBVIOUS
  <2>2. i + 1 \in 1 .. m /\ SlotAt(a, i) = s
    BY <1>10, <1>12, <2>1
  <2>3. slots[i + 1] = [s EXCEPT !.value = IF @ \in ValuesOf(a) THEN key(@) - 1 ELSE 0]
    BY <1>10, <2>1, <2>2 DEF slots
  <2>4. SlotAt(arrow.indices, i) = slots[i + 1]
    <3>1. arrow.indices.offset + i + 1 = i + 1
      BY <1>8, <1>10, <1>12
    <3> QED
      BY <1>8, <3>1 DEF SlotAt
  <2>5. s \in [valid : BOOLEAN, value : V]
    BY <1>10, <2>1, <2>2
  <2>6. /\ slots[i + 1].valid = s.valid
        /\ slots[i + 1].value = IF s.value \in ValuesOf(a) THEN key(s.value) - 1 ELSE 0
    BY <2>3, <2>5
  <2> QED
    BY <2>2, <2>4, <2>6
<1>14. ASSUME NEW i \in ValidIn(a)
       PROVE  \E k \in 1 .. n : SlotAt(arrow.indices, i).value = k /\ dict[k] = SlotAt(a, i).value
  <2>1. i \in Index(a) /\ SlotAt(a, i).value \in ValuesOf(a)
    BY DEF ValidIn, ValuesOf
  <2>2. SlotAt(arrow.indices, i).value = key(SlotAt(a, i).value) - 1
    BY <1>13, <2>1
  <2> QED
    BY <1>7, <2>1, <2>2
<1> QED
  BY <1>3, <1>6, <1>8, <1>9, <1>10, <1>11, <1>13, <1>14

\* The keys of entries that the store's keys can number take less than a word.
LEMMA LastKeyFits ==
  ASSUME NEW n \in Nat, n < 2^KeyBits, NEW bits \in Nat, KeyBits <= bits,
         NEW entries, Len(entries) = n + 1, entries # <<>>,
         NEW width, width = KeyWidth(entries, bits)
  PROVE  width \in 0 .. WordBits /\ 2^width \in Nat /\ n < 2^width
<1>1. KeyBits \in Nat /\ WordBits \in Nat /\ KeyBits <= WordBits
  BY KeyBitsAssumption, SizesAreNumbers
<1>2. PICK small, large, top : small = 2^KeyBits /\ large = 2^bits /\ top = 2^WordBits
  OBVIOUS
<1>3. /\ small \in Nat /\ large \in Nat \ {0} /\ top \in Nat
      /\ small <= large /\ small <= top
  BY <1>1, <1>2, PowersGrow
<1>4. n < large /\ n < top
  BY <1>2, <1>3
<1>5. (Len(entries) - 1) % large = n
  <2>1. Len(entries) - 1 = n /\ n \in 0 .. large - 1
    BY <1>3, <1>4
  <2>2. n % large = n
    BY <1>3, <2>1
  <2> QED
    BY <2>1, <2>2
<1>6. width = GetBitWidth(n)
  BY <1>2, <1>5 DEF KeyWidth
<1>7. width \in 1 .. WordBits /\ n < 2^width
  BY <1>2, <1>4, <1>6, BitWidthSuffices
<1>8. 2^width \in Nat
  BY <1>1, <1>7, PowersGrow
<1> QED
  BY <1>1, <1>7, <1>8

\* Slices with the same valid slots from their start on.
SameValidity(a, b) ==
  /\ a.offset = 0 /\ b.offset = 0 /\ Len(b.slots) = Len(a.slots)
  /\ \A i \in Index(a) : SlotAt(b, i).valid = SlotAt(a, i).valid

\* They have the same null bitmap, and are packed in the same way.
LEMMA ValidityDecides ==
  ASSUME NEW a, Len(a.slots) \in Nat, NEW b, SameValidity(a, b)
  PROVE  /\ Index(b) = Index(a) /\ ValidIn(b) = ValidIn(a)
         /\ NullCount(Array(b.slots, 0)) = NullCount(a)
         /\ \A f : Words(b, f) = Words(a, f)
         /\ (IF NullCount(Array(b.slots, 0)) = 0 THEN <<>>
             ELSE [i \in Index(b) |-> b.slots[i + 1].valid]) = NullsFromStart(a)
<1>1. Length(b) = Length(a) /\ Index(b) = Index(a) /\ Index(a) = 0 .. Length(a) - 1
  BY DEF SameValidity, Length, Index
<1>2. ValidIn(b) = ValidIn(a)
  BY <1>1 DEF SameValidity, ValidIn
<1>3. NullCount(Array(b.slots, 0)) = NullCount(a)
  <2>1. PICK c : c = Array(b.slots, 0)
    OBVIOUS
  <2>2. c.slots = b.slots /\ c.offset = b.offset
    BY <2>1 DEF Array, SameValidity
  <2>3. Length(c) = Length(b) /\ Index(c) = Index(b) /\ \A i : SlotAt(c, i) = SlotAt(b, i)
    BY <2>2 DEF Length, Index, SlotAt
  <2>4. ValidIn(c) = ValidIn(b)
    BY <2>3 DEF ValidIn
  <2>5. NullCount(c) = NullCount(a)
    BY <1>1, <1>2, <2>3, <2>4 DEF NullCount
  <2> QED
    BY <2>1, <2>5
<1>4. ASSUME NEW f PROVE Words(b, f) = Words(a, f)
  BY <1>1 DEF Words
<1>5. \A i \in Index(a) : b.slots[i + 1].valid = a.slots[i + 1].valid
  <2> TAKE i \in Index(a)
  <2>1. i \in Int /\ 0 + i + 1 = i + 1
    BY <1>1
  <2>2. SlotAt(a, i) = a.slots[i + 1] /\ SlotAt(b, i) = b.slots[i + 1]
    BY <2>1 DEF SameValidity, SlotAt
  <2> QED
    BY <2>2 DEF SameValidity
<1>6. [i \in Index(b) |-> b.slots[i + 1].valid] = [i \in Index(a) |-> a.slots[i + 1].valid]
  BY <1>1, <1>5
<1>7. (IF NullCount(Array(b.slots, 0)) = 0 THEN <<>>
       ELSE [i \in Index(b) |-> b.slots[i + 1].valid]) = NullsFromStart(a)
  BY <1>3, <1>6 DEF NullsFromStart
<1> QED
  BY <1>1, <1>2, <1>3, <1>4, <1>7

\* What is kept of a dictionary array: entries, and keys that look them up.
KeptDictionary(a, arrow, binary, entries, packed, ascii) ==
  /\ entries \in Seq(Bytes) /\ ascii \in BOOLEAN /\ LooksUp(packed, entries, a)
  /\ Length(a) \in 0 .. MaxLength => Packable(packed)
  /\ ByteViewFromDict(arrow.values, arrow.indices, arrow.indexBits, binary)
       = WithFlags(BuildEncodedDict(entries, packed, {}), binary, ascii)

\* The column as a dictionary array is kept so, whatever the width of its
\* indices, if the store's keys can number its entries.
LEMMA DictionaryArrayIsKept ==
  ASSUME NEW a, StringSlice(a), a.offset = 0, NEW V, HasSlots(a, V),
         Cardinality(ValuesOf(a)) < 2^KeyBits, NEW bits \in Nat, KeyBits <= bits,
         NEW arrow, arrow = AsDictionary(a, bits), NEW binary \in BOOLEAN
  PROVE  \E entries, packed, ascii : KeptDictionary(a, arrow, binary, entries, packed, ascii)
<1>1. PICK dict, entries :
        /\ dict = DictionaryOf(a)
        /\ entries = [d \in DOMAIN arrow.values |->
                        IF arrow.values[d].valid THEN arrow.values[d].value ELSE <<>>]
  OBVIOUS
<1>2. PICK b : b = arrow.indices
  OBVIOUS
<1>3. /\ AfterEmpty(dict, entries) /\ arrow.indexBits = bits
      /\ b.offset = 0 /\ Len(b.slots) = Len(a.slots)
      /\ \A i \in Index(a) : SlotAt(b, i).valid = SlotAt(a, i).valid
      /\ \A i \in ValidIn(a) :
           \E k \in 1 .. Len(dict) : SlotAt(b, i).value = k /\ dict[k] = SlotAt(a, i).value
  <2>1. /\ AfterEmpty(dict, entries) /\ arrow.indexBits = bits
        /\ arrow.indices.offset = 0 /\ Len(arrow.indices.slots) = Len(a.slots)
        /\ DOMAIN arrow.indices.slots = DOMAIN a.slots
        /\ \A i \in Index(a) : SlotAt(arrow.indices, i).valid = SlotAt(a, i).valid
        /\ \A i \in ValidIn(a) :
             \E k \in 1 .. Len(dict) : /\ SlotAt(arrow.indices, i).value = k
                                       /\ dict[k] = SlotAt(a, i).value
    BY <1>1, DictionaryArrayIs
  <2> QED
    BY <1>2, <2>1
<1>4. ByteSlice(a) /\ Len(a.slots) \in Nat
  BY DEF StringSlice, ByteSlice
<1>5. SameValidity(a, b)
  BY <1>3 DEF SameValidity
<1>6. PICK keys, width, packed :
        /\ keys = [i \in Index(b) |-> IF i \in ValidIn(b) THEN SlotAt(b, i).value ELSE 0]
        /\ width = KeyWidth(entries, bits)
        /\ packed = Pack(Words(a, keys), NullsFromStart(a), width)
  OBVIOUS
<1>7. PICK ascii \in BOOLEAN : ascii = (~binary /\ CheckAllAscii(Array(arrow.values, 0)))
  <2>1. (~binary /\ CheckAllAscii(Array(arrow.values, 0))) \in BOOLEAN
    OBVIOUS
  <2> QED
    BY <2>1, Zenon
<1>8. /\ Index(b) = Index(a) /\ ValidIn(b) = ValidIn(a)
      /\ \A f : Words(b, f) = Words(a, f)
      /\ (IF NullCount(Array(b.slots, 0)) = 0 THEN <<>>
          ELSE [i \in Index(b) |-> b.slots[i + 1].valid]) = NullsFromStart(a)
  BY <1>4, <1>5, ValidityDecides
<1>9. ByteViewFromDict(arrow.values, arrow.indices, arrow.indexBits, binary)
        = WithFlags(BuildEncodedDict(entries, packed, {}), binary, ascii)
  <2>1. packed = Pack(Words(b, keys),
                      IF NullCount(Array(b.slots, 0)) = 0 THEN <<>>
                      ELSE [i \in Index(b) |-> b.slots[i + 1].valid], width)
    BY <1>6, <1>8
  <2> QED
    BY <1>1, <1>2, <1>3, <1>6, <1>7, <2>1 DEF ByteViewFromDict
<1>10. PICK n : n = Len(dict)
  OBVIOUS
<1>11. n \in Nat /\ n < 2^KeyBits
  <2>1. dict \in Seq(Bytes) /\ Lists(dict, ValuesOf(a))
    BY <1>1, <1>4, DictionaryOfStrings, DictionaryIs
  <2>2. n = Cardinality(ValuesOf(a)) /\ n \in Nat
    BY <1>10, <2>1 DEF Lists
  <2> QED
    BY <2>2
<1>12. /\ entries \in Seq(Bytes) /\ Len(entries) = n + 1 /\ entries # <<>>
       /\ \A k \in 1 .. n : entries[k + 1] = dict[k]
  <2>1. /\ entries \in Seq(Bytes) /\ Len(entries) = n + 1
        /\ \A k \in 1 .. n : entries[k + 1] = dict[k]
    BY <1>3, <1>10 DEF AfterEmpty
  <2>2. Len(entries) # 0 /\ Len(<<>>) = 0
    BY <1>11, <2>1
  <2> QED
    BY <2>1, <2>2
<1>13. width \in 0 .. WordBits /\ 2^width \in Nat /\ n < 2^width
  BY <1>6, <1>11, <1>12, LastKeyFits
<1>14. 2^KeyBits \in Nat
  BY KeyBitsAssumption, SizesAreNumbers, PowersGrow
<1>15. Keyed(a, keys, entries, width)
  <2> SUFFICES ASSUME NEW i \in ValidIn(a)
               PROVE  /\ keys[i] \in Nat /\ keys[i] < 2^width /\ keys[i] < 2^KeyBits
                      /\ keys[i] < Len(entries) /\ entries[keys[i] + 1] = SlotAt(a, i).value
    BY DEF Keyed
  <2>1. PICK k \in 1 .. n : SlotAt(b, i).value = k /\ dict[k] = SlotAt(a, i).value
    BY <1>3, <1>10
  <2>2. i \in Index(b) /\ i \in ValidIn(b)
    BY <1>4, <1>8, SliceIs
  <2>3. keys[i] = k
    BY <1>6, <2>1, <2>2
  <2>4. k \in Nat /\ k <= n
    BY <1>11
  <2>5. k < 2^width /\ k < 2^KeyBits /\ k < Len(entries)
    BY <1>11, <1>12, <1>13, <1>14, <2>4
  <2>6. entries[k + 1] = SlotAt(a, i).value
    BY <1>12, <2>1
  <2> QED
    BY <2>3, <2>4, <2>5, <2>6
<1>16. LooksUp(packed, entries, a)
  <2> SUFFICES ASSUME NEW none PROVE Restores(Looked(packed, entries, none), a)
    BY DEF LooksUp
  <2> QED
    BY <1>4, <1>6, <1>13, <1>15, KeysLookUp
<1>17. ASSUME Length(a) \in 0 .. MaxLength PROVE Packable(packed)
  BY <1>4, <1>6, <1>13, <1>17, FromStartIsPackable
<1>18. KeptDictionary(a, arrow, binary, entries, packed, ascii)
  BY <1>9, <1>12, <1>16, <1>17 DEF KeptDictionary
<1> QED
  BY <1>18

\* The column as a dictionary array, with indices as wide as the store's keys,
\* fits the fields of its bytes, and is not longer than a packed array may be,
\* if it is of strings, and of fewer ones than there are keys.
DictionaryBytesFit ==
  LET a     == Array(column, 0)
      arrow == AsDictionary(a, KeyBits)
  IN  (IsString /\ Cardinality(ValuesOf(a)) < 2^KeyBits) =>
        /\ Length(a) \in 0 .. MaxLength
        /\ \A binary \in BOOLEAN :
             ByteViewFits(ByteViewFromDict(arrow.values, arrow.indices, arrow.indexBits, binary).array)

\* Entries and keys that look them up are read from their bytes.
LEMMA KeptDictionaryDecodes ==
  ASSUME NEW a, NEW arrow, NEW binary \in BOOLEAN, NEW entries, NEW packed, NEW ascii,
         KeptDictionary(a, arrow, binary, entries, packed, ascii), Length(a) \in 0 .. MaxLength,
         NEW liquid, liquid = ByteViewFromDict(arrow.values, arrow.indices, arrow.indexBits, binary),
         ByteViewFits(liquid.array)
  PROVE  DecodesTo(ByteViewToBytes(liquid), ArrowType(IF binary THEN "Binary" ELSE "String"), a)
<1>1. PICK array : array = BuildEncodedDict(entries, packed, {})
  OBVIOUS
<1>2. /\ entries \in Seq(Bytes) /\ ascii \in BOOLEAN /\ LooksUp(packed, entries, a)
      /\ Packable(packed) /\ liquid = WithFlags(array, binary, ascii)
  BY <1>1 DEF KeptDictionary
<1>3. ByteViewFits(array)
  BY <1>2 DEF WithFlags
<1>4. PICK bytes, t, slots :
        /\ bytes = ByteViewToBytes(WithFlags(array, binary, ascii))
        /\ t = ArrowType(IF binary THEN "Binary" ELSE "String")
        /\ slots = Looked(packed, entries, <<>>)
  OBVIOUS
<1>5. DecodeLiquidArray(bytes) = {DecodedAs(t, slots)}
  BY <1>1, <1>2, <1>3, <1>4, ByteViewDecodes
<1>6. Restores(slots, a)
  BY <1>2, <1>4 DEF LooksUp
<1>7. DecodesTo(bytes, t, a)
  <2>1. DecodedAs(t, slots).type = t /\ DecodedAs(t, slots).slots = slots
    BY DEF DecodedAs
  <2> QED
    BY <1>5, <1>6, <2>1 DEF DecodesTo
<1> QED
  BY <1>2, <1>4, <1>7

\* They are looked up by the loop of a vector, too.
LEMMA KeptDictionaryAgrees ==
  ASSUME NEW a, NEW arrow, NEW binary \in BOOLEAN, NEW entries, NEW packed, NEW ascii,
         KeptDictionary(a, arrow, binary, entries, packed, ascii),
         NEW inner, inner = ByteViewFromDict(arrow.values, arrow.indices, arrow.indexBits, binary)
  PROVE  Restores(ByteViewToVelox(inner).slots, a)
<1>1. PICK array : array = BuildEncodedDict(entries, packed, {})
  OBVIOUS
<1>2. /\ entries \in Seq(Bytes) /\ LooksUp(packed, entries, a)
      /\ inner = WithFlags(array, binary, ascii)
  BY <1>1 DEF KeptDictionary
<1>3. Entries(array) = entries /\ array.packed = packed
  BY <1>1, <1>2, BuiltRestores
<1>4. inner.array = array
  BY <1>2 DEF WithFlags
<1> QED
  BY <1>2, <1>3, <1>4, VectorRestores

\* A dictionary array keeps its strings, in bytes, if they fit their fields, and
\* as a vector.
THEOREM DictionaryArraysRestore == Spec => [](DictionaryBytesFit => DictionariesRestore)
<1>1. ColumnFits => (DictionaryBytesFit => DictionariesRestore)
  <2> SUFFICES ASSUME ColumnFits, DictionaryBytesFit PROVE DictionariesRestore
    OBVIOUS
  <2>1. PICK a : a = Array(column, 0)
    OBVIOUS
  <2>2. SUFFICES ASSUME IsString, Cardinality(ValuesOf(a)) < 2^KeyBits, NEW binary \in BOOLEAN
                 PROVE  /\ DecodesTo(TranscodeDictionaryArray(AsDictionary(a, KeyBits), binary),
                                     ArrowType(IF binary THEN "Binary" ELSE "String"), a)
                        /\ \A liquid \in TranscodeDictionary(AsDictionary(a, 2 * KeyBits), binary) :
                             Restores(ToVelox(liquid, FALSE).slots, a)
    BY <2>1 DEF DictionariesRestore
  <2>3. StringSlice(a) /\ a.offset = 0 /\ HasSlots(a, AllValues)
    <3>1. ColumnOK
      BY DEF ColumnFits
    <3>2. a \in ByteSlices
      BY <2>1, <3>1, ColumnIsSlice
    <3>3. a.offset = 0 /\ a.slots = column
      BY <2>1 DEF Array
    <3> QED
      BY <2>2, <3>1, <3>2, <3>3, StringColumns DEF HasSlots, ColumnOK
  <2>4. KeyBits \in Nat /\ 2 * KeyBits \in Nat /\ KeyBits <= KeyBits /\ KeyBits <= 2 * KeyBits
    BY KeyBitsAssumption, SizesAreNumbers
  <2>5. DecodesTo(TranscodeDictionaryArray(AsDictionary(a, KeyBits), binary),
                  ArrowType(IF binary THEN "Binary" ELSE "String"), a)
    <3>1. PICK arrow, liquid :
            /\ arrow = AsDictionary(a, KeyBits)
            /\ liquid = ByteViewFromDict(arrow.values, arrow.indices, arrow.indexBits, binary)
      OBVIOUS
    <3>2. arrow.indexBits = KeyBits
      BY <3>1 DEF AsDictionary
    <3>3. TranscodeDictionaryArray(arrow, binary) = ByteViewToBytes(liquid)
      BY <3>1, <3>2 DEF TranscodeDictionaryArray
    <3>4. ByteViewFits(liquid.array) /\ Length(a) \in 0 .. MaxLength
      BY <2>1, <2>2, <3>1 DEF DictionaryBytesFit
    <3>5. PICK entries, packed, ascii : KeptDictionary(a, arrow, binary, entries, packed, ascii)
      BY <2>2, <2>3, <2>4, <3>1, DictionaryArrayIsKept
    <3> QED
      BY <3>1, <3>3, <3>4, <3>5, KeptDictionaryDecodes
  <2>6. ASSUME NEW liquid \in TranscodeDictionary(AsDictionary(a, 2 * KeyBits), binary)
        PROVE  Restores(ToVelox(liquid, FALSE).slots, a)
    <3>1. PICK arrow, inner, physical :
            /\ arrow = AsDictionary(a, 2 * KeyBits)
            /\ inner = ByteViewFromDict(arrow.values, arrow.indices, arrow.indexBits, binary)
            /\ physical = (IF binary THEN "UInt8" ELSE "Int8")
      OBVIOUS
    <3>2. liquid = Wrapped(inner, "ByteViewArray", physical, Dictionary)
      BY <2>6, <3>1 DEF TranscodeDictionary
    <3>3. liquid.inner = inner /\ liquid.logical = "ByteViewArray"
      BY <3>2 DEF Wrapped
    <3>4. ToVelox(liquid, FALSE) = ByteViewToVelox(inner)
      BY <3>3 DEF ToVelox
    <3>5. PICK entries, packed, ascii : KeptDictionary(a, arrow, binary, entries, packed, ascii)
      BY <2>2, <2>3, <2>4, <3>1, DictionaryArrayIsKept
    <3> QED
      BY <3>1, <3>4, <3>5, KeptDictionaryAgrees
  <2> QED
    BY <2>5, <2>6
<1> QED
  BY <1>1, ColumnStaysFit, PTL DEF Spec

-----------------------------------------------------------------------------
(* The bytes of decimals, and of columns of any type.                      *)

\* In a buffer that begins with `whole`, the parts of it stand one behind the other.
Follows(whole, s, n, t) ==
  \A bytes \in Buffers : Has(bytes, 0, whole) => Has(bytes, 0, s) /\ Has(bytes, n, t)

\* That is how what is written of two parts is laid out.
LEMMA PartFollows ==
  ASSUME NEW s \in Buffers, NEW t \in Buffers, NEW whole, whole = s \o t
  PROVE  whole \in Buffers /\ Len(whole) = Len(s) + Len(t) /\ Follows(whole, s, Len(s), t)
<1>1. whole \in Buffers /\ Len(whole) = Len(s) + Len(t) /\ Len(s) \in Nat
  BY Appended
<1>2. ASSUME NEW bytes \in Buffers, Has(bytes, 0, s \o t)
      PROVE  Has(bytes, 0, s) /\ Has(bytes, Len(s), t)
  <2>1. 0 + Len(s) = Len(s)
    BY <1>1
  <2> QED
    BY <1>2, <2>1, HasParts
<1> QED
  BY <1>1, <1>2 DEF Follows

\* The number of a decimal type, its scale, and a field behind them.
DecimalHeader(k, scale, reference) ==
  Header("Decimal", "UInt64") \o Field(k, 1) \o Zeros(1) \o Field(scale, 1) \o Zeros(5)
    \o Field(reference, 8)

\* Where they are.
LEMMA DecimalHeaderIs ==
  ASSUME NEW k, NEW scale, NEW reference, NEW header, header = DecimalHeader(k, scale, reference)
  PROVE  /\ header \in Buffers /\ Len(header) = 32
         /\ \A bytes \in Buffers : Has(bytes, 0, header) =>
              /\ Has(bytes, 0, Header("Decimal", "UInt64")) /\ Has(bytes, 16, Field(k, 1))
              /\ Has(bytes, 18, Field(scale, 1)) /\ Has(bytes, 24, Field(reference, 8))
<1>1. PICK h, p, z, s, y, r :
        /\ h = Header("Decimal", "UInt64") /\ p = Field(k, 1) /\ z = Zeros(1)
        /\ s = Field(scale, 1) /\ y = Zeros(5) /\ r = Field(reference, 8)
  OBVIOUS
<1>2. /\ h \in Buffers /\ Len(h) = 16 /\ p \in Buffers /\ Len(p) = 1 /\ z \in Buffers /\ Len(z) = 1
      /\ s \in Buffers /\ Len(s) = 1 /\ y \in Buffers /\ Len(y) = 5 /\ r \in Buffers /\ Len(r) = 8
  <2>1. 1 \in Nat /\ 5 \in Nat /\ 8 \in Nat
    OBVIOUS
  <2> QED
    BY <1>1, <2>1, PartsAre, HeaderIs
<1>3. PICK a, b, c, d, e :
        /\ a = h \o p /\ b = a \o z /\ c = b \o s /\ d = c \o y /\ e = d \o r
  OBVIOUS
<1>4. a \in Buffers /\ Len(a) = 17 /\ Follows(a, h, 16, p)
  <2>1. h \in Buffers /\ p \in Buffers /\ a = h \o p
    BY <1>2, <1>3
  <2>2. a \in Buffers /\ Len(a) = Len(h) + Len(p) /\ Follows(a, h, Len(h), p)
    BY <2>1, PartFollows
  <2> QED
    BY <1>2, <1>3, <2>2
<1>5. b \in Buffers /\ Len(b) = 18 /\ Follows(b, a, 17, z)
  <2>1. a \in Buffers /\ z \in Buffers /\ b = a \o z
    BY <1>2, <1>3, <1>4
  <2>2. b \in Buffers /\ Len(b) = Len(a) + Len(z) /\ Follows(b, a, Len(a), z)
    BY <2>1, PartFollows
  <2> QED
    BY <1>2, <1>3, <1>4, <2>2
<1>6. c \in Buffers /\ Len(c) = 19 /\ Follows(c, b, 18, s)
  <2>1. b \in Buffers /\ s \in Buffers /\ c = b \o s
    BY <1>2, <1>3, <1>5
  <2>2. c \in Buffers /\ Len(c) = Len(b) + Len(s) /\ Follows(c, b, Len(b), s)
    BY <2>1, PartFollows
  <2> QED
    BY <1>2, <1>3, <1>5, <2>2
<1>7. d \in Buffers /\ Len(d) = 24 /\ Follows(d, c, 19, y)
  <2>1. c \in Buffers /\ y \in Buffers /\ d = c \o y
    BY <1>2, <1>3, <1>6
  <2>2. d \in Buffers /\ Len(d) = Len(c) + Len(y) /\ Follows(d, c, Len(c), y)
    BY <2>1, PartFollows
  <2> QED
    BY <1>2, <1>3, <1>6, <2>2
<1>8. e \in Buffers /\ Len(e) = 32 /\ Follows(e, d, 24, r)
  <2>1. d \in Buffers /\ r \in Buffers /\ e = d \o r
    BY <1>2, <1>3, <1>7
  <2>2. e \in Buffers /\ Len(e) = Len(d) + Len(r) /\ Follows(e, d, Len(d), r)
    BY <2>1, PartFollows
  <2> QED
    BY <1>2, <1>3, <1>7, <2>2
<1>9. header = e
  BY <1>1, <1>3 DEF DecimalHeader
<1>10. ASSUME NEW bytes \in Buffers, Has(bytes, 0, e)
       PROVE  Has(bytes, 0, h) /\ Has(bytes, 16, p) /\ Has(bytes, 18, s) /\ Has(bytes, 24, r)
  BY <1>4, <1>5, <1>6, <1>7, <1>8, <1>10 DEF Follows
<1> QED
  BY <1>1, <1>8, <1>9, <1>10

\* The byte that tells the two decimal types apart.
LEMMA DecimalTypeIsRead ==
  ASSUME NEW id \in Decimals, NEW bytes, NEW offset,
         Has(bytes, offset, Field(IF id = "Decimal128" THEN 0 ELSE 1, 1))
  PROVE  (IF FieldAt(bytes, offset, 1) = 0 THEN "Decimal128" ELSE "Decimal256") = id
<1>1. PICK k : k = IF id = "Decimal128" THEN 0 ELSE 1
  OBVIOUS
<1>2. k \in Nat /\ 1 \in Nat /\ k <= 1
  BY <1>1
<1>3. k < 2^(1 * ByteBits)
  <2>1. 1 * ByteBits \in Nat \ {0} /\ 0 \in Nat
    BY SizesAreNumbers
  <2>2. PICK w : w = 1 * ByteBits
    OBVIOUS
  <2>3. w \in Nat /\ 1 \in 0 .. w
    BY <2>1, <2>2
  <2>4. 2^1 <= 2^w /\ 2^w \in Nat
    BY <2>3, PowersGrow
  <2>5. 2^(0 + 1) = 2 * 2^0 /\ 2^0 = 1
    BY PowerDoubles
  <2> QED
    BY <1>2, <2>2, <2>4, <2>5
<1>4. FieldAt(bytes, offset, 1) = k
  BY <1>1, <1>2, <1>3, NumberIsFound
<1> QED
  BY <1>1, <1>4 DEF Decimals

\* Eight bytes hold a word.
LEMMA WordFitsEightBytes ==
  ASSUME NEW n \in Nat, n <= MaxOf(UInt64)
  PROVE  n < 2^(8 * ByteBits)
<1>1. PICK b, w : b = UInt64.bits /\ w = 8 * ByteBits
  OBVIOUS
<1>2. w \in Nat /\ b \in 0 .. w
  <2>1. b = ByteBits * Smaller(8, WordBytes)
    BY <1>1 DEF UInt64, NativeOf
  <2>2. ByteBits \in Nat \ {0} /\ WordBytes \in Nat \ {0}
    BY SizesAreNumbers
  <2>3. Smaller(8, WordBytes) \in 0 .. 8
    BY <2>2 DEF Smaller
  <2>4. PICK k \in 0 .. 8 : k = Smaller(8, WordBytes)
    BY <2>3
  <2>5. ByteBits * k \in 0 .. 8 * ByteBits
    BY <2>2
  <2> QED
    BY <1>1, <2>1, <2>2, <2>4, <2>5
<1>3. 2^b <= 2^w /\ 2^w \in Nat
  BY <1>2, PowersGrow
<1>4. 2^b \in Nat /\ MaxOf(UInt64) = 2^b - 1
  BY <1>1, UInt64Is
<1> QED
  BY <1>1, <1>3, <1>4

\* What is written of decimals of one word fits its fields.
LEMMA WordDecimalsFit ==
  ASSUME NEW a, DecimalSlice(a), FitsU64(a), a.offset = 0 \/ NullCount(a) = 0,
         Length(a) \in 0 .. MaxLength, NEW t, NEW liquid, liquid = DecimalFromArrow(a, t)
  PROVE  /\ liquid = [type |-> t, reference |-> liquid.reference, packed |-> liquid.packed]
         /\ liquid.type = t /\ Packable(liquid.packed)
         /\ liquid.reference \in Nat /\ liquid.reference < 2^(8 * ByteBits)
<1>1. liquid = [type |-> t, reference |-> liquid.reference, packed |-> liquid.packed]
      /\ liquid.type = t
  BY DEF DecimalFromArrow
<1>2. ByteSlice(a)
  BY DEF DecimalSlice
<1>3. CASE ValidIn(a) = {}
  <2>1. /\ liquid.reference = 0
        /\ liquid.packed = Pack([i \in 1 .. Length(a) |-> {}], NullsFromStart(a), 0)
    BY <1>3 DEF DecimalFromArrow
  <2>2. 0 \in 0 .. WordBits
    BY SizesAreNumbers
  <2>3. Packable(liquid.packed)
    BY <1>2, <2>1, <2>2, FromStartIsPackable
  <2>4. 0 <= MaxOf(UInt64)
    BY UInt64Is
  <2> QED
    BY <1>1, <2>1, <2>3, <2>4, WordFitsEightBytes
<1>4. CASE ValidIn(a) # {}
  <2>1. PICK S, m, min, max :
          S = ValuesOf(a) /\ m = 2^UInt64.bits /\ min = Min(S) /\ max = Max(S)
    OBVIOUS
  <2>2. PICK width : width = GetBitWidth(max - min)
    OBVIOUS
  <2>3. min \in 0 .. m - 1 /\ width \in 1 .. WordBits
    BY <1>4, <2>1, <2>2, DecimalRange
  <2>4. PICK f : f = [i \in Index(a) |-> IF i \in ValidIn(a) THEN SlotAt(a, i).value - min ELSE 0]
    OBVIOUS
  <2>5. /\ liquid.reference = min
        /\ liquid.packed = Pack(Words(a, f), NullsFromStart(a), width)
    BY <1>4, <2>1, <2>2, <2>4 DEF DecimalFromArrow
  <2>6. width \in 0 .. WordBits
    BY <2>3, SizesAreNumbers
  <2>7. Packable(liquid.packed)
    BY <1>2, <2>5, <2>6, FromStartIsPackable
  <2>8. min \in Nat /\ min <= MaxOf(UInt64)
    BY <2>1, <2>3, UInt64Is
  <2> QED
    BY <1>1, <2>5, <2>7, <2>8, WordFitsEightBytes
<1> QED
  BY <1>3, <1>4

\* The types of decimals, whose scale fits a byte.
WrittenType(t) ==
  /\ t.id \in Decimals /\ t = [id |-> t.id, zoned |-> FALSE, scale |-> t.scale]
  /\ InBytes(t.scale, 1)

\* from_bytes of what to_bytes has written of decimals of one word.
THEOREM DecimalBytesRestore ==
  ASSUME NEW t, WrittenType(t), NEW reference \in Nat, reference < 2^(8 * ByteBits),
         NEW packed, Packable(packed),
         NEW liquid, liquid = [type |-> t, reference |-> reference, packed |-> packed],
         NEW bytes, bytes = DecimalToBytes(liquid)
  PROVE  /\ ReadHeader(bytes) = {[logical |-> LogicalId("Decimal"), physical |-> PhysicalId("UInt64")]}
         /\ DecimalFromBytes(bytes) = {liquid}
<1>1. PICK k, header, s :
        /\ k = IF t.id = "Decimal128" THEN 0 ELSE 1
        /\ header = DecimalHeader(k, t.scale, reference) /\ s = Serialize(packed)
  OBVIOUS
<1>2. bytes = header \o s
  BY <1>1 DEF DecimalToBytes, DecimalHeader
<1>3. /\ header \in Buffers /\ Len(header) = 32
      /\ \A b \in Buffers : Has(b, 0, header) =>
           /\ Has(b, 0, Header("Decimal", "UInt64")) /\ Has(b, 16, Field(k, 1))
           /\ Has(b, 18, Field(t.scale, 1)) /\ Has(b, 24, Field(reference, 8))
  BY <1>1, DecimalHeaderIs
<1>4. s \in Buffers /\ Deserialize(s) = {packed}
  BY <1>1, SerializedIs, PackedBytesRestore
<1>5. bytes \in Buffers /\ Len(bytes) >= 32 /\ Len(bytes) \in Nat /\ Has(bytes, 0, header)
  <2>1. bytes \in Buffers /\ Len(bytes) = Len(header) + Len(s) /\ Len(s) \in Nat
    BY <1>2, <1>3, <1>4, Appended
  <2>2. Has(bytes, 0, bytes)
    BY <2>1, HasItself
  <2>3. Has(bytes, 0, header \o s)
    BY <1>2, <2>2
  <2>4. Has(bytes, 0, header)
    BY <1>3, <1>4, <2>1, <2>3, HasParts
  <2> QED
    BY <1>3, <2>1, <2>4
<1>6. /\ Has(bytes, 0, Header("Decimal", "UInt64")) /\ Has(bytes, 16, Field(k, 1))
      /\ Has(bytes, 18, Field(t.scale, 1)) /\ Has(bytes, 24, Field(reference, 8))
  BY <1>3, <1>5
<1>7. /\ ReadHeader(bytes) = {[logical |-> LogicalId("Decimal"), physical |-> PhysicalId("UInt64")]}
      /\ IsOfType(bytes, "Decimal")
  <2>1. "Decimal" \in Logicals /\ "UInt64" \in Physicals
    BY DEF Logicals, LiquidDataTypes, Physicals, PhysicalTypes
  <2> QED
    BY <1>5, <1>6, <2>1, HeaderIsRead
<1>8. (IF FieldAt(bytes, 16, 1) = 0 THEN "Decimal128" ELSE "Decimal256") = t.id
  BY <1>1, <1>6, DecimalTypeIsRead DEF WrittenType
<1>9. SignedAt(bytes, 18, 1) = t.scale
  <2>1. 1 \in Nat \ {0} /\ InBytes(t.scale, 1)
    BY DEF WrittenType
  <2> QED
    BY <1>6, <2>1, SignedIsFound
<1>10. FieldAt(bytes, 24, 8) = reference
  <2>1. 8 \in Nat
    OBVIOUS
  <2> QED
    BY <1>6, <2>1, NumberIsFound
<1>11. From(bytes, 32) = s
  BY <1>2, <1>3, <1>4, FromIs
<1>12. ~(Len(bytes) < 32)
  BY <1>5
<1>13. t = [id |-> t.id, zoned |-> FALSE, scale |-> t.scale]
  BY DEF WrittenType
<1>14. DecimalFromBytes(bytes)
         = {[type |-> [id |-> t.id, zoned |-> FALSE, scale |-> t.scale],
             reference |-> reference, packed |-> p] : p \in {packed}}
  BY <1>4, <1>7, <1>8, <1>9, <1>10, <1>11, <1>12 DEF DecimalFromBytes
<1> QED
  BY <1>7, <1>13, <1>14

\* Decimals of one word come back from their bytes.
LEMMA WordDecimalsDecode ==
  ASSUME NEW a, DecimalSlice(a), FitsU64(a), a.offset = 0 \/ NullCount(a) = 0,
         Length(a) \in 0 .. MaxLength, NEW t, WrittenType(t)
  PROVE  DecodesTo(DecimalToBytes(DecimalFromArrow(a, t)), t, a)
<1>1. PICK liquid, bytes : liquid = DecimalFromArrow(a, t) /\ bytes = DecimalToBytes(liquid)
  OBVIOUS
<1>2. /\ liquid = [type |-> t, reference |-> liquid.reference, packed |-> liquid.packed]
      /\ liquid.type = t /\ Packable(liquid.packed)
      /\ liquid.reference \in Nat /\ liquid.reference < 2^(8 * ByteBits)
  BY <1>1, WordDecimalsFit
<1>3. /\ ReadHeader(bytes) = {[logical |-> LogicalId("Decimal"), physical |-> PhysicalId("UInt64")]}
      /\ DecimalFromBytes(bytes) = {liquid}
  <2>1. PICK reference, packed : reference = liquid.reference /\ packed = liquid.packed
    OBVIOUS
  <2> QED
    BY <1>1, <1>2, <2>1, DecimalBytesRestore
<1>4. DecodeLiquidArray(bytes) = DecodeAs(bytes, "Decimal", "UInt64")
  <2>1. "Decimal" \in Logicals /\ "UInt64" \in Physicals
    BY DEF Logicals, LiquidDataTypes, Physicals, PhysicalTypes
  <2> QED
    BY <1>3, <2>1, HeaderDecides
<1>5. DecodeAs(bytes, "Decimal", "UInt64") = {DecimalToArrow(liquid)}
  BY <1>3 DEF DecodeAs
<1>6. Restores(DecimalToArrow(liquid).slots, a)
  BY <1>1, DecimalsRestore
<1>7. DecimalToArrow(liquid).type = t
  BY <1>2 DEF DecimalToArrow, DecodedAs
<1> QED
  BY <1>1, <1>4, <1>5, <1>6, <1>7 DEF DecodesTo

\* The header of an array of wider decimals: the sizes of its keys and of its
\* values, its type and its scale.
FixedLenHeader(keys, values, k, scale) ==
  Header("FixedLenByteArray", "UInt16") \o Field(keys, 4) \o Field(values, 4)
    \o Field(k, 1) \o Zeros(1) \o Field(scale, 1) \o Zeros(1)

\* Where they are.
LEMMA FixedLenHeaderIs ==
  ASSUME NEW keys, NEW values, NEW k, NEW scale,
         NEW header, header = FixedLenHeader(keys, values, k, scale)
  PROVE  /\ header \in Buffers /\ Len(header) = 28
         /\ \A bytes \in Buffers : Has(bytes, 0, header) =>
              /\ Has(bytes, 0, Header("FixedLenByteArray", "UInt16"))
              /\ Has(bytes, 16, Field(keys, 4)) /\ Has(bytes, 20, Field(values, 4))
              /\ Has(bytes, 24, Field(k, 1)) /\ Has(bytes, 26, Field(scale, 1))
<1>1. PICK h, p, q, r, z, s :
        /\ h = Header("FixedLenByteArray", "UInt16") /\ p = Field(keys, 4)
        /\ q = Field(values, 4) /\ r = Field(k, 1) /\ z = Zeros(1) /\ s = Field(scale, 1)
  OBVIOUS
<1>2. /\ h \in Buffers /\ Len(h) = 16 /\ p \in Buffers /\ Len(p) = 4 /\ q \in Buffers /\ Len(q) = 4
      /\ r \in Buffers /\ Len(r) = 1 /\ z \in Buffers /\ Len(z) = 1 /\ s \in Buffers /\ Len(s) = 1
  <2>1. 1 \in Nat /\ 4 \in Nat
    OBVIOUS
  <2> QED
    BY <1>1, <2>1, PartsAre, HeaderIs
<1>3. PICK a, b, c, d, e, f :
        /\ a = h \o p /\ b = a \o q /\ c = b \o r /\ d = c \o z /\ e = d \o s /\ f = e \o z
  OBVIOUS
<1>4. a \in Buffers /\ Len(a) = 20 /\ Follows(a, h, 16, p)
  <2>1. h \in Buffers /\ p \in Buffers /\ a = h \o p
    BY <1>2, <1>3
  <2>2. a \in Buffers /\ Len(a) = Len(h) + Len(p) /\ Follows(a, h, Len(h), p)
    BY <2>1, PartFollows
  <2> QED
    BY <1>2, <1>3, <2>2
<1>5. b \in Buffers /\ Len(b) = 24 /\ Follows(b, a, 20, q)
  <2>1. a \in Buffers /\ q \in Buffers /\ b = a \o q
    BY <1>2, <1>3, <1>4
  <2>2. b \in Buffers /\ Len(b) = Len(a) + Len(q) /\ Follows(b, a, Len(a), q)
    BY <2>1, PartFollows
  <2> QED
    BY <1>2, <1>3, <1>4, <2>2
<1>6. c \in Buffers /\ Len(c) = 25 /\ Follows(c, b, 24, r)
  <2>1. b \in Buffers /\ r \in Buffers /\ c = b \o r
    BY <1>2, <1>3, <1>5
  <2>2. c \in Buffers /\ Len(c) = Len(b) + Len(r) /\ Follows(c, b, Len(b), r)
    BY <2>1, PartFollows
  <2> QED
    BY <1>2, <1>3, <1>5, <2>2
<1>7. d \in Buffers /\ Len(d) = 26 /\ Follows(d, c, 25, z)
  <2>1. c \in Buffers /\ z \in Buffers /\ d = c \o z
    BY <1>2, <1>3, <1>6
  <2>2. d \in Buffers /\ Len(d) = Len(c) + Len(z) /\ Follows(d, c, Len(c), z)
    BY <2>1, PartFollows
  <2> QED
    BY <1>2, <1>3, <1>6, <2>2
<1>8. e \in Buffers /\ Len(e) = 27 /\ Follows(e, d, 26, s)
  <2>1. d \in Buffers /\ s \in Buffers /\ e = d \o s
    BY <1>2, <1>3, <1>7
  <2>2. e \in Buffers /\ Len(e) = Len(d) + Len(s) /\ Follows(e, d, Len(d), s)
    BY <2>1, PartFollows
  <2> QED
    BY <1>2, <1>3, <1>7, <2>2
<1>9. f \in Buffers /\ Len(f) = 28 /\ Follows(f, e, 27, z)
  <2>1. e \in Buffers /\ z \in Buffers /\ f = e \o z
    BY <1>2, <1>3, <1>8
  <2>2. f \in Buffers /\ Len(f) = Len(e) + Len(z) /\ Follows(f, e, Len(e), z)
    BY <2>1, PartFollows
  <2> QED
    BY <1>2, <1>3, <1>8, <2>2
<1>10. header = f
  BY <1>1, <1>3 DEF FixedLenHeader
<1>11. ASSUME NEW bytes \in Buffers, Has(bytes, 0, f)
       PROVE  /\ Has(bytes, 0, h) /\ Has(bytes, 16, p) /\ Has(bytes, 20, q)
              /\ Has(bytes, 24, r) /\ Has(bytes, 26, s)
  BY <1>4, <1>5, <1>6, <1>7, <1>8, <1>9, <1>11 DEF Follows
<1> QED
  BY <1>1, <1>9, <1>10, <1>11

\* What is written of wider decimals is of the kinds that its bytes can hold.
FixedLenWritable(liquid) ==
  /\ WrittenType(liquid.type) /\ Packable(liquid.packed)
  /\ liquid.data \in Bytes /\ liquid.uncompressed \in Nat
  /\ Savable(liquid.table) /\ ReadsLike(Loaded(liquid.table), liquid.table)
  /\ liquid.offsets \in Seq(Int) /\ liquid.offsets # <<>>

\* Its values: what they are decompressed from, and where each begins.
FixedLenValues(liquid) ==
  FsstSection(liquid.table, liquid.uncompressed, liquid.data)
    \o CompactToBytes(CompactOffsets(liquid.offsets))

\* The sizes and the numbers in it fit their fields.
FixedLenFits(liquid) ==
  /\ Len(Serialize(liquid.packed)) < 2^(4 * ByteBits)
  /\ Len(FixedLenValues(liquid)) < 2^(4 * ByteBits)
  /\ liquid.uncompressed < 2^(8 * ByteBits)
  /\ CompactFits(CompactOffsets(liquid.offsets))

\* The values are read as what was written.
LEMMA FixedLenValuesAreRead ==
  ASSUME NEW liquid, FixedLenWritable(liquid), FixedLenFits(liquid),
         NEW values, values = FixedLenValues(liquid)
  PROVE  /\ values \in Buffers
         /\ \E section, compact :
              /\ ReadFsstSection(values) = {section}
              /\ section.table = Loaded(liquid.table) /\ section.data = liquid.data
              /\ section.uncompressed = liquid.uncompressed
              /\ section.rest # <<>>
              /\ CompactFromBytes(section.rest) = {compact}
              /\ OffsetsOf(compact) = liquid.offsets
<1>1. PICK t, u, d, offsets :
        /\ t = liquid.table /\ u = liquid.uncompressed /\ d = liquid.data
        /\ offsets = CompactOffsets(liquid.offsets)
  OBVIOUS
<1>2. /\ Savable(t) /\ d \in Bytes /\ u \in Nat /\ u < 2^(8 * ByteBits)
      /\ liquid.offsets \in Seq(Int) /\ liquid.offsets # <<>> /\ CompactFits(offsets)
      /\ Len(values) < 2^(4 * ByteBits)
  BY <1>1 DEF FixedLenWritable, FixedLenFits
<1>3. PICK s, rest, at, size :
        /\ s = FsstSection(t, u, d) /\ rest = CompactToBytes(offsets)
        /\ at = SymbolTableSize(Len(t.symbols)) /\ size = Len(d)
  OBVIOUS
<1>4. values = s \o rest
  BY <1>1, <1>3 DEF FixedLenValues
<1>5. s \in Buffers /\ Len(s) = at + 12 + size /\ at \in Nat /\ size \in Nat
  BY <1>2, <1>3, SectionIs
<1>6. /\ offsets.residuals \in Seq(Int) /\ Len(offsets.residuals) = Len(liquid.offsets)
      /\ offsets.width = WidthFor(offsets.residuals)
  BY <1>1, <1>2, ResidualsOfOffsets
<1>7. /\ rest \in Buffers
      /\ \E read : /\ CompactFromBytes(rest) = {read} /\ OffsetsOf(read) = OffsetsOf(offsets)
  BY <1>2, <1>3, <1>6, CompactIsRead
<1>8. PICK compact : CompactFromBytes(rest) = {compact} /\ OffsetsOf(compact) = OffsetsOf(offsets)
  BY <1>7
<1>9. OffsetsOf(compact) = liquid.offsets
  BY <1>1, <1>2, <1>8, OffsetsComeBack
<1>10. rest # <<>>
  <2>1. CompactFromBytes(<<>>) = {}
    <3>1. Len(<<>>) < 9
      OBVIOUS
    <3> QED
      BY <3>1 DEF CompactFromBytes
  <2> QED
    BY <1>8, <2>1
<1>11. values \in Buffers /\ Len(values) = Len(s) + Len(rest) /\ Len(rest) \in Nat
  BY <1>4, <1>5, <1>7, Appended
<1>12. SectionFits(u, d)
  <2>1. 2^(4 * ByteBits) \in Nat
    <3>1. 4 * ByteBits \in Nat
      BY SizesAreNumbers
    <3> QED
      BY <3>1, PowersGrow
  <2>2. size < 2^(4 * ByteBits)
    BY <1>2, <1>5, <1>11, <2>1
  <2> QED
    BY <1>2, <1>3, <2>2 DEF SectionFits
<1>13. PICK section :
         section = [table |-> Loaded(t), uncompressed |-> u, data |-> d, rest |-> rest]
  OBVIOUS
<1>14. ReadFsstSection(values) = {section}
  BY <1>2, <1>3, <1>4, <1>7, <1>12, <1>13, SectionIsRead
<1>15. /\ section.table = Loaded(t) /\ section.uncompressed = u /\ section.data = d
       /\ section.rest = rest
  BY <1>13
<1> QED
  BY <1>1, <1>8, <1>9, <1>10, <1>11, <1>14, <1>15

\* A part that a buffer has is what is cut out at its place.
LEMMA PartIsCut ==
  ASSUME NEW bytes \in Buffers, NEW part \in Buffers, NEW offset \in Nat, Has(bytes, offset, part)
  PROVE  SectionAt(bytes, offset, Len(part)) = {part}
<1>1. Len(part) \in Nat /\ Len(bytes) \in Nat
  BY DEF Buffers
<1>2. ~(offset + Len(part) > Len(bytes))
  BY <1>1 DEF Has
<1>3. SubSeq(bytes, offset + 1, offset + Len(part)) = part
  BY <1>1, CutOut DEF Buffers
<1> QED
  BY <1>2, <1>3 DEF SectionAt

\* Where the parts of the bytes of wider decimals are.
LEMMA FixedLenBytesAre ==
  ASSUME NEW header \in Buffers, Len(header) = 28, NEW keys \in Buffers, NEW values \in Buffers,
         NEW bytes, bytes = Aligned(header \o keys) \o values
  PROVE  /\ bytes \in Buffers /\ Len(bytes) \in Nat /\ Len(bytes) >= 28
         /\ Has(bytes, 0, header) /\ Has(bytes, 28, keys)
         /\ Align8(28 + Len(keys)) \in Nat /\ Has(bytes, Align8(28 + Len(keys)), values)
<1>1. PICK front, padded, at :
        front = header \o keys /\ padded = Aligned(front) /\ at = Align8(28 + Len(keys))
  OBVIOUS
<1>2. front \in Buffers /\ Len(front) = 28 + Len(keys) /\ Len(keys) \in Nat
      /\ Follows(front, header, 28, keys)
  <2>1. front \in Buffers /\ Len(front) = Len(header) + Len(keys)
        /\ Follows(front, header, Len(header), keys)
    BY <1>1, PartFollows
  <2> QED
    BY <2>1, Appended
<1>3. PICK pad : pad = Zeros(Align8(Len(front)) - Len(front))
  OBVIOUS
<1>4. /\ padded = front \o pad /\ padded \in Buffers /\ Len(padded) = at /\ at \in Nat
      /\ Len(front) <= at /\ pad \in Buffers
  <2>1. /\ Align8(Len(front)) \in Nat /\ Len(front) <= Align8(Len(front))
        /\ Align8(Len(front)) - Len(front) \in Nat
        /\ Aligned(front) = front \o Zeros(Align8(Len(front)) - Len(front))
        /\ Aligned(front) \in Buffers /\ Len(Aligned(front)) = Align8(Len(front))
    BY <1>2, AlignedIs
  <2>2. pad \in Buffers
    BY <1>3, <2>1, PartsAre
  <2>3. Align8(Len(front)) = at
    BY <1>1, <1>2
  <2> QED
    BY <1>1, <1>3, <2>1, <2>2, <2>3
<1>5. Follows(padded, front, Len(front), pad)
  BY <1>2, <1>4, PartFollows
<1>6. /\ bytes \in Buffers /\ Len(bytes) = at + Len(values) /\ Len(values) \in Nat
      /\ Follows(bytes, padded, at, values)
  <2>1. /\ bytes \in Buffers /\ Len(bytes) = Len(padded) + Len(values)
        /\ Follows(bytes, padded, Len(padded), values)
    BY <1>1, <1>4, PartFollows
  <2> QED
    BY <1>4, <2>1, Appended
<1>7. Has(bytes, 0, padded) /\ Has(bytes, at, values)
  BY <1>6, HasItself DEF Follows
<1>8. Has(bytes, 0, header) /\ Has(bytes, 28, keys)
  BY <1>2, <1>5, <1>6, <1>7 DEF Follows
<1>9. Len(bytes) \in Nat /\ Len(bytes) >= 28
  BY <1>2, <1>4, <1>6
<1> QED
  BY <1>1, <1>4, <1>6, <1>7, <1>8, <1>9

\* from_bytes of what to_bytes has written of wider decimals: their type, their
\* keys, and what the entries are decompressed from.
THEOREM FixedLenBytesRestore ==
  ASSUME NEW liquid, FixedLenWritable(liquid), FixedLenFits(liquid),
         NEW bytes, bytes = FixedLenToBytes(liquid)
  PROVE  /\ ReadHeader(bytes) = {[logical |-> LogicalId("FixedLenByteArray"),
                                  physical |-> PhysicalId("UInt16")]}
         /\ \E copy : /\ FixedLenFromBytes(bytes) = {copy} /\ FixedLenKept(copy, liquid)
                      /\ copy.type = liquid.type /\ copy.packed = liquid.packed
<1>1. PICK t, packed, keys, values, k :
        /\ t = liquid.type /\ packed = liquid.packed
        /\ keys = Serialize(packed) /\ values = FixedLenValues(liquid)
        /\ k = IF t.id = "Decimal128" THEN 0 ELSE 1
  OBVIOUS
<1>2. PICK header : header = FixedLenHeader(Len(keys), Len(values), k, t.scale)
  OBVIOUS
<1>3. bytes = Aligned(header \o keys) \o values
  BY <1>1, <1>2 DEF FixedLenToBytes, FixedLenHeader, FixedLenValues
<1>4. WrittenType(t) /\ Packable(packed)
  BY <1>1 DEF FixedLenWritable
<1>5. keys \in Buffers /\ Deserialize(keys) = {packed} /\ Len(keys) \in Nat
  <2>1. keys \in Buffers /\ Deserialize(keys) = {packed}
    BY <1>1, <1>4, SerializedIs, PackedBytesRestore
  <2> QED
    BY <2>1 DEF Buffers
<1>6. values \in Buffers /\ Len(values) \in Nat
  <2>1. values \in Buffers
    BY <1>1, FixedLenValuesAreRead
  <2> QED
    BY <2>1 DEF Buffers
<1>7. PICK section, compact :
        /\ ReadFsstSection(values) = {section}
        /\ section.table = Loaded(liquid.table) /\ section.data = liquid.data
        /\ section.uncompressed = liquid.uncompressed
        /\ section.rest # <<>>
        /\ CompactFromBytes(section.rest) = {compact}
        /\ OffsetsOf(compact) = liquid.offsets
  BY <1>1, FixedLenValuesAreRead
<1>8. /\ header \in Buffers /\ Len(header) = 28
      /\ \A b \in Buffers : Has(b, 0, header) =>
           /\ Has(b, 0, Header("FixedLenByteArray", "UInt16"))
           /\ Has(b, 16, Field(Len(keys), 4)) /\ Has(b, 20, Field(Len(values), 4))
           /\ Has(b, 24, Field(k, 1)) /\ Has(b, 26, Field(t.scale, 1))
  BY <1>2, FixedLenHeaderIs
<1>9. PICK at : at = Align8(28 + Len(keys))
  OBVIOUS
<1>10. /\ bytes \in Buffers /\ Len(bytes) \in Nat /\ Len(bytes) >= 28
       /\ Has(bytes, 0, header) /\ Has(bytes, 28, keys) /\ at \in Nat /\ Has(bytes, at, values)
  BY <1>3, <1>5, <1>6, <1>8, <1>9, FixedLenBytesAre
<1>11. /\ Has(bytes, 0, Header("FixedLenByteArray", "UInt16"))
       /\ Has(bytes, 16, Field(Len(keys), 4)) /\ Has(bytes, 20, Field(Len(values), 4))
       /\ Has(bytes, 24, Field(k, 1)) /\ Has(bytes, 26, Field(t.scale, 1))
  BY <1>8, <1>10
<1>12. /\ ReadHeader(bytes) = {[logical |-> LogicalId("FixedLenByteArray"),
                                physical |-> PhysicalId("UInt16")]}
       /\ IsOfType(bytes, "FixedLenByteArray")
  <2>1. "FixedLenByteArray" \in Logicals /\ "UInt16" \in Physicals
    BY DEF Logicals, LiquidDataTypes, Physicals, PhysicalTypes
  <2> QED
    BY <1>10, <1>11, <2>1, HeaderIsRead
<1>13. FieldAt(bytes, 16, 4) = Len(keys) /\ FieldAt(bytes, 20, 4) = Len(values)
  <2>1. Len(keys) < 2^(4 * ByteBits) /\ Len(values) < 2^(4 * ByteBits) /\ 4 \in Nat
    BY <1>1 DEF FixedLenFits
  <2> QED
    BY <1>5, <1>6, <1>11, <2>1, NumberIsFound
<1>14. (IF FieldAt(bytes, 24, 1) = 0 THEN "Decimal128" ELSE "Decimal256") = t.id
  BY <1>1, <1>4, <1>11, DecimalTypeIsRead DEF WrittenType
<1>15. SignedAt(bytes, 26, 1) = t.scale
  <2>1. 1 \in Nat \ {0} /\ InBytes(t.scale, 1)
    BY <1>4 DEF WrittenType
  <2> QED
    BY <1>11, <2>1, SignedIsFound
<1>16. SectionAt(bytes, 28, Len(keys)) = {keys} /\ SectionAt(bytes, at, Len(values)) = {values}
  <2>1. 28 \in Nat
    OBVIOUS
  <2> QED
    BY <1>5, <1>6, <1>10, <2>1, PartIsCut
<1>17. /\ UNION {Deserialize(s) : s \in {keys}} = {packed}
       /\ UNION {ReadFsstSection(s) : s \in {values}} = {section}
  BY <1>5, <1>7
<1>18. {OffsetsOf(c) : c \in CompactFromBytes(section.rest)} = {liquid.offsets}
  BY <1>7
<1>19. PICK copy :
         copy = [type |-> [id |-> t.id, zoned |-> FALSE, scale |-> t.scale],
                 table |-> section.table, packed |-> packed, data |-> section.data,
                 uncompressed |-> section.uncompressed, offsets |-> liquid.offsets]
  OBVIOUS
<1> DEFINE kind == [id |-> IF FieldAt(bytes, 24, 1) = 0 THEN "Decimal128" ELSE "Decimal256",
                    zoned |-> FALSE, scale |-> SignedAt(bytes, 26, 1)]
           read(p, w) ==
             {[type |-> kind, table |-> w.table, packed |-> p, data |-> w.data,
               uncompressed |-> w.uncompressed, offsets |-> offsets] :
                 offsets \in IF w.rest = <<>> THEN {<<>>}
                             ELSE {OffsetsOf(c) : c \in CompactFromBytes(w.rest)}}
<1>20. FixedLenFromBytes(bytes) = {copy}
  <2>1. ~(Len(bytes) < 28 \/ ~IsOfType(bytes, "FixedLenByteArray"))
    BY <1>10, <1>12
  <2>2. FixedLenFromBytes(bytes)
          = UNION {read(p, w) :
              p \in UNION {Deserialize(s) : s \in SectionAt(bytes, 28, FieldAt(bytes, 16, 4))},
              w \in UNION {ReadFsstSection(s) :
                       s \in SectionAt(bytes, Align8(28 + FieldAt(bytes, 16, 4)),
                                       FieldAt(bytes, 20, 4))}}
    BY <2>1 DEF FixedLenFromBytes
  <2>3. kind = [id |-> t.id, zoned |-> FALSE, scale |-> t.scale]
    BY <1>14, <1>15
  <2>4. PICK offsetsRead : offsetsRead = IF section.rest = <<>> THEN {<<>>}
                             ELSE {OffsetsOf(c) : c \in CompactFromBytes(section.rest)}
    OBVIOUS
  <2>5. offsetsRead = {liquid.offsets}
    BY <1>7, <1>18, <2>4
  <2> HIDE DEF kind
  <2>6. read(packed, section) = {copy}
    BY <1>19, <2>3, <2>4, <2>5
  <2> HIDE DEF read
  <2>7. /\ UNION {Deserialize(s) : s \in SectionAt(bytes, 28, FieldAt(bytes, 16, 4))} = {packed}
        /\ UNION {ReadFsstSection(s) :
                    s \in SectionAt(bytes, Align8(28 + FieldAt(bytes, 16, 4)), FieldAt(bytes, 20, 4))}
             = {section}
    BY <1>9, <1>13, <1>16, <1>17
  <2>8. FixedLenFromBytes(bytes) = UNION {read(p, w) : p \in {packed}, w \in {section}}
    BY <2>2, <2>7
  <2> QED
    BY <2>6, <2>8
<1>21. copy.type = liquid.type /\ copy.packed = liquid.packed
  BY <1>1, <1>4, <1>19 DEF WrittenType
<1>22. FixedLenKept(copy, liquid)
  BY <1>7, <1>19 DEF FixedLenKept, FixedLenWritable
<1> QED
  BY <1>12, <1>20, <1>21, <1>22

\* What is kept of wider decimals can be written.
LEMMA WideDecimalsAreWritable ==
  ASSUME NEW t, WrittenType(t), NEW a, WideSlice(a, ValueWidth(t.id)),
         a.offset = 0 \/ NullCount(a) = 0, Cardinality(ValuesOf(a)) <= 2^KeyBits,
         Length(a) \in 0 .. MaxLength, NEW liquid, liquid = FixedLenFromDecimal(a, t, {})
  PROVE  FixedLenWritable(liquid)
<1>1. PICK width, h : width = ValueWidth(t.id) /\ h = 2^(width * ByteBits - 1)
  OBVIOUS
<1>2. width \in Nat \ {0} /\ width \in 1 .. ValueWidth(t.id)
  BY <1>1, SizesAreNumbers DEF ValueWidth
<1>3. h \in Nat
  BY <1>1, <1>2, WidthsAre
<1>4. PICK dict, strings : dict = DictionaryOf(a) /\ strings = FieldsAsStrings(dict, width)
  OBVIOUS
<1>5. Lists(dict, ValuesOf(a))
  BY <1>1, <1>3, <1>4, DictionaryOfDecimals
<1>6. PICK n \in Nat : /\ DOMAIN dict = 1 .. n /\ Len(dict) = n
                       /\ \A d \in 1 .. n : dict[d] \in Int /\ -h <= dict[d] /\ dict[d] < h
  BY <1>1, <1>3, <1>4, DictionaryOfDecimals
<1>7. strings \in Seq(Bytes) /\ Len(strings) = n
  <2>1. n \in Nat /\ width \in Nat \ {0} /\ h = 2^(width * ByteBits - 1)
    BY <1>1, <1>2
  <2> QED
    BY <1>4, <1>6, <2>1, WholeFieldsAreStrings
<1>8. PICK flat, table : flat = Seqs!FlattenSeq(strings) /\ table = Train(flat)
  OBVIOUS
<1>9. FixedLenTable(flat, {}) = table
  BY <1>8 DEF FixedLenTable
<1>10. flat \in Bytes
  BY <1>7, <1>8, FlattenedIsSeq DEF Bytes
<1>11. Savable(table) /\ Learned(table) /\ ReadsLike(Loaded(table), table)
  BY <1>8, <1>10, TrainedIsSavable
<1>12. /\ TableOK(table) /\ strings \in Seq(Seq(Nat))
       /\ \A d \in 1 .. Len(strings) : Safe(table, strings[d])
  <2>1. AllSafe(table, strings)
    BY <1>11, LearnedIsSafe
  <2> QED
    BY <1>7, <2>1, StringsAreNumbers DEF AllSafe
<1>13. PICK compressed : compressed = CompressEach(table, strings)
  OBVIOUS
<1>14. compressed.data \in Bytes
  BY <1>7, <1>12, <1>13, DataAreBytes
<1>15. compressed.offsets \in Seq(Int) /\ compressed.offsets # <<>>
  BY <1>12, <1>13, EachRestores
<1>16. PICK packed : packed = PackKeys(a, dict)
  OBVIOUS
<1>17. Packable(packed)
  <2>1. KeyWidth(dict, KeyBits) \in 0 .. WordBits
    BY <1>5, KeyWidthIs
  <2>2. ByteSlice(a)
    BY DEF WideSlice
  <2> QED
    BY <1>16, <2>1, <2>2, FromStartIsPackable DEF PackKeys
<1>18. liquid = FixedLenOf(t, strings, packed, {})
  BY <1>1, <1>4, <1>16 DEF FixedLenFromDecimal, FieldsAsStrings
<1>19. /\ liquid.type = t /\ liquid.table = table /\ liquid.packed = packed
       /\ liquid.data = compressed.data /\ liquid.offsets = compressed.offsets
       /\ liquid.uncompressed = n * width
  BY <1>1, <1>7, <1>8, <1>9, <1>13, <1>18 DEF FixedLenOf
<1>20. n * width \in Nat
  BY <1>2
<1> QED
  BY <1>11, <1>14, <1>15, <1>17, <1>19, <1>20 DEF FixedLenWritable

\* Wider decimals come back from their bytes, if these fit their fields.
LEMMA WideDecimalsDecode ==
  ASSUME NEW t, WrittenType(t), NEW a, WideSlice(a, ValueWidth(t.id)),
         a.offset = 0 \/ NullCount(a) = 0, Cardinality(ValuesOf(a)) <= 2^KeyBits,
         Length(a) \in 0 .. MaxLength, FixedLenFits(FixedLenFromDecimal(a, t, {}))
  PROVE  DecodesTo(FixedLenToBytes(FixedLenFromDecimal(a, t, {})), t, a)
<1>1. PICK liquid, bytes : liquid = FixedLenFromDecimal(a, t, {}) /\ bytes = FixedLenToBytes(liquid)
  OBVIOUS
<1>2. PICK width, entries : width = ValueWidth(t.id) /\ entries = FixedLenEntries(liquid)
  OBVIOUS
<1>3. FixedLenWritable(liquid) /\ FixedLenFits(liquid)
  BY <1>1, WideDecimalsAreWritable
<1>4. /\ ReadHeader(bytes) = {[logical |-> LogicalId("FixedLenByteArray"),
                               physical |-> PhysicalId("UInt16")]}
      /\ \E copy : /\ FixedLenFromBytes(bytes) = {copy} /\ FixedLenKept(copy, liquid)
                   /\ copy.type = liquid.type /\ copy.packed = liquid.packed
  BY <1>1, <1>3, FixedLenBytesRestore
<1>5. PICK copy : /\ FixedLenFromBytes(bytes) = {copy} /\ FixedLenKept(copy, liquid)
                  /\ copy.type = liquid.type /\ copy.packed = liquid.packed
  BY <1>4
<1>6. DecodeLiquidArray(bytes) = DecodeAs(bytes, "FixedLenByteArray", "UInt16")
  <2>1. "FixedLenByteArray" \in Logicals /\ "UInt16" \in Physicals
    BY DEF Logicals, LiquidDataTypes, Physicals, PhysicalTypes
  <2> QED
    BY <1>4, <2>1, HeaderDecides
<1>7. DecodeAs(bytes, "FixedLenByteArray", "UInt16") = {FixedLenToArrow(copy)}
  BY <1>5 DEF DecodeAs
<1>8. liquid.type = t /\ FixedLenEntries(copy) = entries
  <2>1. width \in 1 .. ValueWidth(t.id)
    BY <1>2, SizesAreNumbers DEF ValueWidth
  <2>2. WideSlice(a, width) /\ t.id \in Decimals
    BY <1>2 DEF WrittenType
  <2>3. Trainable({})
    BY DEF Trainable
  <2> QED
    BY <1>1, <1>2, <1>5, <2>1, <2>2, <2>3, WideDecimalsAre
<1>9. FixedLenToArrow(copy) = FixedLenToArrow(liquid) /\ FixedLenToArrow(liquid).type = t
  BY <1>2, <1>5, <1>8 DEF FixedLenToArrow, DecodedAs
<1>10. Restores(FixedLenToArrow(liquid).slots, a)
  <2>1. t.id \in Decimals /\ Trainable({})
    BY DEF WrittenType, Trainable
  <2> QED
    BY <1>1, <2>1, WideDecimalsRestore
<1> QED
  BY <1>1, <1>6, <1>7, <1>9, <1>10 DEF DecodesTo

\* A slice of decimals of type t whose scale, and whose dictionary and keys if
\* some of them have more than a word, fit the fields of the bytes, and which
\* is not longer than a packed array may be.
DecimalBytesFit(t, a) ==
  /\ Length(a) \in 0 .. MaxLength
  /\ InBytes(t.scale, 1)
  /\ ~FitsU64(a) => FixedLenFits(FixedLenFromDecimal(a, t, {}))

\* What transcode_arrow_array writes of a column of decimals is read back.
LEMMA DecimalColumnsDecode ==
  ASSUME ColumnFits, IsDecimal, NEW t \in ArrowTypes, NEW a \in ByteSlices,
         Sliceable(a), Numberable(a), DecimalBytesFit(t, a)
  PROVE  DecodesTo(TranscodeArrowArray(t, a), PlainType(t), a)
<1>1. t.id \in Decimals /\ t.id \notin StringTypes /\ t.id \notin FloatTypes /\ ~t.zoned
  BY TypesOfDecimals
<1>2. WrittenType(t)
  <2>1. t \in [id : Decimals, zoned : {FALSE}, scale : {-1, 2}]
    BY DEF ArrowTypes
  <2> QED
    BY <2>1 DEF WrittenType, DecimalBytesFit
<1>3. (a.offset = 0 \/ NullCount(a) = 0) /\ Cardinality(ValuesOf(a)) <= 2^KeyBits
  BY DEF Sliceable, Numberable
<1>4. DecimalSlice(a) /\ WideSlice(a, ValueWidth(t.id))
  BY <1>1, DecimalColumns
<1>5. Length(a) \in 0 .. MaxLength
  BY DEF DecimalBytesFit
<1>6. Supported(t) /\ t.id \notin Timestamps
  BY <1>1 DEF Supported, Decimals, Timestamps
<1>7. PlainType(t) = t
  BY DEF PlainType, IsDecimal, IsString
<1>8. CASE FitsU64(a)
  <2>1. Logical(t, a) = "Decimal"
    BY <1>1, <1>8 DEF Logical
  <2>2. TranscodeArrowArray(t, a) = DecimalToBytes(DecimalFromArrow(a, t))
    BY <1>6, <2>1 DEF TranscodeArrowArray, Encode
  <2> QED
    BY <1>2, <1>3, <1>4, <1>5, <1>7, <1>8, <2>2, WordDecimalsDecode
<1>9. CASE ~FitsU64(a)
  <2>1. Logical(t, a) = "FixedLenByteArray"
    BY <1>1, <1>9 DEF Logical
  <2>2. TranscodeArrowArray(t, a) = FixedLenToBytes(FixedLenFromDecimal(a, t, {}))
    BY <1>6, <2>1 DEF TranscodeArrowArray, Encode
  <2>3. FixedLenFits(FixedLenFromDecimal(a, t, {}))
    BY <1>9 DEF DecimalBytesFit
  <2> QED
    BY <1>2, <1>3, <1>4, <1>5, <1>7, <2>2, <2>3, WideDecimalsDecode
<1> QED
  BY <1>8, <1>9

\* What is written of the column's strings or decimals fits its fields.
ColumnBytesFit ==
  \A t \in ArrowTypes, a \in ByteSlices :
    (Sliceable(a) /\ Numberable(a)) =>
      /\ IsString => StringBytesFit(a)
      /\ IsDecimal => DecimalBytesFit(t, a)

\* What transcode_arrow_array writes of a column, of any type, and what is
\* written of a linear model, decode_liquid_array reads back, if the lengths,
\* the sizes of dictionaries and the scale fit the fields they are written in;
\* integers and floats always do.
THEOREM ColumnsRestoreFromBytes == Spec => [](ColumnBytesFit => BytesRestore)
<1>1. ASSUME ColumnFits, IsString \/ IsDecimal, ColumnBytesFit,
             NEW t \in ArrowTypes, NEW a \in ByteSlices, Sliceable(a), Numberable(a)
      PROVE  DecodesTo(TranscodeArrowArray(t, a), PlainType(t), a)
  <2>1. CASE IsString
    <3>1. StringBytesFit(a)
      BY <1>1, <2>1 DEF ColumnBytesFit
    <3> QED
      BY <1>1, <2>1, <3>1, StringColumnsDecode
  <2>2. CASE IsDecimal
    <3>1. DecimalBytesFit(t, a)
      BY <1>1, <2>2 DEF ColumnBytesFit
    <3> QED
      BY <1>1, <2>2, <3>1, DecimalColumnsDecode
  <2> QED
    BY <1>1, <2>1, <2>2
<1>2. IsString \/ IsDecimal => ~IsInteger
  BY DEF IsString, IsDecimal, IsInteger
<1>3. ColumnFits => (IsString \/ IsDecimal => (ColumnBytesFit => BytesRestore))
  BY <1>1, <1>2 DEF BytesRestore
<1>4. ColumnFits => ((IsInteger \/ IsFloat) \/ (IsString \/ IsDecimal))
  BY KindsAre
<1> QED
  BY <1>3, <1>4, ColumnStaysFit, NumbersRestoreFromBytes, PTL DEF Spec
=============================================================================
