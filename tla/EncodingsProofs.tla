-------------------------- MODULE EncodingsProofs --------------------------
(***************************************************************************)
(* Theorems about the encodings, for types, arrays and chunks of any size: *)
(* what BitPackedArray unpacks is what it packed, and what an encoder of   *)
(* numbers stores is what every reader of it gets back, or is told of it.  *)
(***************************************************************************)
EXTENDS Encodings, FiniteSetTheorems, WellFoundedInduction, TLAPS

-----------------------------------------------------------------------------
(* Numbers.                                                                *)

\* Quotient and remainder.
LEMMA Division ==
  ASSUME NEW a \in Int, NEW d \in Nat \ {0}
  PROVE  /\ a \div d \in Int
         /\ a % d \in 0 .. d - 1
         /\ a = (a \div d) * d + (a % d)
OBVIOUS

\* The quotient of a natural number is one.
LEMMA QuotientIsNat ==
  ASSUME NEW a \in Nat, NEW d \in Nat \ {0}
  PROVE  a \div d \in Nat
OBVIOUS

\* Multiples of a size grow with their factor.
LEMMA Grows ==
  ASSUME NEW d \in Nat, NEW a \in Int, NEW b \in Int, a <= b
  PROVE  a * d \in Int /\ b * d \in Int /\ a * d <= b * d
OBVIOUS

\* Numbers before the end of a block are in the block or before it.
LEMMA BlockOf ==
  ASSUME NEW d \in Nat, NEW a \in Int, NEW b \in Int, a < b
  PROVE  a * d + d <= b * d
<1>1. (a + 1) * d <= b * d
  BY Grows
<1>2. (a + 1) * d = a * d + d
  OBVIOUS
<1> QED
  BY <1>1, <1>2

\* A number is in one block only.
LEMMA OneBlock ==
  ASSUME NEW d \in Nat, NEW a \in Int, NEW b \in Int,
         NEW x \in 0 .. d - 1, NEW y \in 0 .. d - 1, a * d + x = b * d + y
  PROVE  a = b /\ x = y
<1>1. a * d \in Int /\ b * d \in Int
  OBVIOUS
<1>2. ~(a < b)
  BY <1>1, BlockOf
<1>3. ~(b < a)
  BY <1>1, BlockOf
<1> QED
  BY <1>1, <1>2, <1>3

\* CeilDiv counts the blocks that begin before the end.
LEMMA CeilDivCounts ==
  ASSUME NEW a \in Nat, NEW d \in Nat \ {0}
  PROVE  /\ CeilDiv(a, d) \in Nat
         /\ \A k \in Int : k < CeilDiv(a, d) <=> k * d < a
<1> DEFINE c == CeilDiv(a, d)
           r == (a + d - 1) % d
<1>1. /\ c \in Int /\ r \in 0 .. d - 1
      /\ a + d - 1 = c * d + r
  <2> DEFINE e == a + d - 1
  <2>1. e \in Int
    OBVIOUS
  <2> HIDE DEF e
  <2>2. /\ e \div d \in Int /\ e % d \in 0 .. d - 1
        /\ e = (e \div d) * d + (e % d)
    BY <2>1, Division
  <2> QED
    BY <2>2 DEF e, CeilDiv
<1>2. c \in Nat
  BY QuotientIsNat DEF CeilDiv
<1> HIDE DEF c, r
<1>3. ASSUME NEW k \in Int, k < c PROVE k * d < a
  <2>1. k * d \in Int /\ c * d \in Int /\ k * d + d <= c * d
    BY <1>1, <1>3, BlockOf
  <2> QED
    BY <1>1, <2>1
<1>4. ASSUME NEW k \in Int, ~(k < c) PROVE ~(k * d < a)
  <2>1. k * d \in Int /\ c * d \in Int /\ c * d <= k * d
    BY <1>1, <1>4, Grows
  <2> QED
    BY <1>1, <2>1
<1> QED
  BY <1>2, <1>3, <1>4 DEF c

-----------------------------------------------------------------------------
(* Sets of bits.                                                           *)

\* The sizes are numbers.
LEMMA SizesAreNumbers ==
  /\ ByteBits \in Nat \ {0} /\ WordBytes \in Nat \ {0} /\ ChunkBytes \in Nat \ {0}
  /\ WordBits \in Nat \ {0}
  /\ WordBits = WordBytes * ByteBits
BY SizesAssumption DEF WordBits

\* Masks and shifts, bit by bit.
LEMMA ShiftedBits ==
  ASSUME NEW s \in SUBSET Int, NEW n \in Int, NEW b \in Int
  PROVE  /\ b \in Low(s, n) <=> b \in 0 .. n - 1 /\ b \in s
         /\ b \in ShiftLeft(s, n) <=> b \in 0 .. WordBits - 1 /\ b - n \in s
         /\ b \in ShiftRight(s, n) <=> 0 <= b /\ b + n \in s
         /\ Low(s, n) \in SUBSET Nat
         /\ ShiftLeft(s, n) \in SUBSET Nat
         /\ ShiftRight(s, n) \in SUBSET Nat
<1>1. b \in Low(s, n) <=> b \in 0 .. n - 1 /\ b \in s
  BY DEF Low
<1>2. b \in ShiftLeft(s, n) <=> b \in 0 .. WordBits - 1 /\ b - n \in s
  <2>1. b \in {c + n : c \in s} <=> b - n \in s
    <3>1. ASSUME b - n \in s PROVE b \in {c + n : c \in s}
      <4>1. b = (b - n) + n
        OBVIOUS
      <4> QED
        BY <3>1, <4>1
    <3>2. ASSUME NEW c \in s, b = c + n PROVE b - n \in s
      <4>1. b - n = c
        BY <3>2
      <4> QED
        BY <4>1
    <3> QED
      BY <3>1, <3>2
  <2> QED
    BY <2>1 DEF ShiftLeft, Low
<1>3. b \in ShiftRight(s, n) <=> 0 <= b /\ b + n \in s
  <2>1. ASSUME 0 <= b, b + n \in s PROVE b \in ShiftRight(s, n)
    <3>1. b = (b + n) - n /\ b + n >= n
      BY <2>1
    <3> QED
      BY <2>1, <3>1 DEF ShiftRight
  <2>2. ASSUME NEW c \in s, c >= n, b = c - n PROVE 0 <= b /\ b + n \in s
    <3>1. b + n = c
      BY <2>2
    <3> QED
      BY <2>2, <3>1
  <2> QED
    BY <2>1, <2>2 DEF ShiftRight
<1>4. Low(s, n) \in SUBSET Nat /\ ShiftLeft(s, n) \in SUBSET Nat
  BY DEF Low, ShiftLeft
<1>5. ShiftRight(s, n) \in SUBSET Nat
  BY DEF ShiftRight
<1> QED
  BY <1>1, <1>2, <1>3, <1>4, <1>5

\* A byte of a word.
LEMMA ByteBitsOf ==
  ASSUME NEW s \in SUBSET Int, NEW k \in Int, NEW b \in Int
  PROVE  /\ b \in ByteOf(s, k) <=> b \in 0 .. ByteBits - 1 /\ k * ByteBits + b \in s
         /\ ByteOf(s, k) \in SUBSET (0 .. ByteBits - 1)
<1> DEFINE n == k * ByteBits
<1>1. n \in Int /\ ByteBits \in Int
  BY SizesAreNumbers
<1>2. ByteOf(s, k) = Low(ShiftRight(s, n), ByteBits)
  BY DEF ByteOf
<1> HIDE DEF n
<1>3. /\ ShiftRight(s, n) \in SUBSET Int
      /\ b \in ShiftRight(s, n) <=> 0 <= b /\ b + n \in s
  BY <1>1, ShiftedBits
<1>4. b + n = n + b
  BY <1>1
<1>5. b \in ByteOf(s, k) <=> b \in 0 .. ByteBits - 1 /\ n + b \in s
  BY <1>1, <1>2, <1>3, <1>4, ShiftedBits
<1>6. ByteOf(s, k) \in SUBSET (0 .. ByteBits - 1)
  BY <1>2 DEF Low
<1> QED
  BY <1>5, <1>6 DEF n

\* A word has the bits of its bytes.
LEMMA BitsOfByte ==
  ASSUME NEW k \in Int, NEW b \in 0 .. ByteBits - 1
  PROVE  /\ k * ByteBits \in Int
         /\ k \in 0 .. WordBytes - 1 <=> k * ByteBits + b \in 0 .. WordBits - 1
<1>1. /\ WordBytes \in Int /\ WordBits \in Int /\ WordBits = WordBytes * ByteBits
      /\ ByteBits \in Nat /\ 0 * ByteBits = 0 /\ k * ByteBits \in Int
  BY SizesAreNumbers
<1>2. ASSUME k < 0 PROVE k * ByteBits + b < 0
  <2>1. k * ByteBits + ByteBits <= 0
    BY <1>1, <1>2, BlockOf
  <2> QED
    BY <1>1, <2>1
<1>3. ASSUME k >= 0 PROVE k * ByteBits >= 0
  BY <1>1, <1>3, Grows
<1>4. ASSUME k < WordBytes PROVE k * ByteBits + b < WordBits
  <2>1. k * ByteBits + ByteBits <= WordBits
    BY <1>1, <1>4, BlockOf
  <2> QED
    BY <1>1, <2>1
<1>5. ASSUME k >= WordBytes PROVE k * ByteBits >= WordBits
  BY <1>1, <1>5, Grows
<1> QED
  BY <1>1, <1>2, <1>3, <1>4, <1>5

-----------------------------------------------------------------------------
(* Packing.                                                                *)

\* Byte c of an element that begins at bit `shift` of byte 0.
ByteOfElement(val, shift, width, c) ==
  LET needed == CeilDiv(shift + width, ByteBits)
      spans  == shift > 0 /\ shift + width > WordBits
  IN  IF c \in 0 .. Smaller(WordBytes, needed) - 1
      THEN ByteOf(ShiftLeft(val, shift), c)
      ELSE IF spans /\ c \in WordBytes .. needed - 1
      THEN ByteOf(ShiftRight(val, WordBits - shift), c - WordBytes)
      ELSE {}

\* Each of them has the element's bits that fall into it, be it one of the
\* word or after its end.
LEMMA ElementInByte ==
  ASSUME NEW width \in 0 .. WordBits, NEW val \in SUBSET (0 .. width - 1),
         NEW shift \in 0 .. ByteBits - 1, NEW c \in Int, NEW b \in 0 .. ByteBits - 1
  PROVE  b \in ByteOfElement(val, shift, width, c) <=> c * ByteBits + b - shift \in val
<1> DEFINE at == c * ByteBits
           end == shift + width
           needed == CeilDiv(end, ByteBits)
           spans == shift > 0 /\ end > WordBits
           byte == ByteOfElement(val, shift, width, c)
<1>0. byte = IF c \in 0 .. Smaller(WordBytes, needed) - 1
             THEN ByteOf(ShiftLeft(val, shift), c)
             ELSE IF spans /\ c \in WordBytes .. needed - 1
             THEN ByteOf(ShiftRight(val, WordBits - shift), c - WordBytes)
             ELSE {}
  BY DEF ByteOfElement
<1> HIDE DEF byte
<1>1. /\ at \in Int /\ end \in Nat
      /\ WordBytes \in Nat /\ WordBits \in Nat /\ ByteBits \in Nat \ {0}
      /\ WordBits = WordBytes * ByteBits
  BY SizesAreNumbers
<1>2. c \in 0 .. WordBytes - 1 <=> at + b \in 0 .. WordBits - 1
  BY BitsOfByte
<1>3. needed \in Nat /\ (c < needed <=> at < end) /\ (WordBytes < needed <=> WordBits < end)
  <2>1. /\ CeilDiv(end, ByteBits) \in Nat
        /\ \A k \in Int : k < CeilDiv(end, ByteBits) <=> k * ByteBits < end
    <3> HIDE DEF end
    <3> QED
      BY <1>1, CeilDivCounts
  <2> QED
    BY <1>1, <2>1
<1> HIDE DEF needed
<1>4. c < 0 => at + b < 0
  <2> SUFFICES ASSUME c < 0 PROVE at + ByteBits <= 0
    BY <1>1
  <2> 0 * ByteBits = 0
    BY <1>1
  <2> QED
    BY <1>1, BlockOf
<1>5. ASSUME c \in 0 .. Smaller(WordBytes, needed) - 1
      PROVE  b \in byte <=> at + b - shift \in val
  <2>1. byte = ByteOf(ShiftLeft(val, shift), c) /\ c \in 0 .. WordBytes - 1
    BY <1>0, <1>1, <1>3, <1>5 DEF Smaller
  <2>2. val \in SUBSET Int /\ ShiftLeft(val, shift) \in SUBSET Int
    BY <1>1, ShiftedBits
  <2>3. b \in byte <=> at + b \in ShiftLeft(val, shift)
    BY <2>1, <2>2, ByteBitsOf
  <2>4. at + b \in Int /\ shift \in Int
    BY <1>1
  <2> HIDE DEF at
  <2>5. at + b \in ShiftLeft(val, shift) <=> at + b \in 0 .. WordBits - 1 /\ at + b - shift \in val
    <3>1. \A p \in Int : p \in ShiftLeft(val, shift)
                           <=> p \in 0 .. WordBits - 1 /\ p - shift \in val
      BY <2>2, <2>4, ShiftedBits
    <3>2. (at + b) - shift = at + b - shift
      BY <1>1
    <3> QED
      BY <2>4, <3>1, <3>2
  <2> QED
    BY <1>2, <2>1, <2>3, <2>5
<1>6. ASSUME spans, c \in WordBytes .. needed - 1
      PROVE  b \in byte <=> at + b - shift \in val
  <2> DEFINE rest == WordBits - shift
             d == c - WordBytes
  <2>1. byte = ByteOf(ShiftRight(val, rest), d)
    BY <1>0, <1>1, <1>3, <1>6 DEF Smaller
  <2>2. val \in SUBSET Int /\ ShiftRight(val, rest) \in SUBSET Int /\ d \in Int /\ rest \in Int
    BY <1>1, <1>3, <1>6, ShiftedBits
  <2>3. b \in byte <=> d * ByteBits + b \in ShiftRight(val, rest)
    BY <2>1, <2>2, ByteBitsOf
  <2>4. d * ByteBits = at - WordBits /\ d >= 0
    BY <1>1, <1>3, <1>6
  <2>5. at - WordBits >= 0
    <3>1. 0 * ByteBits = 0
      BY <1>1
    <3>2. 0 * ByteBits <= d * ByteBits
      BY <1>1, <2>2, <2>4, Grows
    <3> QED
      BY <2>4, <3>1, <3>2
  <2> HIDE DEF at, rest, d
  <2>6. at - WordBits + b \in ShiftRight(val, rest)
          <=> 0 <= at - WordBits + b /\ at - WordBits + b + rest \in val
    BY <1>1, <2>2, ShiftedBits
  <2>7. at - WordBits + b + rest = at + b - shift
    BY <1>1 DEF rest
  <2> QED
    BY <1>1, <2>3, <2>4, <2>5, <2>6, <2>7
<1>7. ASSUME c \notin 0 .. Smaller(WordBytes, needed) - 1,
             ~(spans /\ c \in WordBytes .. needed - 1)
      PROVE  b \notin byte /\ at + b - shift \notin val
  <2>1. byte = {}
    BY <1>0, <1>7
  <2>2. c < 0 \/ c >= needed
    BY <1>1, <1>3, <1>7 DEF Smaller
  <2> HIDE DEF at
  <2>3. CASE c < 0
    BY <1>1, <1>4, <2>1, <2>3
  <2>4. CASE c >= needed
    <3>1. at >= end
      BY <1>1, <1>3, <2>4
    <3> QED
      BY <1>1, <2>1, <3>1
  <2> QED
    BY <2>2, <2>3, <2>4
<1> QED
  BY <1>5, <1>6, <1>7 DEF byte

\* What pack() ORs into a byte for an element are the element's own bits,
\* each at the place the element's index and width give it.
LEMMA WrittenBits ==
  ASSUME NEW i \in Nat, NEW k \in Int, NEW width \in 0 .. WordBits,
         NEW value \in SUBSET Int, NEW b \in 0 .. ByteBits - 1
  PROVE  b \in WrittenTo(k, i, value, width)
           <=> k * ByteBits + b - i * width \in Low(value, width)
<1> DEFINE start == i * width
           first == start \div ByteBits
           shift == start % ByteBits
           c == k - first
           val == Low(value, width)
           byte == WrittenTo(k, i, value, width)
<1>1. ByteBits \in Nat \ {0} /\ WordBits \in Nat /\ start \in Int
  BY SizesAreNumbers
<1>2. byte = ByteOfElement(val, shift, width, c)
  BY DEF WrittenTo, ByteOfElement
<1> HIDE DEF start, byte
<1>3. /\ first \in Int /\ shift \in 0 .. ByteBits - 1
      /\ start = first * ByteBits + shift
  BY <1>1, Division
<1> HIDE DEF first, shift
<1>4. c \in Int /\ val \in SUBSET (0 .. width - 1)
  BY <1>3 DEF Low
<1> HIDE DEF c, val
<1>5. b \in byte <=> c * ByteBits + b - shift \in val
  BY <1>2, <1>3, <1>4, ElementInByte
<1>6. c * ByteBits + b - shift = k * ByteBits + b - start
  <2>1. c * ByteBits = k * ByteBits - first * ByteBits
    BY <1>1, <1>3 DEF c
  <2>2. k * ByteBits \in Int /\ first * ByteBits \in Int
    BY <1>1, <1>3
  <2> QED
    BY <1>1, <1>3, <2>1, <2>2
<1> QED
  BY <1>5, <1>6 DEF val, byte, start

\* A packed array of words: bit c of element i is where the element's index
\* and the width put it, and all of its bytes are there.
PackedOf(packed, words, width) ==
  /\ words \in Seq(SUBSET Int) /\ width \in 0 .. WordBits
  /\ packed.length = Len(words) /\ packed.width = width
  /\ DOMAIN packed.bytes = 0 .. CeilDiv(Len(words) * width, ByteBits) - 1
  /\ \A k \in DOMAIN packed.bytes : packed.bytes[k] \in SUBSET (0 .. ByteBits - 1)
  /\ \A i \in 0 .. Len(words) - 1, c \in 0 .. width - 1, k \in Int, b \in 0 .. ByteBits - 1 :
       k * ByteBits + b = i * width + c =>
         /\ k \in DOMAIN packed.bytes
         /\ b \in packed.bytes[k] <=> c \in words[i + 1]

\* What pack() writes for an element stays within the byte.
LEMMA WritesBytes ==
  ASSUME NEW i \in Nat, NEW k \in Int, NEW width \in 0 .. WordBits, NEW value \in SUBSET Int
  PROVE  WrittenTo(k, i, value, width) \in SUBSET (0 .. ByteBits - 1)
<1>1. \A s, c : ByteOf(s, c) \in SUBSET (0 .. ByteBits - 1)
  BY DEF ByteOf, Low
<1> QED
  BY <1>1 DEF WrittenTo

\* No two elements share a bit, so that pack() keeps them all.
LEMMA PackKeepsElements ==
  ASSUME NEW words \in Seq(SUBSET Int), NEW nulls, NEW width \in 0 .. WordBits
  PROVE  PackedOf(Pack(words, nulls, width), words, width)
<1> DEFINE n == Len(words)
           packed == Pack(words, nulls, width)
           last == CeilDiv(n * width, ByteBits) - 1
           byte(k) == UNION {WrittenTo(k, i, words[i + 1], width) : i \in 0 .. n - 1}
<1>1. /\ n \in Nat /\ width \in Nat /\ n * width \in Nat
      /\ ByteBits \in Nat \ {0} /\ WordBits \in Nat
  BY SizesAreNumbers
<1>2. \A i \in 0 .. n - 1 : words[i + 1] \in SUBSET Int
  BY <1>1
<1>3. /\ packed.length = n /\ packed.width = width
      /\ packed.bytes = [k \in 0 .. last |-> byte(k)]
  BY DEF Pack
<1>4. \A k \in Int : k \in 0 .. last <=> 0 <= k /\ k * ByteBits < n * width
  <2> DEFINE m == n * width
  <2> HIDE DEF m
  <2>1. /\ CeilDiv(m, ByteBits) \in Nat
        /\ \A k \in Int : k < CeilDiv(m, ByteBits) <=> k * ByteBits < m
    BY <1>1, CeilDivCounts DEF m
  <2> QED
    BY <2>1 DEF m
<1> HIDE DEF packed, last
<1>5. ASSUME NEW k \in Int PROVE byte(k) \in SUBSET (0 .. ByteBits - 1)
  <2>1. \A i \in 0 .. n - 1 : WrittenTo(k, i, words[i + 1], width) \in SUBSET (0 .. ByteBits - 1)
    BY <1>1, <1>2, WritesBytes
  <2> QED
    BY <2>1
<1>6. ASSUME NEW i \in 0 .. n - 1, NEW c \in 0 .. width - 1, NEW k \in Int,
             NEW b \in 0 .. ByteBits - 1, k * ByteBits + b = i * width + c
      PROVE  k \in 0 .. last /\ (b \in byte(k) <=> c \in words[i + 1])
  <2> DEFINE at == k * ByteBits
             from == i * width
  <2>1. at \in Int /\ from \in Int /\ 0 <= from
    BY <1>1, Grows
  <2>2. from + width <= n * width
    BY <1>1, BlockOf
  <2>3. at < n * width
    BY <1>1, <1>6, <2>1, <2>2
  <2>4. 0 <= k
    <3> SUFFICES ASSUME k < 0 PROVE FALSE
      BY <1>1
    <3>1. at + ByteBits <= 0 * ByteBits /\ 0 * ByteBits = 0
      BY <1>1, BlockOf
    <3> QED
      BY <1>1, <1>6, <2>1, <3>1
  <2>5. \A j \in 0 .. n - 1 :
          b \in WrittenTo(k, j, words[j + 1], width) <=> j = i /\ c \in words[i + 1]
    <3> TAKE j \in 0 .. n - 1
    <3> DEFINE other == j * width
               d == at + b - other
               val == words[j + 1]
    <3>1. other \in Int /\ d \in Int /\ val \in SUBSET Int
      BY <1>1, <1>2, <2>1
    <3>2. b \in WrittenTo(k, j, val, width) <=> d \in Low(val, width)
      BY <1>1, <3>1, WrittenBits
    <3>3. d \in Low(val, width) <=> d \in 0 .. width - 1 /\ d \in val
      BY DEF Low
    <3>4. at + b = other + d
      BY <2>1, <3>1
    <3> HIDE DEF d
    <3>5. ASSUME d \in 0 .. width - 1 PROVE j = i /\ d = c
      <4>1. i * width + c = j * width + d
        BY <1>6, <3>4
      <4> QED
        BY <1>1, <3>5, <4>1, OneBlock
    <3>6. j = i => d = c
      BY <1>1, <1>6, <2>1, <3>1, <3>4
    <3> QED
      BY <3>2, <3>3, <3>5, <3>6
  <2> QED
    BY <1>4, <2>3, <2>4, <2>5
<1>7. DOMAIN packed.bytes = 0 .. last /\ \A k \in 0 .. last : packed.bytes[k] = byte(k)
  BY <1>3
<1> HIDE DEF byte
<1>8. \A k \in DOMAIN packed.bytes : packed.bytes[k] \in SUBSET (0 .. ByteBits - 1)
  BY <1>5, <1>7
<1>9. \A i \in 0 .. n - 1, c \in 0 .. width - 1, k \in Int, b \in 0 .. ByteBits - 1 :
        k * ByteBits + b = i * width + c =>
          /\ k \in DOMAIN packed.bytes
          /\ b \in packed.bytes[k] <=> c \in words[i + 1]
  <2> TAKE i \in 0 .. n - 1, c \in 0 .. width - 1, k \in Int, b \in 0 .. ByteBits - 1
  <2> HAVE k * ByteBits + b = i * width + c
  <2>1. k \in 0 .. last /\ (b \in byte(k) <=> c \in words[i + 1])
    BY <1>6
  <2>2. packed.bytes[k] = byte(k)
    BY <1>7, <2>1
  <2> QED
    BY <1>7, <2>1, <2>2
<1>10. PackedOf(packed, words, width)
  BY <1>3, <1>7, <1>8, <1>9 DEF PackedOf, last
<1> QED
  BY <1>10 DEF packed

-----------------------------------------------------------------------------
(* Unpacking.                                                              *)

\* The bytes are 0 up to their number, exclusively.
LEMMA ByteCount ==
  ASSUME NEW packed, NEW words \in Seq(SUBSET Int), NEW width \in 0 .. WordBits,
         PackedOf(packed, words, width)
  PROVE  /\ Cardinality(DOMAIN packed.bytes) \in Nat
         /\ DOMAIN packed.bytes = 0 .. Cardinality(DOMAIN packed.bytes) - 1
<1> DEFINE m == CeilDiv(Len(words) * width, ByteBits)
<1>1. m \in Nat
  <2>1. Len(words) * width \in Nat /\ ByteBits \in Nat \ {0}
    BY SizesAreNumbers
  <2> QED
    BY <2>1, CeilDivCounts
<1>2. DOMAIN packed.bytes = 0 .. m - 1
  BY DEF PackedOf
<1> HIDE DEF m
<1>3. Cardinality(0 .. m - 1) = m
  <2>1. \A a, z \in Int : Cardinality(a .. z) = IF a > z THEN 0 ELSE z - a + 1
    BY FS_Interval
  <2> QED
    BY <1>1, <2>1
<1> QED
  BY <1>1, <1>2, <1>3

\* A load gives the bits of those of its bytes that there are.
LEMMA LoadedBits ==
  ASSUME NEW packed, NEW words \in Seq(SUBSET Int), NEW width \in 0 .. WordBits,
         PackedOf(packed, words, width),
         NEW first \in Nat, NEW n \in Nat
  PROVE  /\ LoadBytes(packed, first, n) \in SUBSET Nat
         /\ \A k \in Int, b \in 0 .. ByteBits - 1 :
              k * ByteBits + b \in LoadBytes(packed, first, n)
                <=> /\ k \in 0 .. n - 1
                    /\ first + k \in DOMAIN packed.bytes
                    /\ b \in packed.bytes[first + k]
<1> DEFINE count == Cardinality(DOMAIN packed.bytes)
           top == Smaller(n, count - first) - 1
           load == LoadBytes(packed, first, n)
<1>1. /\ count \in Nat /\ ByteBits \in Nat
      /\ \A j \in Int : first + j \in DOMAIN packed.bytes <=> 0 <= first + j /\ first + j < count
  <2>1. count \in Nat /\ DOMAIN packed.bytes = 0 .. count - 1
    BY ByteCount
  <2> HIDE DEF count
  <2> QED
    BY <2>1, SizesAreNumbers
<1>2. \A j \in DOMAIN packed.bytes : packed.bytes[j] \in SUBSET (0 .. ByteBits - 1)
  BY DEF PackedOf
<1>3. load = UNION {{j * ByteBits + c : c \in packed.bytes[first + j]} : j \in 0 .. top}
  BY DEF LoadBytes
<1> HIDE DEF load
<1>4. \A j \in Int : j \in 0 .. top <=> j \in 0 .. n - 1 /\ first + j \in DOMAIN packed.bytes
  BY <1>1 DEF Smaller
<1> HIDE DEF top, count
<1>5. ASSUME NEW j \in 0 .. top, NEW c \in packed.bytes[first + j]
      PROVE  j \in Nat /\ c \in 0 .. ByteBits - 1 /\ j * ByteBits + c \in Nat
  <2>1. j \in Nat /\ c \in 0 .. ByteBits - 1
    BY <1>2, <1>4
  <2>2. 0 <= j * ByteBits /\ j * ByteBits \in Int
    <3>1. 0 * ByteBits = 0 /\ 0 * ByteBits <= j * ByteBits
      BY <1>1, <2>1, Grows
    <3> QED
      BY <1>1, <2>1, <3>1
  <2> QED
    BY <1>1, <2>1, <2>2
<1>6. load \in SUBSET Nat
  BY <1>3, <1>5
<1>7. ASSUME NEW k \in Int, NEW b \in 0 .. ByteBits - 1, k * ByteBits + b \in load
      PROVE  k \in 0 .. top /\ b \in packed.bytes[first + k]
  <2>1. PICK j \in 0 .. top : \E c \in packed.bytes[first + j] : k * ByteBits + b = j * ByteBits + c
    BY <1>3, <1>7
  <2>2. PICK c \in packed.bytes[first + j] : k * ByteBits + b = j * ByteBits + c
    BY <2>1
  <2>3. j \in Int /\ c \in 0 .. ByteBits - 1
    BY <1>5
  <2>4. k = j /\ b = c
    BY <1>1, <2>2, <2>3, OneBlock
  <2> QED
    BY <2>4
<1>8. ASSUME NEW k \in 0 .. top, NEW b \in packed.bytes[first + k]
      PROVE  k * ByteBits + b \in load
  <2>1. k * ByteBits + b \in {k * ByteBits + c : c \in packed.bytes[first + k]}
    OBVIOUS
  <2> QED
    BY <1>3, <2>1
<1> QED
  BY <1>4, <1>6, <1>7, <1>8 DEF load

\* The word an element begins in, and the word after it, joined, begin with
\* the element; so does the first one alone if the element fits in it.
LEMMA ElementIsLoaded ==
  ASSUME NEW packed, NEW words \in Seq(SUBSET Int), NEW width \in 0 .. WordBits,
         PackedOf(packed, words, width),
         NEW i \in 0 .. Len(words) - 1,
         NEW byteIdx, byteIdx = (i * width) \div ByteBits,
         NEW bitIdx, bitIdx = (i * width) % ByteBits
  PROVE  /\ Low(Joined(packed, byteIdx, bitIdx), width) = Low(words[i + 1], width)
         /\ bitIdx + width <= WordBits =>
              Low(ShiftRight(LoadBytes(packed, byteIdx, WordBytes), bitIdx), width)
                = Low(words[i + 1], width)
<1> DEFINE start == i * width
           low == LoadBytes(packed, byteIdx, WordBytes)
           high == LoadBytes(packed, byteIdx + WordBytes, WordBytes)
           val == words[i + 1]
<1>1. /\ ByteBits \in Nat \ {0} /\ WordBits \in Nat /\ WordBytes \in Nat \ {0}
      /\ WordBits = WordBytes * ByteBits /\ start \in Nat /\ i \in Nat /\ width \in Nat
  <2>1. i \in Nat /\ width \in Nat
    BY SizesAreNumbers
  <2>2. i * width \in Nat
    BY <2>1
  <2> QED
    BY <2>1, <2>2, SizesAreNumbers
<1>2. /\ byteIdx \in Nat /\ bitIdx \in 0 .. ByteBits - 1
      /\ start = byteIdx * ByteBits + bitIdx
  <2> HIDE DEF start
  <2>1. byteIdx = start \div ByteBits /\ bitIdx = start % ByteBits
    BY DEF start
  <2>2. start \in Int
    BY <1>1
  <2>3. /\ start % ByteBits \in 0 .. ByteBits - 1
        /\ start = (start \div ByteBits) * ByteBits + (start % ByteBits)
    BY <1>1, <2>2, Division
  <2> QED
    BY <1>1, <2>1, <2>3, QuotientIsNat
<1>3. val \in SUBSET Int
  BY <1>1
<1> HIDE DEF start, low, high, val
<1>4. low \in SUBSET Nat /\ high \in SUBSET Nat /\ low \in SUBSET Int /\ high \in SUBSET Int
  <2>1. byteIdx + WordBytes \in Nat /\ WordBytes \in Nat
    BY <1>1, <1>2
  <2>2. \A first \in Nat : LoadBytes(packed, first, WordBytes) \in SUBSET Nat
    BY <2>1, LoadedBits
  <2>3. low \in SUBSET Nat /\ high \in SUBSET Nat
    BY <1>2, <2>1, <2>2 DEF low, high
  <2> QED
    BY <2>3
<1>5. \A k \in Int, b \in 0 .. ByteBits - 1 :
        k * ByteBits + b \in low
          <=> /\ k \in 0 .. WordBytes - 1
              /\ byteIdx + k \in DOMAIN packed.bytes
              /\ b \in packed.bytes[byteIdx + k]
  <2>1. WordBytes \in Nat
    BY <1>1
  <2> QED
    BY <1>2, <2>1, LoadedBits DEF low
<1>6. \A k \in Int, b \in 0 .. ByteBits - 1 :
        k * ByteBits + b \in high
          <=> /\ k \in 0 .. WordBytes - 1
              /\ (byteIdx + WordBytes) + k \in DOMAIN packed.bytes
              /\ b \in packed.bytes[(byteIdx + WordBytes) + k]
  <2>1. byteIdx + WordBytes \in Nat /\ WordBytes \in Nat
    BY <1>1, <1>2
  <2> QED
    BY <2>1, LoadedBits DEF high
<1>7. ByteBits <= WordBits
  <2>1. 1 * ByteBits <= WordBytes * ByteBits /\ 1 * ByteBits = ByteBits
    BY <1>1, Grows
  <2> QED
    BY <1>1, <2>1
<1>8. ASSUME NEW c \in 0 .. width - 1
      PROVE  LET p == c + bitIdx
             IN  /\ p \in 0 .. WordBits - 1 => (p \in low <=> c \in val)
                 /\ p \notin 0 .. WordBits - 1 => (p - WordBits \in high <=> c \in val)
                 /\ p \notin 0 .. WordBits - 1 => p \notin low
  <2> DEFINE p == c + bitIdx
             k == p \div ByteBits
             b == p % ByteBits
  <2>1. p \in Nat /\ p < WordBits + WordBits
    BY <1>1, <1>2, <1>7
  <2> HIDE DEF p
  <2>2. k \in Nat /\ b \in 0 .. ByteBits - 1 /\ p = k * ByteBits + b
    <3>1. p \in Int
      BY <2>1
    <3> QED
      BY <1>1, <2>1, <3>1, Division, QuotientIsNat
  <2> HIDE DEF k, b
  <2>3. (byteIdx + k) * ByteBits + b = start + c
    <3>1. (byteIdx + k) * ByteBits = byteIdx * ByteBits + k * ByteBits
      BY <1>1, <1>2, <2>2
    <3>2. byteIdx * ByteBits \in Int /\ k * ByteBits \in Int
      BY <1>1, <1>2, <2>2
    <3> QED
      BY <1>1, <1>2, <2>2, <3>1, <3>2 DEF p
  <2>4. /\ byteIdx + k \in DOMAIN packed.bytes
        /\ b \in packed.bytes[byteIdx + k] <=> c \in val
    <3>1. byteIdx + k \in Int
      BY <1>2, <2>2
    <3> QED
      BY <2>2, <2>3, <3>1 DEF PackedOf, start, val
  <2>5. p \in low <=> k \in 0 .. WordBytes - 1 /\ c \in val
    <3>1. k * ByteBits + b \in low
            <=> /\ k \in 0 .. WordBytes - 1
                /\ byteIdx + k \in DOMAIN packed.bytes
                /\ b \in packed.bytes[byteIdx + k]
      BY <1>5, <2>2
    <3> QED
      BY <2>2, <2>4, <3>1
  <2>6. k \in 0 .. WordBytes - 1 <=> p \in 0 .. WordBits - 1
    <3>1. k \in Int
      BY <2>2
    <3>2. k \in 0 .. WordBytes - 1 <=> k * ByteBits + b \in 0 .. WordBits - 1
      BY <2>2, <3>1, BitsOfByte
    <3> QED
      BY <2>2, <3>2
  <2>7. ASSUME p \notin 0 .. WordBits - 1 PROVE p - WordBits \in high <=> c \in val
    <3> DEFINE d == k - WordBytes
    <3>1. d \in Int /\ d * ByteBits + b = p - WordBits
      BY <1>1, <2>1, <2>2
    <3>2. (byteIdx + WordBytes) + d = byteIdx + k
      BY <1>1, <1>2, <2>2
    <3> HIDE DEF d
    <3>3. p - WordBits \in 0 .. WordBits - 1
      BY <1>1, <2>1, <2>7
    <3>4. d \in 0 .. WordBytes - 1
      BY <2>2, <3>1, <3>3, BitsOfByte
    <3>5. d * ByteBits + b \in high
            <=> /\ d \in 0 .. WordBytes - 1
                /\ (byteIdx + WordBytes) + d \in DOMAIN packed.bytes
                /\ b \in packed.bytes[(byteIdx + WordBytes) + d]
      BY <1>6, <2>2, <3>1
    <3> QED
      BY <2>4, <3>1, <3>2, <3>4, <3>5
  <2> QED
    BY <2>5, <2>6, <2>7 DEF p
<1>9. ASSUME NEW c \in 0 .. width - 1, bitIdx + width <= WordBits
      PROVE  c \in ShiftRight(low, bitIdx) <=> c \in val
  <2>1. c + bitIdx \in 0 .. WordBits - 1
    BY <1>1, <1>2, <1>9
  <2>2. c \in ShiftRight(low, bitIdx) <=> 0 <= c /\ c + bitIdx \in low
    <3>1. c \in Int /\ bitIdx \in Int
      BY <1>1, <1>2
    <3> QED
      BY <1>4, <3>1, ShiftedBits
  <2> QED
    BY <1>8, <2>1, <2>2
<1>10. ASSUME NEW c \in 0 .. width - 1
      PROVE  c \in Joined(packed, byteIdx, bitIdx) <=> c \in val
  <2> DEFINE p == c + bitIdx
             rest == WordBits - bitIdx
  <2>1. p \in Nat /\ c - rest = p - WordBits /\ c \in 0 .. WordBits - 1 /\ rest \in Int
    BY <1>1, <1>2
  <2>2. Joined(packed, byteIdx, bitIdx) = ShiftRight(low, bitIdx) \cup ShiftLeft(high, rest)
    BY DEF Joined, low, high
  <2> HIDE DEF rest
  <2>3. c \in ShiftRight(low, bitIdx) <=> 0 <= c /\ p \in low
    <3>1. c \in Int /\ bitIdx \in Int
      BY <1>1, <1>2
    <3> QED
      BY <1>4, <3>1, ShiftedBits
  <2>4. c \in ShiftLeft(high, rest) <=> c \in 0 .. WordBits - 1 /\ c - rest \in high
    BY <1>1, <1>4, <2>1, ShiftedBits
  <2>5. p < WordBits => p - WordBits \notin high
    BY <1>1, <1>4, <2>1
  <2>6. /\ p \in 0 .. WordBits - 1 => (p \in low <=> c \in val)
        /\ p \notin 0 .. WordBits - 1 => (p - WordBits \in high <=> c \in val)
        /\ p \notin 0 .. WordBits - 1 => p \notin low
    BY <1>8
  <2>7. p \in 0 .. WordBits - 1 <=> p < WordBits
    BY <1>1, <2>1
  <2> HIDE DEF p
  <2> QED
    BY <2>1, <2>2, <2>3, <2>4, <2>5, <2>6, <2>7
<1> QED
  BY <1>9, <1>10 DEF Low, low, val

\* get() and the loops over blocks find the element.
LEMMA ExtractFindsElement ==
  ASSUME NEW packed, NEW words \in Seq(SUBSET Int), NEW width \in 0 .. WordBits,
         PackedOf(packed, words, width), NEW i \in 0 .. Len(words) - 1
  PROVE  /\ Extract(packed, i) = Low(words[i + 1], width)
         /\ ExtractWide(packed, i) = Low(words[i + 1], width)
<1> DEFINE byteIdx == (i * width) \div ByteBits
           bitIdx == (i * width) % ByteBits
           alone == ShiftRight(LoadBytes(packed, byteIdx, WordBytes), bitIdx)
           joined == Joined(packed, byteIdx, bitIdx)
           whole == byteIdx + WordBytes <= Cardinality(DOMAIN packed.bytes)
<1>1. packed.width = width
  BY DEF PackedOf
<1>2. /\ Low(joined, width) = Low(words[i + 1], width)
      /\ bitIdx + width <= WordBits => Low(alone, width) = Low(words[i + 1], width)
  BY ElementIsLoaded
<1>3. Extract(packed, i) = Low(IF bitIdx + width <= WordBits THEN alone ELSE joined, width)
  BY <1>1 DEF Extract
<1>4. ExtractWide(packed, i)
        = Low(IF bitIdx + width <= WordBits /\ whole THEN alone ELSE joined, width)
  BY <1>1 DEF ExtractWide
<1> HIDE DEF byteIdx, bitIdx, alone, joined, whole
<1> QED
  BY <1>2, <1>3, <1>4

\* The unrolled loops find it in the byte that holds it.
LEMMA UnrolledFindsElement ==
  ASSUME NEW packed, NEW words \in Seq(SUBSET Int), NEW width \in 1 .. WordBits,
         PackedOf(packed, words, width), NEW i \in 0 .. Len(words) - 1,
         width < ByteBits, ByteBits % width = 0
  PROVE  ExtractUnrolled(packed, i) = Low(words[i + 1], width)
<1> DEFINE per == ByteBits \div width
           k == i \div per
           shift == (i % per) * width
           val == words[i + 1]
<1>1. ByteBits \in Nat \ {0} /\ width \in Nat \ {0} /\ i \in Nat /\ width \in 0 .. WordBits
  BY SizesAreNumbers
<1>2. per \in Nat \ {0} /\ ByteBits = per * width
  <2>1. per \in Nat /\ ByteBits = per * width + (ByteBits % width)
    <3>1. ByteBits \in Int /\ ByteBits \in Nat
      BY <1>1
    <3> QED
      BY <1>1, <3>1, Division, QuotientIsNat
  <2> HIDE DEF per
  <2>2. ByteBits = per * width
    BY <1>1, <2>1
  <2>3. 0 * width = 0
    BY <1>1
  <2> QED
    BY <1>1, <2>1, <2>2, <2>3
<1>3. packed.width = width /\ val \in SUBSET Int
  BY <1>1 DEF PackedOf
<1> HIDE DEF per, val
<1>4. k \in Nat /\ i % per \in 0 .. per - 1 /\ i = k * per + (i % per)
  <2>1. i \in Int
    BY <1>1
  <2> QED
    BY <1>1, <1>2, <2>1, Division, QuotientIsNat
<1>5. i * width = k * ByteBits + shift
  <2> DEFINE r == i % per
  <2>1. r \in Int
    BY <1>2, <1>4
  <2> HIDE DEF r, k
  <2>2. (k * per + r) * width = k * (per * width) + r * width
    BY <1>1, <1>2, <1>4, <2>1
  <2> QED
    BY <1>2, <1>4, <2>2 DEF r
<1>6. shift \in Nat /\ shift + width <= ByteBits
  <2> DEFINE r == i % per
  <2>1. r \in 0 .. per - 1 /\ r \in Int /\ 0 * width = 0
    BY <1>1, <1>2, <1>4
  <2> HIDE DEF r
  <2>2. r * width + width <= per * width /\ 0 * width <= r * width /\ r * width \in Int
    BY <1>1, <1>2, <2>1, BlockOf, Grows
  <2> QED
    BY <1>2, <2>1, <2>2 DEF r
<1> HIDE DEF k, shift
<1>7. ASSUME NEW c \in 0 .. width - 1
      PROVE  /\ k \in DOMAIN packed.bytes
             /\ c \in ShiftRight(packed.bytes[k], shift) <=> c \in val
  <2> DEFINE b == c + shift
  <2>1. b \in 0 .. ByteBits - 1 /\ c \in Int /\ 0 <= c /\ shift \in Int
    BY <1>1, <1>6
  <2>2. k * ByteBits + b = i * width + c
    <3>1. k * ByteBits \in Int
      BY <1>1, <1>4
    <3> QED
      BY <1>5, <1>6, <2>1, <3>1
  <2> HIDE DEF b
  <2>3. k \in DOMAIN packed.bytes /\ (b \in packed.bytes[k] <=> c \in val)
    BY <1>4, <2>1, <2>2 DEF PackedOf, val
  <2>4. packed.bytes[k] \in SUBSET Int
    BY <2>3 DEF PackedOf
  <2>5. c \in ShiftRight(packed.bytes[k], shift) <=> 0 <= c /\ b \in packed.bytes[k]
    BY <2>1, <2>4, ShiftedBits DEF b
  <2> QED
    BY <2>1, <2>3, <2>5
<1>8. Low(ShiftRight(packed.bytes[k], shift), width) = Low(val, width)
  BY <1>7 DEF Low
<1>9. Extract(packed, i) = Low(val, width)
  BY <1>1, ExtractFindsElement DEF val
<1>10. \/ ExtractUnrolled(packed, i) = Low(ShiftRight(packed.bytes[k], shift), width)
       \/ ExtractUnrolled(packed, i) = Extract(packed, i)
  BY <1>3 DEF ExtractUnrolled, per, k, shift
<1> QED
  BY <1>8, <1>9, <1>10 DEF val

\* Elements of whole bytes are copied.
LEMMA CopiedFindsElement ==
  ASSUME NEW packed, NEW words \in Seq(SUBSET Int), NEW width \in 0 .. WordBits,
         PackedOf(packed, words, width), NEW i \in 0 .. Len(words) - 1,
         NEW m \in Nat, width = m * ByteBits
  PROVE  ExtractCopied(packed, i) = Low(words[i + 1], width)
<1> DEFINE first == i * m
           load == LoadBytes(packed, first, m)
           val == words[i + 1]
<1>1. ByteBits \in Nat \ {0} /\ width \in Nat /\ i \in Nat
  BY SizesAreNumbers
<1>2. width \div ByteBits = m
  <2> DEFINE q == width \div ByteBits
             r == width % ByteBits
  <2>1. q \in Int /\ r \in 0 .. ByteBits - 1 /\ width = q * ByteBits + r
    <3>1. width \in Int
      BY <1>1
    <3> QED
      BY <1>1, <3>1, Division
  <2> HIDE DEF q, r
  <2>2. m * ByteBits + 0 = q * ByteBits + r /\ 0 \in 0 .. ByteBits - 1
    BY <1>1, <2>1
  <2>3. m = q
    BY <1>1, <2>1, <2>2, OneBlock
  <2> QED
    BY <2>3 DEF q
<1>3. ExtractCopied(packed, i) = load
  BY <1>2 DEF ExtractCopied, PackedOf
<1>4. first \in Nat /\ val \in SUBSET Int
  BY <1>1
<1>5. /\ load \in SUBSET Nat
      /\ \A k \in Int, b \in 0 .. ByteBits - 1 :
           k * ByteBits + b \in load
             <=> /\ k \in 0 .. m - 1
                 /\ first + k \in DOMAIN packed.bytes
                 /\ b \in packed.bytes[first + k]
  <2> HIDE DEF first
  <2> QED
    BY <1>4, LoadedBits
<1> HIDE DEF load, val
<1>6. first * ByteBits = i * width
  BY <1>1
<1> HIDE DEF first
<1>7. ASSUME NEW p \in Nat
      PROVE  p \in load <=> p \in 0 .. width - 1 /\ p \in val
  <2> DEFINE k == p \div ByteBits
             b == p % ByteBits
  <2>1. k \in Nat /\ b \in 0 .. ByteBits - 1 /\ p = k * ByteBits + b
    <3>1. p \in Int
      OBVIOUS
    <3> QED
      BY <1>1, <3>1, Division, QuotientIsNat
  <2> HIDE DEF k, b
  <2>2. k \in 0 .. m - 1 <=> p \in 0 .. width - 1
    <3>1. ASSUME k < m PROVE p < width
      <4>1. k * ByteBits + ByteBits <= width /\ k * ByteBits \in Int
        BY <1>1, <2>1, <3>1, BlockOf
      <4> QED
        BY <1>1, <2>1, <4>1
    <3>2. ASSUME k >= m PROVE p >= width
      <4>1. width <= k * ByteBits /\ k * ByteBits \in Int
        BY <1>1, <2>1, <3>2, Grows
      <4> QED
        BY <1>1, <2>1, <4>1
    <3> QED
      BY <1>1, <2>1, <3>1, <3>2
  <2>3. (first + k) * ByteBits + b = i * width + p
    <3>1. (first + k) * ByteBits = first * ByteBits + k * ByteBits
      BY <1>1, <1>4, <2>1
    <3>2. first * ByteBits \in Int /\ k * ByteBits \in Int
      BY <1>1, <1>4, <2>1
    <3> QED
      BY <1>6, <2>1, <3>1, <3>2
  <2>4. ASSUME p \in 0 .. width - 1
        PROVE  /\ first + k \in DOMAIN packed.bytes
               /\ b \in packed.bytes[first + k] <=> p \in val
    <3>1. first + k \in Int
      BY <1>4, <2>1
    <3> QED
      BY <2>1, <2>3, <2>4, <3>1 DEF PackedOf, val
  <2>5. p \in load
          <=> /\ k \in 0 .. m - 1
              /\ first + k \in DOMAIN packed.bytes
              /\ b \in packed.bytes[first + k]
    BY <1>5, <2>1
  <2> QED
    BY <2>2, <2>4, <2>5
<1>8. load = Low(val, width)
  <2>1. Low(val, width) = {p \in Nat : p \in 0 .. width - 1 /\ p \in val}
    BY <1>1 DEF Low
  <2> QED
    BY <1>5, <1>7, <2>1
<1> QED
  BY <1>3, <1>8 DEF val

\* bulk_unpack_to gives every element, cut to the output's bits, whichever
\* loop it takes for the width.
LEMMA BulkUnpackFindsElements ==
  ASSUME NEW packed, NEW words, NEW width, PackedOf(packed, words, width),
         NEW i \in 0 .. Len(words) - 1, NEW bits
  PROVE  BulkUnpack(packed, bits)[i] = Low(Low(words[i + 1], width), bits)
<1> DEFINE val == Low(words[i + 1], width)
           kind == IF width = 0 THEN "zero"
                   ELSE IF width < ByteBits /\ ByteBits % width = 0 THEN "unrolled"
                   ELSE IF width \in {ByteBits, 2 * ByteBits, 4 * ByteBits}
                   THEN IF width = bits THEN "copied" ELSE "wide"
                   ELSE IF width < WordBits \div 2 THEN "blocked" ELSE "wide"
           found == CASE kind = "zero"     -> {}
                      [] kind = "unrolled" -> ExtractUnrolled(packed, i)
                      [] kind = "copied"   -> ExtractCopied(packed, i)
                      [] kind = "blocked"  -> Extract(packed, i)
                      [] kind = "wide"     -> ExtractWide(packed, i)
<1>0. words \in Seq(SUBSET Int) /\ width \in 0 .. WordBits
  BY DEF PackedOf
<1>1. ByteBits \in Nat \ {0} /\ width \in Nat
  BY <1>0, SizesAreNumbers
<1>2. BulkUnpack(packed, bits)[i] = Low(found, bits)
  BY DEF BulkUnpack, PackedOf
<1>3. Extract(packed, i) = val /\ ExtractWide(packed, i) = val
  BY <1>0, ExtractFindsElement
<1>4. CASE width = 0
  <2>1. val = {}
    BY <1>4 DEF Low
  <2>2. found = {}
    BY <1>4
  <2> QED
    BY <1>2, <2>1, <2>2
<1>5. CASE width # 0 /\ width < ByteBits /\ ByteBits % width = 0
  <2>1. ExtractUnrolled(packed, i) = val
    BY <1>0, <1>1, <1>5, UnrolledFindsElement
  <2>2. found = ExtractUnrolled(packed, i)
    BY <1>5
  <2> QED
    BY <1>2, <2>1, <2>2
<1>6. CASE width # 0 /\ ~(width < ByteBits /\ ByteBits % width = 0)
  <2>1. CASE width \in {ByteBits, 2 * ByteBits, 4 * ByteBits} /\ width = bits
    <3>1. \E m \in Nat : width = m * ByteBits
      <4>1. 1 * ByteBits = ByteBits
        BY <1>1
      <4> QED
        BY <2>1, <4>1
    <3>2. ExtractCopied(packed, i) = val
      BY <1>0, <3>1, CopiedFindsElement
    <3>3. found = ExtractCopied(packed, i)
      BY <1>6, <2>1
    <3> QED
      BY <1>2, <3>2, <3>3
  <2>2. CASE ~(width \in {ByteBits, 2 * ByteBits, 4 * ByteBits} /\ width = bits)
    <3>1. found = Extract(packed, i) \/ found = ExtractWide(packed, i)
      BY <1>6, <2>2
    <3> QED
      BY <1>2, <1>3, <3>1
  <2> QED
    BY <2>1, <2>2
<1> QED
  BY <1>4, <1>5, <1>6

\* So does get().
LEMMA GetFindsElement ==
  ASSUME NEW packed, NEW words, NEW width, PackedOf(packed, words, width),
         NEW i \in 0 .. Len(words) - 1
  PROVE  Get(packed, i) = Low(words[i + 1], width)
<1>0. words \in Seq(SUBSET Int) /\ width \in 0 .. WordBits
  BY DEF PackedOf
<1>1. Extract(packed, i) = Low(words[i + 1], width)
  BY <1>0, ExtractFindsElement
<1>2. packed.width = width /\ packed.length = Len(words) /\ ~(i >= packed.length)
  BY DEF PackedOf
<1>3. width = 0 => Low(words[i + 1], width) = {}
  BY DEF Low
<1> QED
  BY <1>1, <1>2, <1>3 DEF Get

\* The values a slot may hold, null or not, whatever the column's type.
AllValues == UNION {ValuesIn(t) \cup Fillers(t) : t \in Types}

\* The column is a sequence of slots with values of its types.
ColumnOK ==
  /\ type \in Types
  /\ column \in Seq([valid : BOOLEAN, value : AllValues])

\* Slots are appended one by one, and every batch begins with none.
LEMMA ColumnStaysOK ==
  /\ Init => ColumnOK
  /\ ColumnOK /\ [Next]_vars => ColumnOK'
<1>1. Init => ColumnOK
  BY DEF Init, ColumnOK
<1>2. ASSUME ColumnOK, NEW slot \in Slots, AppendSlot(slot) PROVE ColumnOK'
  <2>1. slot \in [valid : BOOLEAN, value : AllValues]
    <3>1. ValuesIn(type) \cup Fillers(type) \subseteq AllValues
      BY <1>2 DEF AllValues, ColumnOK
    <3>2. \/ slot \in [valid : {TRUE}, value : ValuesIn(type)]
          \/ slot \in [valid : {FALSE}, value : Fillers(type)]
      BY DEF Slots
    <3> QED
      BY <3>1, <3>2
  <2> QED
    BY <1>2, <2>1 DEF ColumnOK, AppendSlot
<1>3. ASSUME ColumnOK, NextBatch PROVE ColumnOK'
  <2>1. type' \in Types /\ column' = <<>>
    BY <1>3 DEF NextBatch
  <2> QED
    BY <2>1 DEF ColumnOK
<1>4. ASSUME ColumnOK, UNCHANGED vars PROVE ColumnOK'
  BY <1>4 DEF ColumnOK, vars
<1> QED
  BY <1>1, <1>2, <1>3, <1>4 DEF Next

\* Whatever loop of bulk_unpack_to reads a packed array, into outputs of any
\* width, and get() too: every element comes back, truncated to the width it
\* was packed with.
THEOREM UnpackingAgreesAlways == Spec => []UnpackingAgrees
<1>1. ColumnOK => UnpackingAgrees
  <2> SUFFICES ASSUME ColumnOK, NEW width \in 0 .. WordBits
               PROVE  LET words  == [i \in DOMAIN column |-> Bits(column[i].value % 2^WordBits)]
                          packed == Pack(words, <<>>, width)
                          narrow == BulkUnpack(packed, type.bits)
                          wide   == BulkUnpack(packed, WordBits)
                      IN  \A i \in DOMAIN wide :
                            /\ Get(packed, i) = Low(words[i + 1], width)
                            /\ wide[i] = Get(packed, i)
                            /\ narrow[i] = Low(Get(packed, i), type.bits)
    BY DEF UnpackingAgrees
  <2> DEFINE words == [i \in DOMAIN column |-> Bits(column[i].value % 2^WordBits)]
             packed == Pack(words, <<>>, width)
  <2>1. words \in Seq(SUBSET Int)
    <3>1. \A n : Bits(n) \in SUBSET Int
      BY SizesAreNumbers DEF Bits
    <3>2. DOMAIN column = 1 .. Len(column) /\ Len(column) \in Nat
      BY DEF ColumnOK
    <3> QED
      BY <3>1, <3>2
  <2> HIDE DEF words
  <2>2. PackedOf(packed, words, width)
    BY <2>1, PackKeepsElements
  <2>3. DOMAIN BulkUnpack(packed, WordBits) = 0 .. Len(words) - 1
    BY <2>2 DEF BulkUnpack, PackedOf
  <2> HIDE DEF packed
  <2>4. ASSUME NEW i \in 0 .. Len(words) - 1
        PROVE  /\ Get(packed, i) = Low(words[i + 1], width)
               /\ BulkUnpack(packed, WordBits)[i] = Get(packed, i)
               /\ BulkUnpack(packed, type.bits)[i] = Low(Get(packed, i), type.bits)
    <3>1. Get(packed, i) = Low(words[i + 1], width)
      BY <2>2, GetFindsElement
    <3>2. \A bits : BulkUnpack(packed, bits)[i] = Low(Low(words[i + 1], width), bits)
      BY <2>2, BulkUnpackFindsElements
    <3>3. Low(Low(words[i + 1], width), WordBits) = Low(words[i + 1], width)
      BY SizesAreNumbers DEF Low
    <3> QED
      BY <3>1, <3>2, <3>3
  <2> QED
    BY <2>3, <2>4 DEF packed, words
<1> QED
  BY <1>1, ColumnStaysOK, PTL DEF Spec

-----------------------------------------------------------------------------
(* Powers of two.  The provers know nothing of exponents; the library      *)
(* knows how many subsets a set has.                                       *)

\* Every non-empty set of naturals has a least element.
LEMMA LeastElement ==
  ASSUME NEW S \in SUBSET Nat, S # {}
  PROVE  \E n \in S : \A m \in S : n <= m
<1>1. PICK n \in S : \A m \in S : ~(<<m, n>> \in OpToRel(<, Nat))
  BY NatLessThanWellFounded, WFMin
<1>2. n \in Nat /\ \A m \in S : m \in Nat
  OBVIOUS
<1>3. \A m \in S : ~(m < n)
  BY <1>1, <1>2 DEF OpToRel
<1>4. \A m \in S : n <= m
  BY <1>2, <1>3
<1> QED
  BY <1>4

\* Two to the n is the number of subsets of n elements.
LEMMA PowerCountsSubsets ==
  ASSUME NEW n \in Nat
  PROVE  /\ 2^n \in Nat
         /\ IsFiniteSet(SUBSET (1 .. n))
         /\ Cardinality(SUBSET (1 .. n)) = 2^n
<1>1. IsFiniteSet(1 .. n) /\ Cardinality(1 .. n) = n
  BY FS_Interval
<1> QED
  BY <1>1, FS_SUBSET, FS_CardinalityType

\* One element more doubles them.
LEMMA PowerDoubles ==
  ASSUME NEW n \in Nat
  PROVE  2^(n + 1) = 2 * 2^n
<1> DEFINE A == SUBSET (1 .. n)
           B == {T \cup {n + 1} : T \in A}
           f == [T \in A |-> T \cup {n + 1}]
<1>1. IsFiniteSet(A) /\ Cardinality(A) = 2^n /\ 2^n \in Nat
  BY PowerCountsSubsets
<1>2. f \in Bijection(A, B)
  <2>1. f \in [A -> B]
    OBVIOUS
  <2>2. ASSUME NEW S \in A, NEW T \in A, f[S] = f[T] PROVE S = T
    <3>1. S \cup {n + 1} = T \cup {n + 1}
      BY <2>2
    <3>2. n + 1 \notin S /\ n + 1 \notin T
      OBVIOUS
    <3> QED
      BY <3>1, <3>2
  <2>3. \A y \in B : \E T \in A : f[T] = y
    OBVIOUS
  <2> QED
    BY <2>1, <2>2, <2>3 DEF Bijection, Injection, Surjection, IsInjective
<1>3. IsFiniteSet(B) /\ Cardinality(B) = 2^n
  <2>1. ExistsBijection(A, B)
    BY <1>2 DEF ExistsBijection
  <2> QED
    BY <1>1, <2>1, FS_Bijection
<1>4. A \cap B = {}
  OBVIOUS
<1>5. SUBSET (1 .. n + 1) = A \cup B
  <2>1. ASSUME NEW S \in SUBSET (1 .. n + 1) PROVE S \in A \cup B
    <3>1. CASE n + 1 \in S
      <4>1. S \ {n + 1} \in A /\ S = (S \ {n + 1}) \cup {n + 1}
        BY <3>1
      <4> QED
        BY <4>1
    <3>2. CASE n + 1 \notin S
      BY <3>2
    <3> QED
      BY <3>1, <3>2
  <2>2. A \cup B \subseteq SUBSET (1 .. n + 1)
    <3>1. 1 .. n \subseteq 1 .. n + 1 /\ n + 1 \in 1 .. n + 1
      OBVIOUS
    <3> QED
      BY <3>1
  <2> QED
    BY <2>1, <2>2
<1>6. Cardinality(A \cup B) = 2^n + 2^n
  <2>1. Cardinality(A \cup B) = Cardinality(A) + Cardinality(B) - Cardinality(A \cap B)
    BY <1>1, <1>3, FS_Union
  <2>2. Cardinality(A \cap B) = 0
    BY <1>4, FS_EmptySet
  <2> QED
    BY <1>1, <1>3, <2>1, <2>2
<1>7. Cardinality(SUBSET (1 .. n + 1)) = 2^(n + 1)
  <2>1. n + 1 \in Nat
    OBVIOUS
  <2> QED
    BY <2>1, PowerCountsSubsets
<1>8. 2^(n + 1) = 2^n + 2^n
  BY <1>5, <1>6, <1>7
<1> QED
  BY <1>1, <1>8

\* Powers of two are positive, and grow with the exponent.
LEMMA PowersGrow ==
  ASSUME NEW n \in Nat
  PROVE  /\ 2^n \in Nat \ {0}
         /\ \A m \in 0 .. n : 2^m <= 2^n
<1> DEFINE bad == {k \in Nat : ~(2^k \in Nat \ {0} /\ \A m \in 0 .. k : 2^m <= 2^k)}
<1>1. ASSUME bad # {} PROVE FALSE
  <2>1. PICK k \in bad : \A l \in bad : k <= l
    BY <1>1, LeastElement
  <2>2. CASE k = 0
    <3>1. 2^0 = 1 /\ 2^0 <= 2^0
      OBVIOUS
    <3>2. \A m \in 0 .. 0 : m = 0
      OBVIOUS
    <3>3. 2^0 \in Nat \ {0}
      BY <3>1
    <3> QED
      BY <2>1, <2>2, <3>1, <3>2, <3>3
  <2>3. CASE k # 0
    <3> DEFINE p == k - 1
    <3>1. p \in Nat /\ p \notin bad /\ p + 1 = k
      BY <2>1, <2>3
    <3> HIDE DEF p
    <3>2. 2^p \in Nat \ {0} /\ \A m \in 0 .. p : 2^m <= 2^p
      BY <3>1
    <3>3. 2^k = 2 * 2^p
      BY <3>1, PowerDoubles
    <3>4. \A m \in 0 .. k : m \in 0 .. p \/ m = k
      BY <3>1
    <3>5. 2^k \in Nat \ {0}
      BY <3>2, <3>3
    <3>6. ASSUME NEW m \in 0 .. k PROVE 2^m <= 2^k
      <4>1. CASE m = k
        BY <3>5, <4>1
      <4>2. CASE m \in 0 .. p
        <5>1. m \in Nat
          BY <3>1
        <5>2. 2^m \in Nat
          BY <5>1, PowerCountsSubsets
        <5>3. 2^m <= 2^p
          BY <3>2, <4>2
        <5> QED
          BY <3>2, <3>3, <5>2, <5>3
      <4> QED
        BY <3>4, <4>1, <4>2
    <3> QED
      BY <3>5, <3>6
  <2> QED
    BY <2>2, <2>3
<1> QED
  BY <1>1

\* Powers of two multiply.
LEMMA PowersMultiply ==
  ASSUME NEW a \in Nat, NEW b \in Nat
  PROVE  2^(a + b) = 2^a * 2^b
<1> DEFINE bad == {k \in Nat : 2^(a + k) # 2^a * 2^k}
<1>1. ASSUME bad # {} PROVE FALSE
  <2>1. PICK k \in bad : \A l \in bad : k <= l
    BY <1>1, LeastElement
  <2>2. 2^a \in Nat
    BY PowersGrow
  <2>3. CASE k = 0
    <3>1. 2^0 = 1 /\ a + k = a
      BY <2>3
    <3> QED
      BY <2>1, <2>2, <2>3, <3>1
  <2>4. CASE k # 0
    <3> DEFINE p == k - 1
    <3>1. p \in Nat /\ p \notin bad /\ p + 1 = k /\ a + k = (a + p) + 1 /\ a + p \in Nat
      BY <2>1, <2>4
    <3> HIDE DEF p
    <3>2. 2^(a + p) = 2^a * 2^p
      BY <3>1
    <3>3. 2^k = 2 * 2^p /\ 2^(a + k) = 2 * 2^(a + p)
      BY <3>1, PowerDoubles
    <3>4. 2^p \in Nat
      BY <3>1, PowersGrow
    <3>5. 2^(a + k) = 2^a * 2^k
      <4>1. \A x \in Nat, y \in Nat : 2 * (x * y) = x * (2 * y)
        OBVIOUS
      <4> QED
        BY <2>2, <3>2, <3>3, <3>4, <4>1
    <3> QED
      BY <2>1, <3>5
  <2> QED
    BY <2>3, <2>4
<1>2. b \notin bad
  BY <1>1
<1> QED
  BY <1>2

-----------------------------------------------------------------------------
(* Sums.  The folds of the model are sums of integers, which the library   *)
(* knows nothing of; it knows the sizes of finite sets.                    *)

\* One element for every unit that a positive term of s adds.
Gains(w, s) == UNION {{x} \X (1 .. w[x]) : x \in s}

\* One for every unit that a negative term takes away.
Losses(w, s) == UNION {{x} \X (1 .. -w[x]) : x \in s}

\* The sum of w over s: the units its terms gain, less those they lose.
Total(w, s) == Cardinality(Gains(w, s)) - Cardinality(Losses(w, s))

\* Terms are finitely many units each, and no two terms share one.
LEMMA GainsAdd ==
  ASSUME NEW s, IsFiniteSet(s), NEW w, \A x \in s : w[x] \in Int, NEW x \in s
  PROVE  /\ Cardinality(Gains(w, s)) \in Nat
         /\ Cardinality(Gains(w, s \ {x})) \in Nat
         /\ Cardinality(Gains(w, s))
              = Cardinality(Gains(w, s \ {x})) + (IF w[x] > 0 THEN w[x] ELSE 0)
<1> DEFINE Own == {x} \X (1 .. w[x])
           Rest == Gains(w, s \ {x})
           parts == {{y} \X (1 .. w[y]) : y \in s}
           f == [y \in s |-> {y} \X (1 .. w[y])]
<1>1. ASSUME NEW y \in s
      PROVE  /\ IsFiniteSet({y} \X (1 .. w[y]))
             /\ Cardinality({y} \X (1 .. w[y])) = IF w[y] > 0 THEN w[y] ELSE 0
  <2>1. IsFiniteSet({y}) /\ Cardinality({y}) = 1
    BY FS_Singleton
  <2>2. /\ IsFiniteSet(1 .. w[y])
        /\ Cardinality(1 .. w[y]) = IF w[y] > 0 THEN w[y] ELSE 0
    BY FS_Interval
  <2>3. /\ IsFiniteSet({y} \X (1 .. w[y]))
        /\ Cardinality({y} \X (1 .. w[y])) = Cardinality({y}) * Cardinality(1 .. w[y])
    BY <2>1, <2>2, FS_Product
  <2>4. \A n \in Int : 1 * n = n
    OBVIOUS
  <2> QED
    BY <2>1, <2>2, <2>3, <2>4
<1>2. f \in Surjection(s, parts)
  BY DEF Surjection
<1>3. IsFiniteSet(parts)
  BY <1>2, FS_Surjection
<1>4. IsFiniteSet(Gains(w, s))
  BY <1>1, <1>3, FS_UNION DEF Gains
<1>5. Gains(w, s) = Rest \cup Own /\ Rest \cap Own = {}
  BY DEF Gains
<1>6. IsFiniteSet(Rest) /\ IsFiniteSet(Own)
  <2>1. Rest \in SUBSET Gains(w, s)
    BY <1>5
  <2> HIDE DEF Rest
  <2> QED
    BY <1>1, <1>4, <2>1, FS_Subset
<1> HIDE DEF Rest, Own
<1>7. Cardinality(Rest \cup Own) = Cardinality(Rest) + Cardinality(Own) - Cardinality(Rest \cap Own)
  BY <1>6, FS_Union
<1>8. Cardinality(Rest \cap Own) = 0
  BY <1>5, FS_EmptySet
<1>9. Cardinality(Rest) \in Nat /\ Cardinality(Own) \in Nat /\ Cardinality(Gains(w, s)) \in Nat
  BY <1>4, <1>6, FS_CardinalityType
<1>10. Cardinality(Own) = IF w[x] > 0 THEN w[x] ELSE 0
  BY <1>1 DEF Own
<1> QED
  BY <1>5, <1>7, <1>8, <1>9, <1>10 DEF Rest

\* A sum is any of its terms and the sum of the others.
LEMMA TotalAdds ==
  ASSUME NEW s, IsFiniteSet(s), NEW w, \A x \in s : w[x] \in Int, NEW x \in s
  PROVE  /\ Total(w, s) \in Int
         /\ Total(w, s \ {x}) \in Int
         /\ Total(w, s) = w[x] + Total(w, s \ {x})
<1> DEFINE v == [y \in s |-> -w[y]]
<1>1. \A y \in s : v[y] \in Int /\ v[y] = -w[y]
  OBVIOUS
<1>2. Losses(w, s) = Gains(v, s) /\ Losses(w, s \ {x}) = Gains(v, s \ {x})
  BY DEF Losses, Gains
<1> HIDE DEF v
<1>3. /\ Cardinality(Gains(v, s)) \in Nat
      /\ Cardinality(Gains(v, s \ {x})) \in Nat
      /\ Cardinality(Gains(v, s))
           = Cardinality(Gains(v, s \ {x})) + (IF v[x] > 0 THEN v[x] ELSE 0)
  BY <1>1, GainsAdd
<1>4. /\ Cardinality(Gains(w, s)) \in Nat
      /\ Cardinality(Gains(w, s \ {x})) \in Nat
      /\ Cardinality(Gains(w, s))
           = Cardinality(Gains(w, s \ {x})) + (IF w[x] > 0 THEN w[x] ELSE 0)
  BY GainsAdd
<1> QED
  BY <1>1, <1>2, <1>3, <1>4 DEF Total

\* Nothing adds up to zero.
LEMMA TotalOfNone ==
  ASSUME NEW w
  PROVE  Total(w, {}) = 0
<1>1. Gains(w, {}) = {} /\ Losses(w, {}) = {}
  BY DEF Gains, Losses
<1>2. Total(w, {}) = Cardinality({}) - Cardinality({})
  BY <1>1 DEF Total
<1>3. Cardinality({}) = 0
  BY FS_EmptySet
<1> QED
  BY <1>2, <1>3

\* What a fold computes, in whatever order it takes the terms, is their sum.
LEMMA FoldIsTotal ==
  ASSUME NEW S, IsFiniteSet(S), NEW w, \A x \in S : w[x] \in Int,
         NEW h, \A s \in SUBSET S :
                  h[s] = IF s = {} THEN 0
                         ELSE LET x == CHOOSE y \in s : TRUE IN w[x] + h[s \ {x}]
  PROVE  h[S] = Total(w, S)
<1> DEFINE bad == {n \in Nat : \E s \in SUBSET S : Cardinality(s) = n /\ h[s] # Total(w, s)}
<1>1. \A s \in SUBSET S : IsFiniteSet(s) /\ Cardinality(s) \in Nat
  BY FS_Subset, FS_CardinalityType
<1>2. ASSUME bad # {} PROVE FALSE
  <2>1. PICK n \in bad : \A m \in bad : n <= m
    BY <1>2, LeastElement
  <2>2. PICK s \in SUBSET S : Cardinality(s) = n /\ h[s] # Total(w, s)
    BY <2>1
  <2>3. CASE s = {}
    <3>1. h[s] = 0
      BY <2>3
    <3> QED
      BY <2>2, <2>3, <3>1, TotalOfNone
  <2>4. CASE s # {}
    <3> DEFINE x == CHOOSE y \in s : TRUE
    <3>1. x \in s
      BY <2>4
    <3>2. h[s] = w[x] + h[s \ {x}]
      BY <2>4
    <3> HIDE DEF x
    <3>3. Cardinality(s \ {x}) = n - 1 /\ s \ {x} \in SUBSET S /\ n - 1 < n
      BY <1>1, <2>1, <2>2, <3>1, FS_RemoveElement
    <3>4. h[s \ {x}] = Total(w, s \ {x})
      <4>1. Cardinality(s \ {x}) \in Nat
        BY <1>1, <3>3
      <4>2. n - 1 \notin bad
        BY <2>1, <3>3
      <4> QED
        BY <3>3, <4>1, <4>2
    <3>5. Total(w, s) = w[x] + Total(w, s \ {x})
      <4>1. IsFiniteSet(s) /\ \A y \in s : w[y] \in Int
        BY <1>1
      <4> QED
        BY <3>1, <4>1, TotalAdds
    <3> QED
      BY <2>2, <3>2, <3>4, <3>5
  <2> QED
    BY <2>3, <2>4
<1>3. S \in SUBSET S /\ Cardinality(S) \in Nat
  BY <1>1
<1> QED
  BY <1>2, <1>3

\* The element a fold takes first.
First(s) == CHOOSE y \in s : TRUE

\* There is such a fold: sums make one.
LEMMA TotalFolds ==
  ASSUME NEW s, IsFiniteSet(s), NEW w, \A x \in s : w[x] \in Int, s # {}
  PROVE  First(s) \in s /\ Total(w, s) = w[First(s)] + Total(w, s \ {First(s)})
<1>1. First(s) \in s
  BY DEF First
<1> QED
  BY <1>1, TotalAdds

\* The values of bits.
Powers == [b \in Nat |-> 2^b]

\* A set of bits is the number that its powers of two add up to.
LEMMA NumberIsTotal ==
  ASSUME NEW S \in SUBSET Nat, IsFiniteSet(S)
  PROVE  Number(S) = Total(Powers, S)
<1> DEFINE step(g, s) == IF s = {} THEN 0
                         ELSE LET x == CHOOSE y \in s : TRUE IN 2^x + g[s \ {x}]
           total == [s \in SUBSET S |-> Total(Powers, s)]
           iter == CHOOSE g : g = [s \in SUBSET S |-> step(g, s)]
<1>1. Number(S) = iter[S]
  BY DEF Number, MapThenSumSet, MapThenFoldSet
<1>2. \A b \in S : Powers[b] = 2^b /\ Powers[b] \in Int
  BY PowersGrow DEF Powers
<1>3. total = [s \in SUBSET S |-> step(total, s)]
  <2>1. ASSUME NEW s \in SUBSET S PROVE total[s] = step(total, s)
    <3>1. CASE s = {}
      BY <3>1, TotalOfNone
    <3>2. CASE s # {}
      <4>1. First(s) \in s /\ Total(Powers, s) = Powers[First(s)] + Total(Powers, s \ {First(s)})
        <5>1. IsFiniteSet(s) /\ \A b \in s : Powers[b] \in Int
          BY <1>2, FS_Subset
        <5> QED
          BY <3>2, <5>1, TotalFolds
      <4>2. step(total, s) = 2^First(s) + total[s \ {First(s)}]
        BY <3>2 DEF First
      <4> QED
        BY <1>2, <4>1, <4>2
    <3> QED
      BY <3>1, <3>2
  <2> QED
    BY <2>1
<1>4. iter = [s \in SUBSET S |-> step(iter, s)]
  <2> HIDE DEF total
  <2> QED
    BY <1>3
<1> HIDE DEF iter
<1>5. \A s \in SUBSET S :
        iter[s] = IF s = {} THEN 0
                  ELSE LET x == CHOOSE y \in s : TRUE IN Powers[x] + iter[s \ {x}]
  <2> TAKE s \in SUBSET S
  <2>1. iter[s] = step(iter, s)
    BY <1>4
  <2>2. s # {} => (CHOOSE y \in s : TRUE) \in s
    OBVIOUS
  <2> QED
    BY <1>2, <2>1, <2>2
<1> QED
  BY <1>1, <1>2, <1>5, FoldIsTotal

\* One bit more adds its power of two.
LEMMA NumberAdds ==
  ASSUME NEW S \in SUBSET Nat, IsFiniteSet(S), NEW b \in Nat, b \notin S
  PROVE  Number(S) \in Int /\ Number(S \cup {b}) = Number(S) + 2^b
<1> DEFINE T == S \cup {b}
<1>1. IsFiniteSet(T) /\ T \in SUBSET Nat /\ b \in T /\ T \ {b} = S
  BY FS_AddElement
<1> HIDE DEF T
<1>2. \A c \in T : Powers[c] \in Int
  BY <1>1, PowersGrow DEF Powers
<1>3. Total(Powers, T \ {b}) \in Int /\ Total(Powers, T) = Powers[b] + Total(Powers, T \ {b})
  BY <1>1, <1>2, TotalAdds
<1>4. Powers[b] = 2^b /\ 2^b \in Nat
  BY PowersGrow DEF Powers
<1>5. Number(S) = Total(Powers, S) /\ Number(T) = Total(Powers, T)
  BY <1>1, NumberIsTotal
<1> QED
  BY <1>1, <1>3, <1>4, <1>5 DEF T

\* One bit more of the remainder of a number.
LEMMA RemainderGrows ==
  ASSUME NEW n \in Int, NEW p \in Nat \ {0}
  PROVE  /\ n % p \in Nat
         /\ (n \div p) % 2 \in {0, 1}
         /\ n % (2 * p) = IF (n \div p) % 2 = 1 THEN (n % p) + p ELSE n % p
<1> DEFINE q == n \div p
           r == n % p
           h == q \div 2
           e == q % 2
           d == 2 * p
           u == n \div d
           v == n % d
<1>1. d \in Nat \ {0} /\ n \in Int /\ 2 \in Nat \ {0}
  OBVIOUS
<1>2. q \in Int /\ r \in 0 .. p - 1 /\ n = q * p + r
  BY <1>1, Division
<1> HIDE DEF q, r
<1>3. h \in Int /\ e \in 0 .. 1 /\ q = h * 2 + e
  BY <1>1, <1>2, Division
<1> HIDE DEF d
<1>4. u \in Int /\ v \in 0 .. d - 1 /\ n = u * d + v
  BY <1>1, Division
<1> HIDE DEF h, e, u, v
<1>5. n = h * d + (e * p + r)
  <2>1. q * p = h * (2 * p) + e * p
    BY <1>2, <1>3
  <2>2. h * (2 * p) \in Int /\ e * p \in Int
    BY <1>3
  <2> QED
    BY <1>2, <2>1, <2>2 DEF d
<1>6. e * p = (IF e = 1 THEN p ELSE 0)
  BY <1>3
<1>7. e * p + r \in 0 .. d - 1
  BY <1>2, <1>6 DEF d
<1>8. v = e * p + r
  <2> DEFINE x == e * p + r
  <2>1. x \in 0 .. d - 1 /\ u * d + v = h * d + x
    BY <1>4, <1>5, <1>7
  <2> HIDE DEF x
  <2>2. v = x
    BY <1>1, <1>3, <1>4, <2>1, OneBlock
  <2> QED
    BY <2>2 DEF x
<1> QED
  BY <1>2, <1>3, <1>6, <1>8 DEF q, r, e, v, d

\* The bits of a number below w are its remainder by 2^w.
LEMMA NumberOfLowBits ==
  ASSUME NEW n \in Nat, NEW w \in 0 .. WordBits
  PROVE  Number(Low(Bits(n), w)) = n % 2^w
<1> DEFINE bits == Bits(n)
           bad == {k \in Nat : k <= WordBits /\ Number(Low(bits, k)) # n % 2^k}
<1>1. WordBits \in Nat
  BY SizesAreNumbers
<1>2. \A k \in Nat : Low(bits, k) \in SUBSET Nat /\ IsFiniteSet(Low(bits, k))
  <2> TAKE k \in Nat
  <2>1. IsFiniteSet(0 .. k - 1) /\ Low(bits, k) \in SUBSET (0 .. k - 1)
    BY FS_Interval DEF Low
  <2> QED
    BY <2>1, FS_Subset
<1>3. ASSUME bad # {} PROVE FALSE
  <2>1. PICK k \in bad : \A l \in bad : k <= l
    BY <1>3, LeastElement
  <2>2. CASE k = 0
    <3>1. Low(bits, 0) = {}
      BY DEF Low
    <3>2. Number({}) = 0
      <4>1. IsFiniteSet({}) /\ {} \in SUBSET Nat
        BY FS_EmptySet
      <4> QED
        BY <4>1, NumberIsTotal, TotalOfNone
    <3>3. n % 2^0 = 0
      OBVIOUS
    <3>4. Number(Low(bits, 0)) = n % 2^0
      BY <3>1, <3>2, <3>3
    <3> QED
      BY <2>1, <2>2, <3>4
  <2>3. CASE k # 0
    <3> DEFINE j == k - 1
               low == Low(bits, j)
    <3>1. j \in Nat /\ j < WordBits /\ j \notin bad /\ k = j + 1
      BY <1>1, <2>1, <2>3
    <3> HIDE DEF j
    <3>2. Number(low) = n % 2^j
      BY <1>1, <3>1
    <3>3. 2^j \in Nat \ {0} /\ 2^k = 2 * 2^j
      BY <3>1, PowersGrow, PowerDoubles
    <3>4. j \in bits <=> (n \div 2^j) % 2 = 1
      BY <1>1, <3>1 DEF Bits
    <3>5. Low(bits, k) = IF j \in bits THEN low \cup {j} ELSE low
      BY <3>1 DEF Low
    <3>6. low \in SUBSET Nat /\ IsFiniteSet(low) /\ j \notin low
      <4>1. low \in SUBSET Nat /\ IsFiniteSet(low)
        BY <1>2, <3>1
      <4>2. j \notin low
        BY <3>1 DEF Low
      <4> QED
        BY <4>1, <4>2
    <3> HIDE DEF low, bits
    <3>7. Number(low \cup {j}) = Number(low) + 2^j
      BY <3>1, <3>6, NumberAdds
    <3> DEFINE p == 2^j
    <3>8. n % (2 * p) = IF (n \div p) % 2 = 1 THEN (n % p) + p ELSE n % p
      <4> HIDE DEF p
      <4>1. p \in Nat \ {0}
        BY <3>3 DEF p
      <4>2. n \in Int
        OBVIOUS
      <4> QED
        BY <4>1, <4>2, RemainderGrows
    <3>9. Number(Low(bits, k)) = n % 2^k
      BY <3>2, <3>3, <3>4, <3>5, <3>7, <3>8
    <3> QED
      BY <2>1, <3>9 DEF bits
  <2> QED
    BY <2>2, <2>3
<1> QED
  BY <1>1, <1>3

\* An element comes back whole if it is less than the powers of both widths,
\* that it was packed with and that it is unpacked to.
LEMMA NumberOfElement ==
  ASSUME NEW n \in Nat, NEW width \in 0 .. WordBits, NEW bits \in 0 .. WordBits,
         n < 2^width, n < 2^bits
  PROVE  Number(Low(Low(Bits(n), width), bits)) = n
<1> DEFINE w == IF width <= bits THEN width ELSE bits
<1>1. w \in 0 .. WordBits /\ w \in Nat /\ n < 2^w
  BY SizesAreNumbers
<1>2. Low(Low(Bits(n), width), bits) = Low(Bits(n), w)
  BY SizesAreNumbers DEF Low
<1> HIDE DEF w
<1>3. Number(Low(Bits(n), w)) = n % 2^w
  BY <1>1, NumberOfLowBits
<1>4. n % 2^w = n
  <2> DEFINE p == 2^w
  <2>1. p \in Nat \ {0} /\ n < p
    BY <1>1, PowersGrow
  <2> HIDE DEF p
  <2>2. n % p = n
    BY <2>1
  <2> QED
    BY <2>2 DEF p
<1> QED
  BY <1>2, <1>3, <1>4

\* get_bit_width finds a width for every word.
LEMMA BitWidthSuffices ==
  ASSUME NEW n \in Nat, n < 2^WordBits
  PROVE  GetBitWidth(n) \in 1 .. WordBits /\ n < 2^GetBitWidth(n)
<1> DEFINE S == {w \in Nat : w \in 1 .. WordBits /\ n < 2^w}
<1>1. WordBits \in S
  BY SizesAreNumbers
<1>2. PICK w \in S : \A v \in S : w <= v
  BY <1>1, LeastElement
<1>3. w = 1 \/ 2^(w - 1) <= n
  <2> SUFFICES ASSUME w # 1, ~(2^(w - 1) <= n) PROVE FALSE
    OBVIOUS
  <2> DEFINE v == w - 1
  <2>1. v \in Nat /\ v \in 1 .. WordBits /\ v < w
    BY <1>2, SizesAreNumbers
  <2>2. 2^v \in Nat
    BY <2>1, PowersGrow
  <2>3. v \notin S
    BY <1>2, <2>1
  <2> QED
    BY <2>1, <2>2, <2>3
<1> QED
  BY <1>2, <1>3 DEF GetBitWidth

-----------------------------------------------------------------------------
(* Integer types.                                                          *)

\* A type of bits that fit in a word.
IntegerType(t) == t.bits \in 1 .. WordBits

\* A value of such a type.
ValueOf(v, t) == v \in MinOf(t) .. MaxOf(t)

\* Its range, in terms of how many values it has.
LEMMA RangeOfType ==
  ASSUME NEW t, IntegerType(t), NEW h, h = 2^(t.bits - 1)
  PROVE  /\ h \in Nat \ {0}
         /\ 2^t.bits = 2 * h
         /\ 2^t.bits \in Nat \ {0}
         /\ 2^t.bits <= 2^WordBits
         /\ t.bits \in 0 .. WordBits
         /\ MinOf(t) \in Int /\ MaxOf(t) \in Int
         /\ MinOf(t) = IF t.signed THEN -h ELSE 0
         /\ MaxOf(t) = IF t.signed THEN h - 1 ELSE 2 * h - 1
<1> DEFINE b == t.bits - 1
<1>1. b \in Nat /\ t.bits = b + 1 /\ t.bits \in Nat /\ WordBits \in Nat /\ t.bits \in 0 .. WordBits
  BY SizesAreNumbers DEF IntegerType
<1>2. h \in Nat \ {0} /\ h = 2^b
  BY <1>1, PowersGrow
<1>3. 2^t.bits = 2 * h
  BY <1>1, <1>2, PowerDoubles
<1>4. 2^t.bits \in Nat \ {0} /\ 2^t.bits <= 2^WordBits
  BY <1>1, PowersGrow
<1> HIDE DEF b
<1>5. /\ MinOf(t) = IF t.signed THEN -h ELSE 0
      /\ MaxOf(t) = IF t.signed THEN h - 1 ELSE 2 * h - 1
  BY <1>3 DEF MinOf, MaxOf
<1> QED
  BY <1>1, <1>2, <1>3, <1>4, <1>5

\* The remainder of a sum with multiples.
LEMMA RemainderOf ==
  ASSUME NEW m \in Nat \ {0}, NEW k \in Int, NEW x \in 0 .. m - 1, NEW n, n = k * m + x
  PROVE  n % m = x
<1> DEFINE q == n \div m
           r == n % m
<1>1. n \in Int
  OBVIOUS
<1>2. q \in Int /\ r \in 0 .. m - 1 /\ n = q * m + r
  BY <1>1, Division
<1> HIDE DEF q, r
<1>3. r = x
  BY <1>2, OneBlock
<1> QED
  BY <1>3 DEF r

\* The same below zero.
LEMMA RemainderBelow ==
  ASSUME NEW m \in Nat \ {0}, NEW k \in Int, NEW v \in Int, v + m \in 0 .. m - 1,
         NEW n, n = v + k * m
  PROVE  n % m = v + m
<1> DEFINE l == k - 1
           x == v + m
<1>1. l \in Int /\ x \in 0 .. m - 1
  OBVIOUS
<1>2. n = l * m + x
  OBVIOUS
<1> HIDE DEF l, x
<1>3. n % m = x
  BY <1>1, <1>2, RemainderOf
<1> QED
  BY <1>3 DEF x

\* A cast gives the value of the type that is the number or a multiple of
\* 2^bits away from it.
LEMMA NativeRestores ==
  ASSUME NEW t, IntegerType(t), NEW v, ValueOf(v, t), NEW k \in Int,
         NEW n, n = v + k * 2^t.bits
  PROVE  Native(n, t) = v
<1> DEFINE h == 2^(t.bits - 1)
           m == 2^t.bits
<1>1. /\ h \in Nat \ {0} /\ m = 2 * h /\ m \in Nat \ {0}
      /\ MinOf(t) = IF t.signed THEN -h ELSE 0
      /\ MaxOf(t) = IF t.signed THEN h - 1 ELSE 2 * h - 1
  BY RangeOfType
<1>2. Native(n, t) = IF n % m > MaxOf(t) THEN (n % m) - m ELSE n % m
  BY DEF Native, Unsigned
<1>3. n = v + k * m
  OBVIOUS
<1> HIDE DEF h, m
<1>4. v \in Int
  BY <1>1 DEF ValueOf
<1>5. CASE v >= 0
  <2>1. v \in 0 .. m - 1 /\ v <= MaxOf(t)
    BY <1>1, <1>4, <1>5 DEF ValueOf
  <2>2. n = k * m + v
    BY <1>1, <1>3, <1>4
  <2>3. n % m = v
    BY <1>1, <2>1, <2>2, RemainderOf
  <2> QED
    BY <1>1, <1>2, <1>4, <2>1, <2>3
<1>6. CASE v < 0
  <2>1. t.signed /\ v + m \in 0 .. m - 1 /\ v + m > MaxOf(t)
    BY <1>1, <1>4, <1>6 DEF ValueOf
  <2>2. n % m = v + m
    <3>1. v + m \in 0 .. m - 1
      BY <2>1
    <3> QED
      BY <1>1, <1>3, <1>4, <3>1, RemainderBelow
  <2>3. (v + m) - m = v
    BY <1>1, <1>4
  <2> QED
    BY <1>2, <2>1, <2>2, <2>3
<1> QED
  BY <1>4, <1>5, <1>6

\* A cast to the unsigned type gives such a number too.
LEMMA UnsignedIsNear ==
  ASSUME NEW t, IntegerType(t), NEW n \in Int
  PROVE  /\ Unsigned(n, t) \in 0 .. 2^t.bits - 1
         /\ \E k \in Int : Unsigned(n, t) = n + k * 2^t.bits
<1> DEFINE m == 2^t.bits
           q == n \div m
           r == n % m
<1>1. m \in Nat \ {0}
  BY RangeOfType
<1> HIDE DEF m
<1>2. q \in Int /\ r \in 0 .. m - 1 /\ n = q * m + r
  BY <1>1, Division
<1>3. Unsigned(n, t) = r
  BY DEF Unsigned, m
<1> HIDE DEF q, r
<1>4. -q \in Int /\ r = n + (-q) * m
  BY <1>1, <1>2
<1> QED
  BY <1>2, <1>3, <1>4 DEF m

\* And so does one to the type itself.
LEMMA NativeIsNear ==
  ASSUME NEW t, IntegerType(t), NEW n \in Int
  PROVE  /\ ValueOf(Native(n, t), t)
         /\ \E k \in Int : Native(n, t) = n + k * 2^t.bits
<1> DEFINE h == 2^(t.bits - 1)
           m == 2^t.bits
           u == Unsigned(n, t)
<1>1. /\ h \in Nat \ {0} /\ m = 2 * h /\ m \in Nat \ {0}
      /\ MinOf(t) = IF t.signed THEN -h ELSE 0
      /\ MaxOf(t) = IF t.signed THEN h - 1 ELSE 2 * h - 1
  BY RangeOfType
<1>2. u \in 0 .. m - 1 /\ \E k \in Int : u = n + k * m
  BY UnsignedIsNear
<1>3. Native(n, t) = IF u > MaxOf(t) THEN u - m ELSE u
  BY DEF Native
<1>4. PICK k \in Int : u = n + k * m
  BY <1>2
<1> HIDE DEF h, m, u
<1>5. ValueOf(Native(n, t), t)
  BY <1>1, <1>2, <1>3 DEF ValueOf
<1>6. k - 1 \in Int /\ u - m = n + (k - 1) * m
  BY <1>1, <1>4
<1>7. \E l \in Int : Native(n, t) = n + l * m
  BY <1>3, <1>4, <1>6
<1> QED
  BY <1>5, <1>7 DEF m

-----------------------------------------------------------------------------
(* Arrays of integers.                                                     *)

\* A slice that begins on a byte of its null bitmap.
ByteSlice(a) ==
  /\ Len(a.slots) \in Nat /\ a.offset \in 0 .. Len(a.slots) /\ a.offset % ByteBits = 0
  /\ \A i \in Index(a) : SlotAt(a, i).valid \in BOOLEAN

\* One with values of type t.  What its null slots hold does not matter.
IntegerSlice(a, t) ==
  ByteSlice(a) /\ \A i \in ValidIn(a) : ValueOf(SlotAt(a, i).value, t)

\* Numbers in a range have a least and a greatest one.
LEMMA ExtremesExist ==
  ASSUME NEW lo \in Int, NEW hi \in Int, NEW S \in SUBSET (lo .. hi), S # {}
  PROVE  /\ Min(S) \in S /\ \A x \in S : Min(S) <= x
         /\ Max(S) \in S /\ \A x \in S : x <= Max(S)
<1>1. \E x \in S : \A y \in S : x <= y
  <2> DEFINE up == {n \in Nat : n + lo \in S}
  <2>1. \A x \in S : x - lo \in up
    <3> TAKE x \in S
    <3>1. (x - lo) + lo = x /\ x - lo \in Nat
      OBVIOUS
    <3> QED
      BY <3>1
  <2>2. up # {}
    BY <2>1
  <2>3. PICK n \in up : \A m \in up : n <= m
    BY <2>2, LeastElement
  <2>4. \A y \in S : n + lo <= y
    BY <2>1, <2>3
  <2> QED
    BY <2>3, <2>4
<1>2. \E x \in S : \A y \in S : y <= x
  <2> DEFINE down == {n \in Nat : hi - n \in S}
  <2>1. \A x \in S : hi - x \in down
    <3> TAKE x \in S
    <3>1. hi - (hi - x) = x /\ hi - x \in Nat
      OBVIOUS
    <3> QED
      BY <3>1
  <2>2. down # {}
    BY <2>1
  <2>3. PICK n \in down : \A m \in down : n <= m
    BY <2>2, LeastElement
  <2>4. \A y \in S : y <= hi - n
    <3> TAKE y \in S
    <3>1. hi - y \in down /\ y \in Int /\ n \in Int
      BY <2>1, <2>3
    <3> HIDE DEF down
    <3>2. n <= hi - y
      BY <2>3, <3>1
    <3> QED
      BY <3>1, <3>2
  <2>5. hi - n \in S
    BY <2>3
  <2> QED
    BY <2>4, <2>5
<1>3. Min(S) \in S /\ \A x \in S : Min(S) <= x
  BY <1>1 DEF Min
<1>4. Max(S) \in S /\ \A x \in S : x <= Max(S)
  BY <1>2 DEF Max
<1> QED
  BY <1>3, <1>4

\* Its length and its valid slots.
LEMMA SliceIs ==
  ASSUME NEW a, ByteSlice(a)
  PROVE  /\ Length(a) \in Nat /\ Index(a) = 0 .. Length(a) - 1
         /\ ValidIn(a) \in SUBSET Index(a)
         /\ \A i \in Index(a) : i \in ValidIn(a) <=> SlotAt(a, i).valid
BY DEF ByteSlice, Length, Index, ValidIn

\* Without nulls every slot is valid.
LEMMA NothingIsNull ==
  ASSUME NEW a, ByteSlice(a), NullCount(a) = 0
  PROVE  ValidIn(a) = Index(a)
<1>1. Length(a) \in Nat /\ Index(a) = 0 .. Length(a) - 1 /\ ValidIn(a) \in SUBSET Index(a)
  BY SliceIs
<1>2. IsFiniteSet(Index(a)) /\ Cardinality(Index(a)) = Length(a)
  <2>1. \A n \in Nat : IsFiniteSet(0 .. n - 1) /\ Cardinality(0 .. n - 1) = n
    <3> TAKE n \in Nat
    <3>1. 0 \in Int /\ n - 1 \in Int
      OBVIOUS
    <3>2. /\ IsFiniteSet(0 .. n - 1)
          /\ Cardinality(0 .. n - 1) = IF 0 > n - 1 THEN 0 ELSE (n - 1) - 0 + 1
      BY <3>1, FS_Interval
    <3> QED
      BY <3>2
  <2> QED
    BY <1>1, <2>1
<1>3. Cardinality(ValidIn(a)) \in Nat
  BY <1>1, <1>2, FS_Subset, FS_CardinalityType
<1>4. Cardinality(ValidIn(a)) = Cardinality(Index(a))
  BY <1>1, <1>2, <1>3 DEF NullCount
<1> QED
  BY <1>1, <1>2, <1>4, FS_Subset

\* The null bitmap of a slice has its nulls, be it left out when there are
\* none.
LEMMA NullsAreKept ==
  ASSUME NEW a, ByteSlice(a), NEW packed, packed.nulls = NullBits(a),
         NEW i \in Index(a)
  PROVE  IsNull(packed, i) <=> i \notin ValidIn(a)
<1>1. /\ Length(a) \in Nat /\ Index(a) = 0 .. Length(a) - 1
      /\ ValidIn(a) \in SUBSET Index(a)
      /\ \A j \in Index(a) : j \in ValidIn(a) <=> SlotAt(a, j).valid
  BY SliceIs
<1>2. CASE NullCount(a) = 0
  <2>1. ValidIn(a) = Index(a)
    BY <1>2, NothingIsNull
  <2>2. packed.nulls = <<>>
    BY <1>2 DEF NullBits
  <2> QED
    BY <2>1, <2>2 DEF IsNull
<1>3. CASE NullCount(a) # 0
  <2>1. packed.nulls =
          [j \in Index(a) |-> a.slots[(a.offset - (a.offset % ByteBits)) + j + 1].valid]
    BY <1>3 DEF NullBits
  <2>2. a.offset - (a.offset % ByteBits) = a.offset
    BY DEF ByteSlice
  <2>3. packed.nulls[i] = SlotAt(a, i).valid
    BY <2>1, <2>2 DEF SlotAt
  <2>4. packed.nulls # <<>>
    <3>1. 0 \in DOMAIN packed.nulls
      BY <1>1, <2>1
    <3>2. 0 \notin DOMAIN <<>>
      OBVIOUS
    <3> QED
      BY <3>1, <3>2
  <2> QED
    BY <1>1, <2>3, <2>4 DEF IsNull
<1> QED
  BY <1>2, <1>3

\* A number that fits both widths comes back from a packed array.
LEMMA NumberComesBack ==
  ASSUME NEW packed, NEW words, NEW width, PackedOf(packed, words, width),
         NEW i \in 0 .. Len(words) - 1, NEW bits \in 0 .. WordBits, NEW x \in Nat
  PROVE  words[i + 1] = Bits(x) /\ x < 2^width /\ x < 2^bits
           => Number(BulkUnpack(packed, bits)[i]) = x
<1>1. BulkUnpack(packed, bits)[i] = Low(Low(words[i + 1], width), bits)
  BY BulkUnpackFindsElements
<1>2. x < 2^width /\ x < 2^bits => Number(Low(Low(Bits(x), width), bits)) = x
  <2>1. width \in 0 .. WordBits
    BY DEF PackedOf
  <2> QED
    BY <2>1, NumberOfElement
<1> QED
  BY <1>1, <1>2

\* So do those of an array, in their order.
LEMMA NumbersComeBack ==
  ASSUME NEW a, Length(a) \in Nat, NEW f, NEW nulls,
         NEW width \in 0 .. WordBits, NEW bits \in 0 .. WordBits,
         NEW packed, packed = Pack(Words(a, f), nulls, width)
  PROVE  /\ DOMAIN BulkUnpack(packed, bits) = Index(a)
         /\ packed.nulls = nulls
         /\ \A i \in Index(a) :
              f[i] \in Nat /\ f[i] < 2^width /\ f[i] < 2^bits
                => Number(BulkUnpack(packed, bits)[i]) = f[i]
<1> DEFINE words == Words(a, f)
           n == Length(a)
<1>1. /\ words \in Seq(SUBSET Int) /\ Len(words) = n
      /\ \A i \in 0 .. n - 1 : words[i + 1] = Bits(f[i])
  <2>1. \A m : Bits(m) \in SUBSET Int
    BY SizesAreNumbers DEF Bits
  <2>2. words = [i \in 1 .. n |-> Bits(f[i - 1])]
    BY DEF Words
  <2>3. \A i \in 0 .. n - 1 : i + 1 \in 1 .. n /\ (i + 1) - 1 = i
    OBVIOUS
  <2> HIDE DEF words, n
  <2>4. n \in Nat
    BY DEF n
  <2>5. words \in Seq(SUBSET Int) /\ Len(words) = n
    BY <2>1, <2>2, <2>4
  <2> QED
    BY <2>2, <2>3, <2>5
<1> HIDE DEF words
<1>2. PackedOf(packed, words, width)
  BY <1>1, PackKeepsElements DEF words
<1>3. packed.nulls = nulls
  BY DEF Pack
<1>4. DOMAIN BulkUnpack(packed, bits) = Index(a)
  BY <1>1, <1>2 DEF BulkUnpack, PackedOf, Index
<1>5. ASSUME NEW i \in Index(a), f[i] \in Nat, f[i] < 2^width, f[i] < 2^bits
      PROVE  Number(BulkUnpack(packed, bits)[i]) = f[i]
  <2>1. i \in 0 .. Len(words) - 1 /\ words[i + 1] = Bits(f[i])
    BY <1>1 DEF Index
  <2> QED
    BY <1>2, <1>5, <2>1, NumberComesBack
<1> QED
  BY <1>3, <1>4, <1>5

\* An array without valid slots is all null when it is read.
LEMMA NothingIsValid ==
  ASSUME NEW a, ByteSlice(a), ValidIn(a) = {}, NEW bits
  PROVE  /\ DOMAIN BulkUnpack(PackZeros(a), bits) = Index(a)
         /\ \A i \in Index(a) : IsNull(PackZeros(a), i)
<1> DEFINE zeros == [i \in 1 .. Length(a) |-> {}]
           packed == PackZeros(a)
<1>1. Length(a) \in Nat /\ Index(a) = 0 .. Length(a) - 1
  BY SliceIs
<1>2. zeros \in Seq(SUBSET Int) /\ Len(zeros) = Length(a)
  BY <1>1
<1>3. packed = Pack(zeros, AllNull(a), 0)
  BY DEF PackZeros
<1> HIDE DEF zeros
<1>4. packed.length = Length(a) /\ packed.nulls = AllNull(a)
  <2>1. packed.length = Len(zeros) /\ packed.nulls = AllNull(a)
    BY <1>3 DEF Pack
  <2> QED
    BY <1>2, <2>1
<1>5. DOMAIN BulkUnpack(packed, bits) = Index(a)
  BY <1>1, <1>4 DEF BulkUnpack
<1>6. ASSUME NEW i \in Index(a) PROVE IsNull(packed, i)
  <2>1. ~packed.nulls[i]
    BY <1>4 DEF AllNull
  <2>2. packed.nulls # <<>>
    <3>1. 0 \in DOMAIN packed.nulls
      BY <1>1, <1>4 DEF AllNull
    <3>2. 0 \notin DOMAIN <<>>
      OBVIOUS
    <3> QED
      BY <3>1, <3>2
  <2> QED
    BY <2>1, <2>2 DEF IsNull
<1> QED
  BY <1>5, <1>6

-----------------------------------------------------------------------------
(* The frame of reference.                                                 *)

\* The unsigned differences of numbers to the least of them, packed as wide as
\* the greatest difference needs.
Differences(a, e, min, max, nulls, t) ==
  Pack(Words(a, [i \in Index(a) |-> Unsigned(e[i] - min, t)]), nulls,
       GetBitWidth(Unsigned(max - min, t)))

\* Each comes back if it fits the width.
LEMMA DifferencesArePacked ==
  ASSUME NEW t, t.bits \in 0 .. WordBits, NEW a, Length(a) \in Nat, NEW e,
         NEW min, NEW max, NEW nulls, GetBitWidth(Unsigned(max - min, t)) \in 0 .. WordBits
  PROVE  /\ DOMAIN BulkUnpack(Differences(a, e, min, max, nulls, t), t.bits) = Index(a)
         /\ Differences(a, e, min, max, nulls, t).nulls = nulls
         /\ \A i \in Index(a) :
              /\ Unsigned(e[i] - min, t) \in Nat /\ Unsigned(e[i] - min, t) < 2^t.bits
              /\ Unsigned(e[i] - min, t) < 2^GetBitWidth(Unsigned(max - min, t))
              => Number(BulkUnpack(Differences(a, e, min, max, nulls, t), t.bits)[i])
                   = Unsigned(e[i] - min, t)
<1> DEFINE offsets == [i \in Index(a) |-> Unsigned(e[i] - min, t)]
           width == GetBitWidth(Unsigned(max - min, t))
           packed == Differences(a, e, min, max, nulls, t)
<1>1. packed = Pack(Words(a, offsets), nulls, width)
  BY DEF Differences
<1>2. \A i \in Index(a) : offsets[i] = Unsigned(e[i] - min, t)
  OBVIOUS
<1> HIDE DEF width, offsets, packed
<1>3. /\ DOMAIN BulkUnpack(packed, t.bits) = Index(a)
      /\ packed.nulls = nulls
      /\ \A i \in Index(a) :
           offsets[i] \in Nat /\ offsets[i] < 2^width /\ offsets[i] < 2^t.bits
             => Number(BulkUnpack(packed, t.bits)[i]) = offsets[i]
  <2>1. width \in 0 .. WordBits
    BY DEF width
  <2> QED
    BY <1>1, <2>1, NumbersComeBack
<1> QED
  BY <1>2, <1>3 DEF width, packed

\* The numbers of slots V lie between two of a type.
Bounded(a, V, e, min, max, t) ==
  /\ V \subseteq Index(a)
  /\ ValueOf(min, t) /\ ValueOf(max, t) /\ min <= max
  /\ \A i \in V : ValueOf(e[i], t) /\ min <= e[i] /\ e[i] <= max

\* Numbers of a type come back from them.  What else is packed beside those of
\* slots V does not matter.
LEMMA DifferencesComeBack ==
  ASSUME NEW t, IntegerType(t), NEW a, Length(a) \in Nat,
         NEW V, NEW e, NEW min, NEW max, Bounded(a, V, e, min, max, t), NEW nulls
  PROVE  /\ DOMAIN BulkUnpack(Differences(a, e, min, max, nulls, t), t.bits) = Index(a)
         /\ Differences(a, e, min, max, nulls, t).nulls = nulls
         /\ \A i \in V :
              Native(min + Number(BulkUnpack(Differences(a, e, min, max, nulls, t), t.bits)[i]), t)
                = e[i]
<1> DEFINE packed == Differences(a, e, min, max, nulls, t)
           temp == BulkUnpack(packed, t.bits)
           width == GetBitWidth(Unsigned(max - min, t))
           m == 2^t.bits
<1>1. /\ m \in Nat \ {0} /\ m <= 2^WordBits /\ t.bits \in 0 .. WordBits
      /\ MinOf(t) \in Int /\ MaxOf(t) \in Int /\ MaxOf(t) - MinOf(t) < m
  BY RangeOfType
<1>2. /\ min \in Int /\ max \in Int /\ max - min \in 0 .. m - 1
      /\ \A i \in V : e[i] \in Int /\ e[i] - min \in 0 .. m - 1 /\ e[i] - min <= max - min
  <2> HIDE DEF m
  <2>1. /\ min \in Int /\ MinOf(t) <= min /\ min <= MaxOf(t)
        /\ max \in Int /\ MinOf(t) <= max /\ max <= MaxOf(t)
    BY <1>1 DEF ValueOf, Bounded
  <2>2. ASSUME NEW i \in V
        PROVE  e[i] \in Int /\ e[i] - min \in 0 .. m - 1 /\ e[i] - min <= max - min
    <3>1. e[i] \in Int /\ MinOf(t) <= e[i] /\ e[i] <= MaxOf(t) /\ min <= e[i] /\ e[i] <= max
      BY <1>1 DEF ValueOf, Bounded
    <3> QED
      BY <1>1, <2>1, <3>1
  <2>3. min <= max
    BY DEF Bounded
  <2> QED
    BY <1>1, <2>1, <2>2, <2>3
<1>3. \A x \in 0 .. m - 1 : Unsigned(x, t) = x
  <2>1. \A x : Unsigned(x, t) = x % m
    BY DEF Unsigned
  <2> HIDE DEF m
  <2> QED
    BY <1>1, <2>1
<1>4. width \in 0 .. WordBits /\ max - min < 2^width
  <2>1. max - min \in Nat /\ Unsigned(max - min, t) = max - min
    BY <1>1, <1>2, <1>3
  <2>2. max - min < 2^WordBits /\ 2^WordBits \in Int
    BY <1>1, <1>2, SizesAreNumbers, PowersGrow
  <2> QED
    BY <2>1, <2>2, BitWidthSuffices
<1>5. /\ DOMAIN temp = Index(a)
      /\ packed.nulls = nulls
      /\ \A i \in Index(a) :
           /\ Unsigned(e[i] - min, t) \in Nat /\ Unsigned(e[i] - min, t) < m
           /\ Unsigned(e[i] - min, t) < 2^width
           => Number(temp[i]) = Unsigned(e[i] - min, t)
  BY <1>1, <1>4, DifferencesArePacked
<1>6. ASSUME NEW i \in V PROVE Native(min + Number(temp[i]), t) = e[i]
  <2> DEFINE v == e[i]
             n == min + Number(temp[i])
  <2>1. i \in Index(a) /\ v \in Int /\ ValueOf(v, t)
    BY <1>2 DEF Bounded
  <2>2. Unsigned(v - min, t) = v - min /\ v - min \in 0 .. m - 1 /\ v - min <= max - min
    BY <1>2, <1>3
  <2>3. 2^width \in Int
    BY <1>4, PowersGrow, SizesAreNumbers
  <2>4. Number(temp[i]) = v - min
    <3> HIDE DEF temp, width, packed, m
    <3>1. v - min \in Nat /\ v - min < m /\ v - min < 2^width
      BY <1>1, <1>2, <1>4, <2>1, <2>2, <2>3
    <3> QED
      BY <1>5, <2>1, <2>2, <3>1
  <2>5. n = v + 0 * m
    BY <1>1, <1>2, <2>1, <2>4
  <2> HIDE DEF v, m, n
  <2> QED
    BY <2>1, <2>5, NativeRestores DEF v, m, n
<1> QED
  BY <1>5, <1>6

\* The least and the greatest of the numbers of slots are such bounds.
LEMMA ExtremesOfType ==
  ASSUME NEW t, IntegerType(t), NEW S, S # {}, \A x \in S : ValueOf(x, t)
  PROVE  /\ Min(S) \in S /\ ValueOf(Min(S), t)
         /\ Max(S) \in S /\ ValueOf(Max(S), t)
         /\ Min(S) <= Max(S)
         /\ \A x \in S : Min(S) <= x /\ x <= Max(S)
<1>1. MinOf(t) \in Int /\ MaxOf(t) \in Int /\ S \in SUBSET (MinOf(t) .. MaxOf(t))
  BY RangeOfType DEF ValueOf
<1>2. /\ Min(S) \in S /\ \A x \in S : Min(S) <= x
      /\ Max(S) \in S /\ \A x \in S : x <= Max(S)
  BY <1>1, ExtremesExist
<1> QED
  BY <1>2

\* A slice of integers comes back from LiquidPrimitiveArray, its differences
\* to the least of its values unsigned and as wide as the greatest needs.
THEOREM FrameOfReferenceRestores ==
  ASSUME NEW t, IntegerType(t), NEW a, IntegerSlice(a, t)
  PROVE  Restores(ToArrow(FromArrow(a, t), t), a)
<1> DEFINE liquid == FromArrow(a, t)
           decoded == ToArrow(liquid, t)
           temp == BulkUnpack(liquid.packed, t.bits)
           valid == ValidIn(a)
<1>1. /\ Length(a) \in Nat /\ Index(a) = 0 .. Length(a) - 1
      /\ valid \in SUBSET Index(a)
      /\ \A i \in Index(a) : i \in valid <=> SlotAt(a, i).valid
      /\ \A i \in valid : ValueOf(SlotAt(a, i).value, t)
  BY SliceIs DEF IntegerSlice
<1>2. decoded = [i \in DOMAIN temp |->
                   [valid |-> ~IsNull(liquid.packed, i),
                    value |-> Native(liquid.reference + Number(temp[i]), t)]]
  BY DEF ToArrow
<1>3. ASSUME DOMAIN temp = Index(a),
             \A i \in Index(a) : IsNull(liquid.packed, i) <=> i \notin valid,
             \A i \in valid : Native(liquid.reference + Number(temp[i]), t) = SlotAt(a, i).value
      PROVE  Restores(decoded, a)
  <2> HIDE DEF liquid, decoded, temp, valid
  <2> SUFFICES ASSUME NEW i \in Index(a)
               PROVE  /\ decoded[i].valid = SlotAt(a, i).valid
                      /\ decoded[i].valid => decoded[i].value = SlotAt(a, i).value
    BY <1>2, <1>3 DEF Restores
  <2>1. /\ decoded[i].valid = ~IsNull(liquid.packed, i)
        /\ decoded[i].value = Native(liquid.reference + Number(temp[i]), t)
    BY <1>2, <1>3
  <2>2. decoded[i].valid <=> SlotAt(a, i).valid
    BY <1>1, <1>3, <2>1
  <2>3. decoded[i].valid \in BOOLEAN /\ SlotAt(a, i).valid \in BOOLEAN
    BY <2>1 DEF IntegerSlice, ByteSlice
  <2> QED
    BY <1>1, <1>3, <2>1, <2>2, <2>3
<1>4. CASE valid = {}
  <2>1. liquid.packed = PackZeros(a)
    BY <1>4 DEF FromArrow
  <2>2. DOMAIN temp = Index(a) /\ \A i \in Index(a) : IsNull(liquid.packed, i)
    BY <1>4, <2>1, NothingIsValid DEF IntegerSlice
  <2> QED
    BY <1>3, <1>4, <2>2
<1>5. CASE valid # {}
  <2> DEFINE e == [i \in Index(a) |-> SlotAt(a, i).value]
             min == Min(ValuesOf(a))
             max == Max(ValuesOf(a))
             packed == Differences(a, e, min, max, NullBits(a), t)
  <2>1. [i \in Index(a) |-> Unsigned(e[i] - min, t)]
          = [i \in Index(a) |-> Unsigned(SlotAt(a, i).value - min, t)]
    <3> HIDE DEF min
    <3> QED
      OBVIOUS
  <2>2. liquid.reference = min /\ liquid.packed = packed
    BY <1>5, <2>1 DEF FromArrow, Differences
  <2>3. \A i \in valid : e[i] = SlotAt(a, i).value
    BY <1>1
  <2>4. ValuesOf(a) = {e[i] : i \in valid}
    BY <2>3 DEF ValuesOf
  <2>5. /\ DOMAIN BulkUnpack(packed, t.bits) = Index(a)
        /\ packed.nulls = NullBits(a)
        /\ \A i \in valid : Native(min + Number(BulkUnpack(packed, t.bits)[i]), t) = e[i]
    <3>1. ValuesOf(a) # {} /\ \A x \in ValuesOf(a) : ValueOf(x, t)
      BY <1>1, <1>5 DEF ValuesOf
    <3>2. /\ ValueOf(min, t) /\ ValueOf(max, t) /\ min <= max
          /\ \A x \in ValuesOf(a) : min <= x /\ x <= max
      BY <3>1, ExtremesOfType
    <3>3. valid \subseteq Index(a) /\ \A i \in valid : e[i] \in ValuesOf(a)
      BY <1>1, <2>4
    <3> HIDE DEF e, valid, min, max
    <3>4. \A i \in valid : ValueOf(e[i], t) /\ min <= e[i] /\ e[i] <= max
      BY <3>1, <3>2, <3>3
    <3>5. Length(a) \in Nat /\ valid \subseteq Index(a)
      BY <1>1, <3>3
    <3>6. Bounded(a, valid, e, min, max, t)
      BY <3>2, <3>4, <3>5 DEF Bounded
    <3> QED
      BY <3>5, <3>6, DifferencesComeBack
  <2>6. \A i \in Index(a) : IsNull(packed, i) <=> i \notin valid
    BY <2>5, NullsAreKept DEF IntegerSlice
  <2> HIDE DEF packed, min, e, valid
  <2> QED
    BY <1>3, <2>2, <2>3, <2>5, <2>6
<1> QED
  BY <1>4, <1>5

-----------------------------------------------------------------------------
(* Deltas.                                                                 *)

\* zigzag interleaves negative and other differences, and back, within the
\* type's bits.
LEMMA ZigZagRestores ==
  ASSUME NEW t, IntegerType(t), t.signed, NEW d, ValueOf(d, t)
  PROVE  /\ ZigZag(d) \in 0 .. 2^t.bits - 1
         /\ Unsigned(ZigZag(d), t) = ZigZag(d)
         /\ UnZigZag(ZigZag(d)) = d
<1> DEFINE h == 2^(t.bits - 1)
           m == 2^t.bits
           z == ZigZag(d)
<1>1. /\ h \in Nat \ {0} /\ m = 2 * h /\ m \in Nat \ {0}
      /\ MinOf(t) = IF t.signed THEN -h ELSE 0
      /\ MaxOf(t) = IF t.signed THEN h - 1 ELSE 2 * h - 1
  BY RangeOfType
<1> HIDE DEF h, m
<1>2. d \in Int /\ -h <= d /\ d <= h - 1
  BY <1>1 DEF ValueOf
<1>3. z = IF d >= 0 THEN 2 * d ELSE -2 * d - 1
  BY DEF ZigZag
<1> HIDE DEF z
<1>4. z \in 0 .. m - 1
  BY <1>1, <1>2, <1>3
<1>5. Unsigned(z, t) = z
  BY <1>1, <1>4 DEF Unsigned, m
<1>6. UnZigZag(z) = d
  BY <1>2, <1>3 DEF UnZigZag
<1> QED
  BY <1>4, <1>5, <1>6 DEF z, m

\* The deltas that bits stand for.
Steps(temp) == [j \in DOMAIN temp |-> UnZigZag(Number(temp[j]))]

\* The deltas that DeltaToArrow folds are summed.
LEMMA DeltasAreSummed ==
  ASSUME NEW temp, NEW S \in SUBSET DOMAIN temp, IsFiniteSet(S),
         \A j \in S : Steps(temp)[j] \in Int
  PROVE  MapThenSumSet(LAMBDA j : UnZigZag(Number(temp[j])), S) = Total(Steps(temp), S)
<1> DEFINE w == Steps(temp)
           step(g, s) == IF s = {} THEN 0
                         ELSE LET x == CHOOSE y \in s : TRUE
                              IN  UnZigZag(Number(temp[x])) + g[s \ {x}]
           total == [s \in SUBSET S |-> Total(w, s)]
           iter == CHOOSE g : g = [s \in SUBSET S |-> step(g, s)]
<1>1. MapThenSumSet(LAMBDA j : UnZigZag(Number(temp[j])), S) = iter[S]
  BY DEF MapThenSumSet, MapThenFoldSet
<1>2. \A j \in S : w[j] = UnZigZag(Number(temp[j])) /\ w[j] \in Int
  BY DEF Steps
<1> HIDE DEF w
<1>3. total = [s \in SUBSET S |-> step(total, s)]
  <2>1. ASSUME NEW s \in SUBSET S PROVE total[s] = step(total, s)
    <3>1. CASE s = {}
      BY <3>1, TotalOfNone
    <3>2. CASE s # {}
      <4>1. First(s) \in s /\ Total(w, s) = w[First(s)] + Total(w, s \ {First(s)})
        <5>1. IsFiniteSet(s) /\ \A j \in s : w[j] \in Int
          BY <1>2, FS_Subset
        <5> QED
          BY <3>2, <5>1, TotalFolds
      <4>2. step(total, s) = UnZigZag(Number(temp[First(s)])) + total[s \ {First(s)}]
        BY <3>2 DEF First
      <4> QED
        BY <1>2, <4>1, <4>2
    <3> QED
      BY <3>1, <3>2
  <2> QED
    BY <2>1
<1>4. iter = [s \in SUBSET S |-> step(iter, s)]
  <2> HIDE DEF total
  <2> QED
    BY <1>3
<1> HIDE DEF iter
<1>5. \A s \in SUBSET S : iter[s] = IF s = {} THEN 0
                                    ELSE LET x == CHOOSE y \in s : TRUE IN w[x] + iter[s \ {x}]
  <2> TAKE s \in SUBSET S
  <2>1. iter[s] = step(iter, s)
    BY <1>4
  <2>2. CASE s # {}
    <3>1. First(s) \in s
      BY <2>2 DEF First
    <3> QED
      BY <1>2, <2>1, <2>2, <3>1 DEF First
  <2> QED
    BY <2>1, <2>2
<1>6. iter[S] = Total(w, S)
  BY <1>2, <1>5, FoldIsTotal
<1> QED
  BY <1>1, <1>6 DEF w

\* The valid slots that DeltaToArrow has summed at slot i.
StepsUpTo(valid, i) == {j \in valid : j <= i} \ {Min(valid)}

\* The first of the valid slots, and the one before another.
LEMMA ValidSlotsAreOrdered ==
  ASSUME NEW a, ByteSlice(a), ValidIn(a) # {}
  PROVE  /\ IsFiniteSet(ValidIn(a)) /\ ValidIn(a) \in SUBSET Nat
         /\ Min(ValidIn(a)) \in ValidIn(a) /\ \A i \in ValidIn(a) : Min(ValidIn(a)) <= i
         /\ \A i \in ValidIn(a) \ {Min(ValidIn(a))} :
              /\ Previous(a, i) \in ValidIn(a) /\ Previous(a, i) < i
              /\ i \in StepsUpTo(ValidIn(a), i)
              /\ StepsUpTo(ValidIn(a), i) \ {i} = StepsUpTo(ValidIn(a), Previous(a, i))
<1> DEFINE valid == ValidIn(a)
           first == Min(valid)
           top == Length(a) - 1
<1>1. top \in Int /\ valid \in SUBSET (0 .. top)
  BY SliceIs
<1> HIDE DEF valid, top
<1>2. IsFiniteSet(valid) /\ valid \in SUBSET Nat
  <2>1. IsFiniteSet(0 .. top) /\ 0 .. top \in SUBSET Nat
    BY <1>1, FS_Interval
  <2>2. IsFiniteSet(valid)
    BY <1>1, <2>1, FS_Subset
  <2> QED
    BY <1>1, <2>1, <2>2
<1>3. first \in valid /\ \A i \in valid : first <= i
  <2>1. 0 \in Int /\ valid # {}
    BY DEF valid
  <2>2. Min(valid) \in valid /\ \A x \in valid : Min(valid) <= x
    BY <1>1, <2>1, ExtremesExist
  <2> QED
    BY <2>2
<1>4. ASSUME NEW i \in valid \ {first}
      PROVE  /\ Previous(a, i) \in valid /\ Previous(a, i) < i
             /\ i \in StepsUpTo(valid, i)
             /\ StepsUpTo(valid, i) \ {i} = StepsUpTo(valid, Previous(a, i))
  <2> DEFINE before == {j \in valid : j < i}
             prev == Max(before)
  <2>1. Previous(a, i) = prev
    BY DEF Previous, valid
  <2>2. before \in SUBSET (0 .. top) /\ before # {}
    <3> HIDE DEF first
    <3>1. first \in Nat /\ i \in Nat /\ first <= i /\ first # i
      BY <1>2, <1>3
    <3>2. first < i
      BY <3>1
    <3> QED
      BY <1>1, <1>3, <3>2
  <2>3. prev \in before /\ \A j \in before : j <= prev
    <3>1. 0 \in Int
      OBVIOUS
    <3> HIDE DEF before
    <3> QED
      BY <1>1, <2>2, <3>1, ExtremesExist
  <2> HIDE DEF prev, first
  <2>4. i \in {j \in valid : j <= i} \ {first}
    BY <1>2
  <2>5. ({j \in valid : j <= i} \ {first}) \ {i} = {j \in valid : j <= prev} \ {first}
    <3> SUFFICES ASSUME NEW j \in valid PROVE j <= i /\ j # i <=> j <= prev
      OBVIOUS
    <3>1. i \in Nat /\ j \in Nat /\ prev \in Nat /\ prev < i
      BY <1>2, <2>3
    <3>2. j < i => j <= prev
      BY <2>3
    <3> QED
      BY <3>1, <3>2
  <2> QED
    BY <2>1, <2>3, <2>4, <2>5 DEF StepsUpTo, first
<1> QED
  BY <1>2, <1>3, <1>4 DEF valid

\* Steps that lead from each valid slot to the next, but for a multiple of the
\* type's range, lead to all of them from the first.
LEMMA StepsReachValues ==
  ASSUME NEW a, ByteSlice(a), ValidIn(a) # {}, NEW m \in Int,
         \A i \in ValidIn(a) : SlotAt(a, i).value \in Int,
         NEW w,
         \A i \in ValidIn(a) \ {Min(ValidIn(a))} :
           \E k \in Int : w[i] = SlotAt(a, i).value - SlotAt(a, Previous(a, i)).value + k * m
  PROVE  \A i \in ValidIn(a) :
           \E k \in Int : SlotAt(a, Min(ValidIn(a))).value + Total(w, StepsUpTo(ValidIn(a), i))
                            = SlotAt(a, i).value + k * m
<1> DEFINE valid == ValidIn(a)
           first == Min(valid)
           v(i) == SlotAt(a, i).value
           reached(i) == \E k \in Int : v(first) + Total(w, StepsUpTo(valid, i)) = v(i) + k * m
           bad == {i \in valid : ~reached(i)}
<1>1. /\ IsFiniteSet(valid) /\ valid \in SUBSET Nat
      /\ first \in valid /\ \A i \in valid : first <= i
      /\ \A i \in valid \ {first} :
           /\ Previous(a, i) \in valid /\ Previous(a, i) < i
           /\ i \in StepsUpTo(valid, i)
           /\ StepsUpTo(valid, i) \ {i} = StepsUpTo(valid, Previous(a, i))
  BY ValidSlotsAreOrdered
<1>2. ASSUME bad # {} PROVE FALSE
  <2>1. bad \in SUBSET Nat
    BY <1>1
  <2>2. PICK i \in bad : \A j \in bad : i <= j
    BY <1>2, <2>1, LeastElement
  <2>0. i \in valid /\ ~reached(i) /\ \A j \in valid : j < i => reached(j)
    <3>1. i \in valid /\ ~reached(i)
      OBVIOUS
    <3>2. ASSUME NEW j \in valid, j < i PROVE reached(j)
      <4>1. i \in Nat /\ j \in Nat
        BY <1>1, <3>1
      <4> HIDE DEF reached
      <4>2. j \notin bad
        <5> HIDE DEF bad
        <5> QED
          BY <2>2, <3>2, <4>1
      <4> QED
        BY <4>2
    <3> QED
      BY <3>1, <3>2
  <2> HIDE DEF valid, first, v, bad, reached
  <2>3. CASE i = first
    <3>1. StepsUpTo(valid, i) = {}
      <4>1. \A x \in valid : x <= first => x = first
        <5> TAKE x \in valid
        <5>1. x \in Nat /\ first \in Nat /\ first <= x
          BY <1>1
        <5> QED
          BY <5>1
      <4> QED
        BY <2>3, <4>1 DEF StepsUpTo, first
    <3>2. v(first) + Total(w, StepsUpTo(valid, i)) = v(i) + 0 * m
      BY <1>1, <2>3, <3>1, TotalOfNone DEF v, valid
    <3> QED
      BY <2>0, <3>2 DEF reached
  <2>4. CASE i # first
    <3> DEFINE j == Previous(a, i)
               s == StepsUpTo(valid, i)
    <3>1. i \in valid \ {first} /\ i \in Nat
      BY <1>1, <2>0, <2>4
    <3>2. j \in valid /\ j < i /\ i \in s /\ s \ {i} = StepsUpTo(valid, j) /\ j \in Nat
      BY <1>1, <3>1
    <3>3. s \in SUBSET (valid \ {first})
      BY DEF StepsUpTo, first
    <3>4. IsFiniteSet(s) /\ \A x \in s : w[x] \in Int
      <4>1. \A x \in valid \ {first} : w[x] \in Int
        <5> TAKE x \in valid \ {first}
        <5>1. v(x) \in Int /\ v(Previous(a, x)) \in Int
          BY <1>1 DEF v, valid
        <5>2. PICK k \in Int : w[x] = v(x) - v(Previous(a, x)) + k * m
          BY DEF v, valid, first
        <5> QED
          BY <5>1, <5>2
      <4>2. IsFiniteSet(s)
        BY <1>1, <3>3, FS_Subset
      <4> QED
        BY <3>3, <4>1, <4>2
    <3> HIDE DEF j, s
    <3>5. /\ Total(w, s \ {i}) \in Int
          /\ Total(w, s) = w[i] + Total(w, s \ {i})
      BY <3>2, <3>4, TotalAdds
    <3>6. PICK k \in Int : w[i] = v(i) - v(j) + k * m
      BY <3>1 DEF v, valid, first, j
    <3>7. PICK l \in Int : v(first) + Total(w, s \ {i}) = v(j) + l * m
      <4>1. reached(j)
        BY <2>0, <3>2
      <4> QED
        BY <3>2, <4>1 DEF reached
    <3>8. v(i) \in Int /\ v(j) \in Int /\ v(first) \in Int
      BY <1>1, <3>1, <3>2 DEF v, valid
    <3>9. v(first) + Total(w, s) = v(i) + (k + l) * m
      <4>1. (k + l) * m = k * m + l * m /\ k * m \in Int /\ l * m \in Int
        OBVIOUS
      <4> DEFINE km == k * m
                 lm == l * m
                 sum == Total(w, s \ {i})
      <4> HIDE DEF km, lm, sum
      <4>2. v(first) + (w[i] + sum) = v(i) + (km + lm)
        <5>1. w[i] = v(i) - v(j) + km /\ v(first) + sum = v(j) + lm
          BY <3>6, <3>7 DEF km, lm, sum
        <5>2. km \in Int /\ lm \in Int /\ sum \in Int
          BY <3>5, <4>1 DEF km, lm, sum
        <5> QED
          BY <3>8, <5>1, <5>2
      <4> QED
        BY <3>5, <4>1, <4>2 DEF km, lm, sum
    <3>10. k + l \in Int
      OBVIOUS
    <3> QED
      <4> DEFINE n == k + l
      <4>1. n \in Int /\ v(first) + Total(w, s) = v(i) + n * m
        BY <3>9, <3>10
      <4> HIDE DEF n
      <4> QED
        BY <2>0, <4>1 DEF s, reached
  <2> QED
    BY <2>3, <2>4
<1> HIDE DEF valid
<1> QED
  BY <1>2 DEF valid

\* The zigzagged difference of slot i to the valid one before it.
ZigZagAt(a, t, i) ==
  IF i \notin ValidIn(a) \/ i = Min(ValidIn(a)) THEN 0
  ELSE Unsigned(ZigZag(Native(SlotAt(a, i).value - SlotAt(a, Previous(a, i)).value, t)), t)

\* It is a number of the type's width, and gives a step from one slot to the
\* other.
LEMMA ZigZagIsStep ==
  ASSUME NEW t, IntegerType(t), t.signed, NEW a, IntegerSlice(a, t), ValidIn(a) # {},
         NEW i \in Index(a)
  PROVE  /\ ZigZagAt(a, t, i) \in 0 .. 2^t.bits - 1
         /\ i \in ValidIn(a) \ {Min(ValidIn(a))} =>
              /\ UnZigZag(ZigZagAt(a, t, i)) \in Int
              /\ \E k \in Int : UnZigZag(ZigZagAt(a, t, i))
                   = SlotAt(a, i).value - SlotAt(a, Previous(a, i)).value + k * 2^t.bits
<1> DEFINE valid == ValidIn(a)
           first == Min(valid)
           v(j) == SlotAt(a, j).value
           m == 2^t.bits
           z == ZigZagAt(a, t, i)
<1>1. \A j \in valid : v(j) \in Int
  <2>1. \A j \in valid : ValueOf(v(j), t)
    BY DEF IntegerSlice
  <2> QED
    BY <2>1, RangeOfType DEF ValueOf
<1>2. m \in Nat \ {0}
  BY RangeOfType
<1>3. CASE ~(i \in valid \ {first})
  <2>1. z = 0
    BY <1>3 DEF ZigZagAt
  <2> HIDE DEF z, m, valid, first
  <2>2. z \in 0 .. m - 1
    BY <1>2, <2>1
  <2> QED
    BY <1>3, <2>2 DEF z, m, valid, first
<1>4. CASE i \in valid \ {first}
  <2> DEFINE j == Previous(a, i)
             d == Native(v(i) - v(j), t)
  <2>1. j \in valid
    BY <1>4, ValidSlotsAreOrdered DEF IntegerSlice
  <2>2. v(i) \in Int /\ v(j) \in Int /\ v(i) - v(j) \in Int
    BY <1>1, <1>4, <2>1
  <2>3. ValueOf(d, t) /\ \E k \in Int : d = v(i) - v(j) + k * m
    <3> DEFINE diff == v(i) - v(j)
    <3>1. diff \in Int
      BY <2>2
    <3> HIDE DEF diff
    <3> QED
      BY <3>1, NativeIsNear DEF diff
  <2>4. z = Unsigned(ZigZag(d), t)
    BY <1>4 DEF ZigZagAt
  <2>5. /\ ZigZag(d) \in 0 .. m - 1
        /\ Unsigned(ZigZag(d), t) = ZigZag(d)
        /\ UnZigZag(ZigZag(d)) = d
    <3> HIDE DEF d
    <3> QED
      BY <2>3, ZigZagRestores
  <2>6. d \in Int
    BY <2>3, RangeOfType DEF ValueOf
  <2> HIDE DEF z, d, m, j, v, valid, first
  <2>7. z \in 0 .. m - 1 /\ UnZigZag(z) = d
    BY <2>4, <2>5
  <2> QED
    BY <2>3, <2>6, <2>7 DEF z, m, j, v
<1> QED
  BY <1>3, <1>4

\* A slice of signed integers comes back from LiquidPrimitiveDeltaArray: its
\* differences may wrap around the type's range, and so may their sums, but
\* the sum at each valid slot is the slot's value modulo that range.
THEOREM DeltasRestore ==
  ASSUME NEW t, IntegerType(t), t.signed, NEW a, IntegerSlice(a, t)
  PROVE  Restores(DeltaToArrow(DeltaFromArrow(a, t), t), a)
<1> DEFINE liquid == DeltaFromArrow(a, t)
           decoded == DeltaToArrow(liquid, t)
           temp == BulkUnpack(liquid.packed, t.bits)
           valid == ValidIn(a)
           first == Min(valid)
           read == {i \in DOMAIN temp : ~IsNull(liquid.packed, i)}
           m == 2^t.bits
           v(i) == SlotAt(a, i).value
           sum(i) == liquid.anchor
                       + MapThenSumSet(LAMBDA j : UnZigZag(Number(temp[j])),
                                       {j \in read : j <= i} \ {Min(read)})
<1>1. /\ Length(a) \in Nat /\ Index(a) = 0 .. Length(a) - 1
      /\ valid \in SUBSET Index(a)
      /\ \A i \in Index(a) : i \in valid <=> SlotAt(a, i).valid
      /\ \A i \in valid : ValueOf(v(i), t)
  BY SliceIs DEF IntegerSlice
<1>2. /\ m \in Nat \ {0} /\ m <= 2^WordBits /\ t.bits \in 0 .. WordBits
  BY RangeOfType
<1>3. decoded = [i \in DOMAIN temp |->
                   [valid |-> i \in read, value |-> IF i \in read THEN Native(sum(i), t) ELSE 0]]
  BY DEF DeltaToArrow
<1>4. ASSUME DOMAIN temp = Index(a),
             \A i \in Index(a) : IsNull(liquid.packed, i) <=> i \notin valid,
             \A i \in valid : Native(sum(i), t) = v(i)
      PROVE  Restores(decoded, a)
  <2> HIDE DEF sum
  <2>1. read = valid
    <3> HIDE DEF valid, temp, liquid
    <3> QED
      BY <1>1, <1>4
  <2> HIDE DEF liquid, decoded, temp, valid, read
  <2> SUFFICES ASSUME NEW i \in Index(a)
               PROVE  /\ decoded[i].valid = SlotAt(a, i).valid
                      /\ decoded[i].valid => decoded[i].value = v(i)
    BY <1>3, <1>4 DEF Restores
  <2>2. /\ decoded[i].valid = (i \in valid)
        /\ i \in valid => decoded[i].value = v(i)
    BY <1>3, <1>4, <2>1
  <2>3. SlotAt(a, i).valid \in BOOLEAN
    BY DEF IntegerSlice, ByteSlice
  <2> QED
    BY <1>1, <2>2, <2>3
<1>5. CASE valid = {}
  <2>1. liquid.packed = PackZeros(a)
    BY <1>5 DEF DeltaFromArrow
  <2>2. DOMAIN temp = Index(a) /\ \A i \in Index(a) : IsNull(liquid.packed, i)
    BY <1>5, <2>1, NothingIsValid DEF IntegerSlice
  <2> QED
    BY <1>4, <1>5, <2>2
<1>6. CASE valid # {}
  <2> DEFINE zigzag == [i \in Index(a) |-> ZigZagAt(a, t, i)]
             all == {zigzag[i] : i \in Index(a)}
             width == GetBitWidth(Max(all))
             packed == Pack(Words(a, zigzag), NullBits(a), width)
  <2>1. liquid = [anchor |-> v(first), packed |-> packed]
    BY <1>6 DEF DeltaFromArrow, ZigZagAt
  <2>2. \A i \in Index(a) :
          /\ zigzag[i] \in 0 .. m - 1
          /\ i \in valid \ {first} =>
               /\ UnZigZag(zigzag[i]) \in Int
               /\ \E k \in Int : UnZigZag(zigzag[i]) = v(i) - v(Previous(a, i)) + k * m
    BY <1>6, ZigZagIsStep
  <2>3. Max(all) \in 0 .. m - 1 /\ \A x \in all : x <= Max(all)
    <3>1. all \in SUBSET (0 .. m - 1) /\ all # {} /\ 0 \in Int /\ m - 1 \in Int
      <4> HIDE DEF zigzag, m, valid
      <4> QED
        BY <1>1, <1>2, <1>6, <2>2
    <3> HIDE DEF all, m
    <3> QED
      BY <3>1, ExtremesExist
  <2>4. width \in 0 .. WordBits /\ Max(all) < 2^width
    <3> DEFINE x == Max(all)
    <3>1. x \in Nat /\ x < 2^WordBits
      <4>1. 2^WordBits \in Int
        BY SizesAreNumbers, PowersGrow
      <4> HIDE DEF x, m, all
      <4> QED
        BY <1>2, <2>3, <4>1 DEF x
    <3> HIDE DEF x
    <3>2. GetBitWidth(x) \in 1 .. WordBits /\ x < 2^GetBitWidth(x)
      BY <3>1, BitWidthSuffices
    <3> QED
      BY <3>2, SizesAreNumbers DEF x
  <2>5. /\ DOMAIN temp = Index(a)
        /\ packed.nulls = NullBits(a)
        /\ \A i \in Index(a) :
             zigzag[i] \in Nat /\ zigzag[i] < 2^width /\ zigzag[i] < m
               => Number(temp[i]) = zigzag[i]
    <3> HIDE DEF width, zigzag
    <3> QED
      BY <1>1, <1>2, <2>1, <2>4, NumbersComeBack
  <2>6. \A i \in Index(a) : IsNull(packed, i) <=> i \notin valid
    BY <2>5, NullsAreKept DEF IntegerSlice
  <2>7. \A i \in Index(a) : Number(temp[i]) = zigzag[i]
    <3> TAKE i \in Index(a)
    <3>1. zigzag[i] \in all
      OBVIOUS
    <3>2. 2^width \in Int
      BY <2>4, PowersGrow, SizesAreNumbers
    <3> HIDE DEF all, width, zigzag, m, temp
    <3> QED
      BY <1>2, <2>2, <2>3, <2>4, <2>5, <3>1, <3>2
  <2>8. read = valid
    <3> HIDE DEF valid, temp, packed
    <3> QED
      BY <1>1, <2>1, <2>5, <2>6
  <2>9. \A j \in valid \ {first} :
          /\ Steps(temp)[j] \in Int
          /\ \E k \in Int : Steps(temp)[j] = v(j) - v(Previous(a, j)) + k * m
    <3> TAKE j \in valid \ {first}
    <3>1. j \in Index(a)
      BY <1>1
    <3> HIDE DEF temp, valid, zigzag, first, m
    <3>2. Steps(temp)[j] = UnZigZag(zigzag[j])
      BY <2>5, <2>7, <3>1 DEF Steps
    <3> QED
      BY <2>2, <3>1, <3>2
  <2>10. \A i \in valid :
           \E k \in Int : v(first) + Total(Steps(temp), StepsUpTo(valid, i)) = v(i) + k * m
    <3>1. \A i \in valid : v(i) \in Int
      BY <1>1, RangeOfType DEF ValueOf
    <3>2. m \in Int
      BY <1>2
    <3> HIDE DEF m
    <3> DEFINE w == Steps(temp)
    <3>3. \A i \in ValidIn(a) \ {Min(ValidIn(a))} :
            \E k \in Int : w[i] = SlotAt(a, i).value - SlotAt(a, Previous(a, i)).value + k * m
      BY <2>9
    <3> HIDE DEF w
    <3> QED
      BY <1>6, <3>1, <3>2, <3>3, StepsReachValues DEF w, IntegerSlice
  <2>11. ASSUME NEW i \in valid PROVE Native(sum(i), t) = v(i)
    <3>1. PICK k \in Int : v(first) + Total(Steps(temp), StepsUpTo(valid, i)) = v(i) + k * m
      BY <2>10
    <3>2. {j \in read : j <= i} \ {Min(read)} = StepsUpTo(valid, i)
      BY <2>8 DEF StepsUpTo
    <3>3. /\ StepsUpTo(valid, i) \in SUBSET DOMAIN temp /\ IsFiniteSet(StepsUpTo(valid, i))
          /\ \A j \in StepsUpTo(valid, i) : Steps(temp)[j] \in Int
      <4>1. IsFiniteSet(valid)
        BY <1>6, ValidSlotsAreOrdered DEF IntegerSlice
      <4>2. StepsUpTo(valid, i) \in SUBSET (valid \ {first})
        BY DEF StepsUpTo
      <4> HIDE DEF valid, first, temp
      <4> QED
        BY <1>1, <2>5, <2>9, <4>1, <4>2, FS_Subset
    <3>4. sum(i) = v(i) + k * m
      <4> DEFINE set == {j \in read : j <= i} \ {Min(read)}
      <4>1. liquid.anchor = v(first)
        BY <2>1
      <4>2. set = StepsUpTo(valid, i)
        BY <3>2
      <4> HIDE DEF temp, set
      <4>3. MapThenSumSet(LAMBDA j : UnZigZag(Number(temp[j])), set) = Total(Steps(temp), set)
        BY <3>3, <4>2, DeltasAreSummed
      <4>4. sum(i) = liquid.anchor + Total(Steps(temp), set)
        BY <4>3 DEF set
      <4> HIDE DEF sum, liquid, valid, v, m
      <4> QED
        BY <3>1, <4>1, <4>2, <4>4
    <3>5. ValueOf(v(i), t)
      BY <1>1
    <3> DEFINE x == v(i)
               n == sum(i)
    <3> HIDE DEF n, x
    <3> QED
      BY <3>4, <3>5, NativeRestores DEF n, x
  <2>12. \A i \in Index(a) : IsNull(liquid.packed, i) <=> i \notin valid
    BY <2>1, <2>6
  <2>13. \A i \in valid : Native(sum(i), t) = v(i)
    <3> HIDE DEF sum, valid, v
    <3> QED
      BY <2>11
  <2>14. DOMAIN temp = Index(a)
    BY <2>5
  <2> HIDE DEF sum, valid, v, temp, liquid, decoded
  <2>15. Restores(decoded, a)
    BY <1>4, <2>12, <2>13, <2>14
  <2> QED
    BY <2>15 DEF decoded, liquid
<1> QED
  BY <1>5, <1>6

-----------------------------------------------------------------------------
(* Columns.                                                                *)

\* A slot of the column's type, null ones filled with anything.
Fitting(slot) == slot.value \in IF slot.valid THEN ValuesIn(type) ELSE Fillers(type)

\* The column has such slots only.
ColumnFits == ColumnOK /\ \A k \in DOMAIN column : Fitting(column[k])

\* It gets no others, and is empty when its type changes.
LEMMA ColumnStaysFit ==
  /\ Init => ColumnFits
  /\ ColumnFits /\ [Next]_vars => ColumnFits'
<1>1. Init => ColumnFits
  <2> SUFFICES ASSUME Init PROVE ColumnFits
    OBVIOUS
  <2>1. ColumnOK /\ column = <<>>
    BY ColumnStaysOK DEF Init
  <2> QED
    BY <2>1 DEF ColumnFits
<1>2. ASSUME type' = type, NEW slot, Fitting(slot) PROVE Fitting(slot)'
  BY <1>2 DEF Fitting, ValuesIn, Boundary, Fillers, Filler
<1>3. ASSUME ColumnFits, NEW slot \in Slots, AppendSlot(slot) PROVE ColumnFits'
  <2>1. ColumnOK /\ ColumnOK'
    BY <1>3, ColumnStaysOK DEF ColumnFits, Next
  <2>2. Fitting(slot)
    BY DEF Slots, Fitting
  <2>3. column \in Seq([valid : BOOLEAN, value : AllValues]) /\ column' = Append(column, slot)
    BY <1>3, <2>1 DEF ColumnOK, AppendSlot
  <2>4. type' = type
    BY <1>3 DEF AppendSlot
  <2>5. ASSUME NEW k \in DOMAIN column' PROVE Fitting(column'[k])
    <3>1. column'[k] = slot \/ (k \in DOMAIN column /\ column'[k] = column[k])
      BY <2>3
    <3> QED
      BY <1>3, <2>2, <3>1 DEF ColumnFits
  <2> QED
    BY <1>2, <2>1, <2>4, <2>5 DEF ColumnFits
<1>4. ASSUME ColumnFits, NextBatch PROVE ColumnFits'
  <2>1. ColumnOK'
    BY <1>4, ColumnStaysOK DEF ColumnFits, Next
  <2>2. column' = <<>>
    BY <1>4 DEF NextBatch
  <2> QED
    BY <2>1, <2>2 DEF ColumnFits
<1>5. ASSUME ColumnFits, UNCHANGED vars PROVE ColumnFits'
  <2>1. ColumnOK'
    BY <1>5, ColumnStaysOK DEF ColumnFits, Next
  <2>2. column' = column /\ type' = type
    BY <1>5 DEF vars
  <2> QED
    BY <1>2, <1>5, <2>1, <2>2 DEF ColumnFits
<1> QED
  BY <1>1, <1>3, <1>4, <1>5 DEF Next

\* A slice of the column has its slots.
LEMMA SlicesOfColumn ==
  ASSUME ColumnOK, NEW n \in Nat
  PROVE  /\ SliceAfter(n).offset = n
         /\ Len(SliceAfter(n).slots) = n + Len(column)
         /\ Length(SliceAfter(n)) = Len(column)
         /\ Index(SliceAfter(n)) = 0 .. Len(column) - 1
         /\ \A i \in Index(SliceAfter(n)) :
              i + 1 \in DOMAIN column /\ SlotAt(SliceAfter(n), i) = column[i + 1]
<1> DEFINE S == [valid : BOOLEAN, value : AllValues \cup {Filler(type)}]
           before == [i \in 1 .. n |-> [valid |-> i % 2 = 0, value |-> Filler(type)]]
           slots == before \o column
<1>1. column \in Seq(S) /\ Len(column) \in Nat
  <2> DEFINE R == [valid : BOOLEAN, value : AllValues]
  <2>1. R \subseteq S
    OBVIOUS
  <2>2. column \in Seq(R)
    BY DEF ColumnOK
  <2> HIDE DEF R, S
  <2> QED
    BY <2>1, <2>2
<1>2. before \in Seq(S) /\ Len(before) = n
  <2>1. \A i \in 1 .. n : [valid |-> i % 2 = 0, value |-> Filler(type)] \in S
    OBVIOUS
  <2> HIDE DEF S
  <2> QED
    BY <2>1
<1>3. SliceAfter(n) = [slots |-> slots, offset |-> n]
  BY DEF SliceAfter, Array
<1> HIDE DEF S, before
<1>4. Len(slots) = n + Len(column) /\ \A i \in 1 .. Len(column) : slots[n + i] = column[i]
  BY <1>1, <1>2
<1> HIDE DEF slots
<1>5. Length(SliceAfter(n)) = Len(column)
  BY <1>1, <1>3, <1>4 DEF Length
<1>6. Index(SliceAfter(n)) = 0 .. Len(column) - 1
  BY <1>5 DEF Index
<1>7. ASSUME NEW i \in 0 .. Len(column) - 1
      PROVE  i + 1 \in DOMAIN column /\ SlotAt(SliceAfter(n), i) = column[i + 1]
  <2>1. i + 1 \in 1 .. Len(column) /\ n + i + 1 = n + (i + 1)
    BY <1>1
  <2> QED
    BY <1>1, <1>3, <1>4, <2>1 DEF SlotAt
<1> QED
  BY <1>3, <1>4, <1>5, <1>6, <1>7

\* It has slots of its type, and begins on a byte if it should.
LEMMA ByteSlicesOfColumn ==
  ASSUME ColumnFits, NEW a \in ByteSlices
  PROVE  ByteSlice(a) /\ \A i \in Index(a) : Fitting(SlotAt(a, i))
<1>1. ColumnOK /\ Len(column) \in Nat
  BY DEF ColumnFits, ColumnOK
<1>2. PICK n \in {0, ByteBits} : a = SliceAfter(n)
  BY DEF ByteSlices
<1>3. n \in Nat /\ n % ByteBits = 0
  BY <1>2, SizesAssumption
<1>4. /\ a.offset = n /\ Len(a.slots) = n + Len(column)
      /\ \A i \in Index(a) : i + 1 \in DOMAIN column /\ SlotAt(a, i) = column[i + 1]
  BY <1>1, <1>2, <1>3, SlicesOfColumn
<1>5. ASSUME NEW i \in Index(a)
      PROVE  SlotAt(a, i).valid \in BOOLEAN /\ Fitting(SlotAt(a, i))
  <2>1. column[i + 1].valid \in BOOLEAN
    <3> DEFINE R == [valid : BOOLEAN, value : AllValues]
    <3>1. \A r \in R : r.valid \in BOOLEAN
      OBVIOUS
    <3>2. column \in Seq(R)
      BY <1>1 DEF ColumnOK
    <3> HIDE DEF R
    <3>3. column[i + 1] \in R
      BY <1>4, <3>2
    <3> QED
      BY <3>1, <3>3
  <2>2. Fitting(column[i + 1])
    BY <1>4 DEF ColumnFits
  <2> QED
    BY <1>4, <2>1, <2>2
<1>6. ByteSlice(a)
  BY <1>1, <1>3, <1>4, <1>5 DEF ByteSlice
<1> QED
  BY <1>5, <1>6

\* Of a column of integers it is a slice of integers.
LEMMA IntegerColumns ==
  ASSUME ColumnFits, IsInteger, NEW a \in ByteSlices
  PROVE  IntegerType(type) /\ IntegerSlice(a, type)
<1>1. IntegerType(type)
  BY TypesAssumption DEF ColumnFits, ColumnOK, IsInteger, IntegerType
<1>2. ValuesIn(type) \subseteq MinOf(type) .. MaxOf(type)
  BY DEF ValuesIn, Boundary, IsInteger
<1>3. ByteSlice(a) /\ \A i \in Index(a) : Fitting(SlotAt(a, i))
  BY ByteSlicesOfColumn
<1>4. \A i \in ValidIn(a) : SlotAt(a, i).value \in ValuesIn(type)
  BY <1>3 DEF ValidIn, Fitting
<1> QED
  BY <1>1, <1>2, <1>3, <1>4 DEF IntegerSlice, ValueOf

\* Every column of signed integers survives the delta encoding.
THEOREM DeltaRestoresAlways == Spec => []DeltaRestores
<1>1. ColumnFits => DeltaRestores
  BY IntegerColumns, DeltasRestore DEF DeltaRestores
<1> QED
  BY <1>1, ColumnStaysFit, PTL DEF Spec

-----------------------------------------------------------------------------
(* Floats.                                                                 *)

\* A slice of floats whose casts, of null slots too, do not overflow.
FloatSlice(a) ==
  /\ ByteSlice(a)
  /\ ValidIn(a) # {} =>
       \A i \in Index(a) : ValueOf(EncodeSingle(SlotAt(a, i).value), SignedInt)

\* What LiquidFloatArray keeps of a slice with valid slots: the integers of all
\* slots, as differences to the least of them, and the values that are none.
LEMMA FloatParts ==
  ASSUME NEW a, FloatSlice(a), ValidIn(a) # {},
         NEW liquid, liquid = FloatFromArrow(a),
         NEW temp, temp = BulkUnpack(liquid.packed, FloatBits)
  PROVE  /\ DOMAIN temp = Index(a)
         /\ liquid.packed.length = Length(a) /\ liquid.packed.width \in 1 .. WordBits
         /\ \A i \in Index(a) : IsNull(liquid.packed, i) <=> i \notin ValidIn(a)
         /\ liquid.patches \in SUBSET Index(a)
         /\ \A i \in liquid.patches : liquid.values[i] = SlotAt(a, i).value
         /\ \A i \in Index(a) :
              LET number == Native(liquid.reference + Number(temp[i]), SignedInt)
              IN  /\ ValueOf(number, SignedInt)
                  /\ liquid.reference <= number
                  /\ number - liquid.reference < 2^liquid.packed.width
                  /\ i \notin liquid.patches =>
                       /\ number = EncodeSingle(SlotAt(a, i).value)
                       /\ DecodeSingle(number) = SlotAt(a, i).value
<1> DEFINE value(i) == SlotAt(a, i).value
           patches == {i \in Index(a) : DecodeSingle(EncodeSingle(value(i))) # value(i)}
           exact == Index(a) \ patches
           fill == EncodeSingle(value(Min(exact)))
           encoded == [i \in Index(a) |-> IF i \in patches /\ exact # {} THEN fill
                                          ELSE EncodeSingle(value(i))]
           all == {encoded[i] : i \in Index(a)}
           min == Min(all)
           max == Max(all)
           packed == Differences(a, encoded, min, max, NullBits(a), SignedInt)
<1>1. /\ Length(a) \in Nat /\ Index(a) = 0 .. Length(a) - 1
      /\ ValidIn(a) \in SUBSET Index(a)
  BY SliceIs DEF FloatSlice
<1>2. IntegerType(SignedInt) /\ SignedInt.bits = FloatBits
  BY FloatAssumption DEF IntegerType, SignedInt
<1>3. /\ liquid.reference = min /\ liquid.packed = packed
      /\ liquid.patches = patches /\ liquid.values = [i \in patches |-> value(i)]
  BY DEF FloatFromArrow, Differences
<1>4. \A i \in Index(a) : ValueOf(EncodeSingle(value(i)), SignedInt)
  BY DEF FloatSlice
<1>5. exact # {} => ValueOf(fill, SignedInt)
  <2>1. 0 \in Int /\ Length(a) - 1 \in Int /\ exact \in SUBSET (0 .. Length(a) - 1)
    BY <1>1
  <2> HIDE DEF exact
  <2>2. exact # {} => Min(exact) \in exact
    BY <2>1, ExtremesExist
  <2>3. exact \subseteq Index(a)
    BY DEF exact
  <2> QED
    BY <1>4, <2>2, <2>3
<1>6. \A i \in Index(a) : ValueOf(encoded[i], SignedInt)
  <2> HIDE DEF exact, fill, patches
  <2> QED
    BY <1>4, <1>5
<1>7. \A i \in Index(a) \ patches :
        encoded[i] = EncodeSingle(value(i)) /\ DecodeSingle(encoded[i]) = value(i)
  <2>1. \A i \in Index(a) \ patches : DecodeSingle(EncodeSingle(value(i))) = value(i)
    OBVIOUS
  <2> HIDE DEF exact, fill, patches
  <2> QED
    BY <2>1
<1> HIDE DEF encoded
<1>8. /\ ValueOf(min, SignedInt) /\ ValueOf(max, SignedInt) /\ min <= max
      /\ \A i \in Index(a) : min <= encoded[i] /\ encoded[i] <= max
  <2>1. /\ all # {}
        /\ \A x \in all : ValueOf(x, SignedInt)
        /\ \A i \in Index(a) : encoded[i] \in all
    BY <1>1, <1>6
  <2> HIDE DEF all
  <2> QED
    BY <1>2, <2>1, ExtremesOfType
<1> HIDE DEF min, max, patches, value
<1>9. Bounded(a, Index(a), encoded, min, max, SignedInt)
  BY <1>6, <1>8 DEF Bounded
<1>10. /\ DOMAIN temp = Index(a)
       /\ packed.nulls = NullBits(a)
       /\ \A i \in Index(a) : Native(min + Number(temp[i]), SignedInt) = encoded[i]
  BY <1>1, <1>2, <1>3, <1>9, DifferencesComeBack
<1>11. \A i \in Index(a) : IsNull(packed, i) <=> i \notin ValidIn(a)
  BY <1>10, NullsAreKept DEF FloatSlice
<1>12. /\ packed.length = Length(a)
       /\ packed.width \in 1 .. WordBits
       /\ max - min < 2^packed.width
  <2> DEFINE width == GetBitWidth(Unsigned(max - min, SignedInt))
             offsets == [i \in Index(a) |-> Unsigned(encoded[i] - min, SignedInt)]
             m == 2^SignedInt.bits
  <2>1. packed = Pack(Words(a, offsets), NullBits(a), width)
    BY DEF Differences
  <2>2. packed.width = width /\ packed.length = Len(Words(a, offsets))
    BY <2>1 DEF Pack
  <2>3. Len(Words(a, offsets)) = Length(a)
    BY <1>1 DEF Words
  <2>4. /\ m \in Nat \ {0} /\ m <= 2^WordBits
        /\ MinOf(SignedInt) \in Int /\ MaxOf(SignedInt) \in Int
        /\ MaxOf(SignedInt) - MinOf(SignedInt) < m
    BY <1>2, RangeOfType
  <2>5. Unsigned(max - min, SignedInt) = (max - min) % m
    BY DEF Unsigned
  <2>6. WordBits \in Nat /\ 2^WordBits \in Int
    BY SizesAreNumbers, PowersGrow
  <2> HIDE DEF width, offsets, m, packed
  <2>7. max - min \in Nat /\ max - min < m /\ (max - min) % m = max - min
    BY <1>8, <2>4 DEF ValueOf
  <2>8. max - min < 2^WordBits
    BY <2>4, <2>6, <2>7
  <2>9. width \in 1 .. WordBits /\ max - min < 2^width
    BY <2>5, <2>7, <2>8, BitWidthSuffices DEF width
  <2> QED
    BY <2>2, <2>3, <2>9
<1>13. ASSUME NEW i \in Index(a)
       PROVE  encoded[i] - min < 2^packed.width
  <2>1. encoded[i] \in Int /\ min \in Int /\ max \in Int /\ encoded[i] <= max
    BY <1>2, <1>6, <1>8, RangeOfType DEF ValueOf
  <2>2. 2^packed.width \in Int
    BY <1>12, PowersGrow
  <2> QED
    BY <1>12, <2>1, <2>2
<1> HIDE DEF packed
<1>14. patches \in SUBSET Index(a)
  BY DEF patches
<1>15. \A i \in patches : liquid.values[i] = value(i)
  BY <1>3
<1> QED
  BY <1>3, <1>6, <1>7, <1>8, <1>10, <1>11, <1>12, <1>13, <1>14, <1>15 DEF value

\* A slice of floats comes back from LiquidFloatArray: whole steps from their
\* encoding, the other values from the patches.
THEOREM FloatsRestore ==
  ASSUME NEW a, FloatSlice(a)
  PROVE  Restores(FloatToArrow(FloatFromArrow(a)), a)
<1> DEFINE liquid == FloatFromArrow(a)
           decoded == FloatToArrow(liquid)
           temp == BulkUnpack(liquid.packed, FloatBits)
           valid == ValidIn(a)
           value(i) == SlotAt(a, i).value
           number(i) == Native(liquid.reference + Number(temp[i]), SignedInt)
<1>1. /\ Length(a) \in Nat /\ Index(a) = 0 .. Length(a) - 1
      /\ valid \in SUBSET Index(a)
      /\ \A i \in Index(a) : i \in valid <=> SlotAt(a, i).valid
  BY SliceIs DEF FloatSlice
<1>2. decoded = [i \in DOMAIN temp |->
                   [valid |-> ~IsNull(liquid.packed, i),
                    value |-> IF i \in liquid.patches THEN liquid.values[i]
                              ELSE DecodeSingle(number(i))]]
  BY DEF FloatToArrow
<1>3. IntegerType(SignedInt) /\ SignedInt.bits = FloatBits
  BY FloatAssumption DEF IntegerType, SignedInt
<1>4. ASSUME DOMAIN temp = Index(a),
             \A i \in Index(a) : IsNull(liquid.packed, i) <=> i \notin valid,
             \A i \in valid : \/ i \in liquid.patches /\ liquid.values[i] = value(i)
                              \/ i \notin liquid.patches /\ DecodeSingle(number(i)) = value(i)
      PROVE  Restores(decoded, a)
  <2> HIDE DEF liquid, decoded, temp, valid, number
  <2> SUFFICES ASSUME NEW i \in Index(a)
               PROVE  /\ decoded[i].valid = SlotAt(a, i).valid
                      /\ decoded[i].valid => decoded[i].value = SlotAt(a, i).value
    BY <1>2, <1>4 DEF Restores
  <2>1. /\ decoded[i].valid = ~IsNull(liquid.packed, i)
        /\ decoded[i].value = IF i \in liquid.patches THEN liquid.values[i]
                              ELSE DecodeSingle(number(i))
    BY <1>2, <1>4
  <2>2. decoded[i].valid <=> SlotAt(a, i).valid
    BY <1>1, <1>4, <2>1
  <2>3. decoded[i].valid \in BOOLEAN /\ SlotAt(a, i).valid \in BOOLEAN
    BY <2>1 DEF FloatSlice, ByteSlice
  <2> QED
    BY <1>1, <1>4, <2>1, <2>2, <2>3
<1>5. CASE valid = {}
  <2>1. liquid.packed = PackZeros(a)
    BY <1>5 DEF FloatFromArrow
  <2>2. DOMAIN temp = Index(a) /\ \A i \in Index(a) : IsNull(liquid.packed, i)
    BY <1>5, <2>1, NothingIsValid DEF FloatSlice
  <2> QED
    BY <1>4, <1>5, <2>2
<1>6. CASE valid # {}
  <2>1. /\ DOMAIN temp = Index(a)
        /\ \A i \in Index(a) : IsNull(liquid.packed, i) <=> i \notin valid
        /\ \A i \in liquid.patches : liquid.values[i] = value(i)
    <3> HIDE DEF liquid, temp
    <3> QED
      BY <1>6, FloatParts DEF liquid, temp
  <2>2. ASSUME NEW i \in Index(a), i \notin liquid.patches
        PROVE  DecodeSingle(number(i)) = value(i)
    <3> HIDE DEF liquid, temp
    <3> QED
      BY <1>6, <2>2, FloatParts DEF liquid, temp
  <2>3. \A i \in valid :
          \/ i \in liquid.patches /\ liquid.values[i] = value(i)
          \/ i \notin liquid.patches /\ DecodeSingle(number(i)) = value(i)
    <3> HIDE DEF liquid, temp, valid, number, value
    <3> QED
      BY <1>1, <2>1, <2>2
  <2>4. Restores(decoded, a)
    <3> HIDE DEF liquid, decoded, temp, valid, number, value
    <3> QED
      BY <1>4, <2>1, <2>3
  <2> QED
    BY <2>4
<1> QED
  BY <1>5, <1>6

\* Of a column of floats it is a slice of floats.
LEMMA FloatColumns ==
  ASSUME ColumnFits, IsFloat, NEW a \in ByteSlices
  PROVE  FloatSlice(a)
<1>1. ByteSlice(a) /\ \A i \in Index(a) : Fitting(SlotAt(a, i))
  BY ByteSlicesOfColumn
<1>2. ASSUME ValidIn(a) # {}, NEW i \in Index(a)
      PROVE  ValueOf(EncodeSingle(SlotAt(a, i).value), SignedInt)
  <2> DEFINE lo == 2 * MinOf(SignedInt) - 1
             hi == 2 * MaxOf(SignedInt) + 1
  <2>1. /\ MinOf(SignedInt) \in Int /\ MaxOf(SignedInt) \in Int
        /\ MinOf(SignedInt) <= 0 /\ 0 <= MaxOf(SignedInt)
    <3>1. IntegerType(SignedInt)
      BY FloatAssumption DEF IntegerType, SignedInt
    <3> QED
      BY <3>1, RangeOfType
  <2>2. ValuesIn(type) = Floats
    BY DEF ValuesIn, IsFloat
  <2>3. Floats # {}
    BY <1>1, <1>2, <2>2 DEF ValidIn, Fitting
  <2>4. \A v \in Floats : v \in lo .. hi
    <3> TAKE v \in Floats
    <3>1. v \in Int /\ MinOf(SignedInt) <= EncodeSingle(v) /\ EncodeSingle(v) <= MaxOf(SignedInt)
      BY <2>1, FloatsAssumption
    <3> QED
      BY <2>1, <3>1 DEF EncodeSingle
  <2>5. Max(Floats) \in Floats
    <3>1. lo \in Int /\ hi \in Int /\ Floats \in SUBSET (lo .. hi)
      BY <2>1, <2>4
    <3> HIDE DEF lo, hi
    <3> QED
      BY <2>3, <3>1, ExtremesExist
  <2>6. SlotAt(a, i).value \in Floats \cup {0}
    <3>1. Fillers(type) = {0, Max(Floats)}
      BY <2>2 DEF Fillers, Filler, IsFloat
    <3> QED
      BY <1>1, <2>2, <2>5, <3>1 DEF Fitting
  <2>7. EncodeSingle(0) = 0
    BY DEF EncodeSingle
  <2> QED
    BY <2>1, <2>6, <2>7, FloatsAssumption DEF ValueOf
<1> QED
  BY <1>1, <1>2 DEF FloatSlice

\* No number's type has the name of a decimal or of strings.
LEMMA NumbersAreNumbers ==
  \A p \in Physicals : p \notin StringTypes /\ p \notin Decimals
<1> SUFFICES ASSUME NEW n \in DOMAIN PhysicalTypes
             PROVE  PhysicalTypes[n] \notin StringTypes /\ PhysicalTypes[n] \notin Decimals
  BY DEF Physicals
<1>1. n \in 1 .. 16
  BY DEF PhysicalTypes
<1> QED
  BY <1>1 DEF PhysicalTypes, StringTypes, BinaryTypes, Decimals

\* The Arrow types of a column of numbers.
LEMMA TypesOfNumbers ==
  ASSUME IsInteger \/ IsFloat, NEW t \in ArrowTypes
  PROVE  /\ t = ArrowType(t.id) /\ t.id \in Physicals
         /\ NativeOf(t.id) = NativeType /\ (t.id \in FloatTypes <=> IsFloat)
         /\ t.id \notin StringTypes /\ t.id \notin Decimals
<1>1. ~IsDecimal /\ ~IsString
  BY DEF IsInteger, IsFloat, IsDecimal, IsString
<1>2. PICK id \in {p \in Physicals : NativeOf(p) = NativeType /\ (p \in FloatTypes <=> IsFloat)} :
        t = ArrowType(id)
  BY <1>1 DEF ArrowTypes
<1>3. t.id = id
  BY <1>2 DEF ArrowType
<1> QED
  BY <1>2, <1>3, NumbersAreNumbers

\* What the store keeps of a column of integers or floats decodes to an array
\* of the column's own type, with its nulls and values: a timestamp, which is
\* kept as an Int64, is given its type and unit back.
THEOREM NumbersAreStored == Spec => [](IsInteger \/ IsFloat => StoredArraysRestore)
<1>1. ASSUME ColumnFits, IsInteger \/ IsFloat, NEW t \in ArrowTypes, NEW a \in ByteSlices
      PROVE  Restorable(t, a, {})
  <2> DEFINE inner == IF IsInteger THEN FromArrow(a, NativeOf(t.id)) ELSE FloatFromArrow(a)
             logical == IF IsInteger THEN "Integer" ELSE "Float"
             liquid == Wrapped(inner, logical, t.id, t)
  <2>1. /\ t = ArrowType(t.id) /\ t.id \in Physicals
        /\ NativeOf(t.id) = NativeType /\ (t.id \in FloatTypes <=> IsFloat)
        /\ t.id \notin StringTypes /\ t.id \notin Decimals
    BY <1>1, TypesOfNumbers
  <2>2. IsInteger <=> ~IsFloat
    BY <1>1 DEF IsInteger, IsFloat
  <2>3. Logical(t, a) = logical /\ Physical(t, a) = t.id /\ Supported(t)
    BY <2>1, <2>2 DEF Logical, Physical, Supported, ArrowType
  <2>4. liquid \in TranscodeToLiquidArray(t, a, {})
    BY <2>2, <2>3 DEF TranscodeToLiquidArray
  <2>5. WrapperToArrow(liquid).type = t /\ Restores(WrapperToArrow(liquid).slots, a)
    <3>1. CASE IsInteger
      <4> DEFINE id == IF t.id \in Timestamps THEN "Int64" ELSE t.id
      <4>1. NativeOf(id) = NativeType
        BY <2>1 DEF NativeOf, Timestamps
      <4>2. InnerToArrow(liquid) = DecodedAs(ArrowType(id), ToArrow(inner, NativeType))
        BY <3>1, <4>1 DEF InnerToArrow, Wrapped
      <4>3. inner = FromArrow(a, NativeType)
        BY <2>1, <3>1
      <4>4. Restores(ToArrow(inner, NativeType), a)
        <5>1. IntegerType(type) /\ IntegerSlice(a, type)
          BY <1>1, <3>1, IntegerColumns
        <5>2. IntegerType(NativeType) /\ IntegerSlice(a, NativeType)
          BY <5>1 DEF IntegerType, IntegerSlice, NativeType, ValueOf, MinOf, MaxOf
        <5> QED
          BY <4>3, <5>2, FrameOfReferenceRestores
      <4>5. liquid.original = t
        BY DEF Wrapped
      <4> HIDE DEF liquid, inner
      <4>6. /\ InnerToArrow(liquid).type = ArrowType(id)
            /\ InnerToArrow(liquid).slots = ToArrow(inner, NativeType)
        BY <4>2 DEF DecodedAs
      <4>7. ArrowType(id).id = id
        BY DEF ArrowType
      <4>8. /\ WrapperToArrow(liquid).type = t
            /\ WrapperToArrow(liquid).slots = InnerToArrow(liquid).slots
        <5>1. CASE id = t.id
          BY <2>1, <4>5, <4>6, <4>7, <5>1 DEF WrapperToArrow
        <5>2. CASE id # t.id
          BY <4>5, <4>6, <4>7, <5>2 DEF WrapperToArrow, Relabelled, DecodedAs
        <5> QED
          BY <5>1, <5>2
      <4> QED
        BY <4>4, <4>6, <4>8
    <3>2. CASE IsFloat
      <4>1. t.id \notin Timestamps
        BY <2>1, <3>2 DEF FloatTypes, Timestamps
      <4>2. inner = FloatFromArrow(a)
        BY <2>2, <3>2
      <4>3. InnerToArrow(liquid) = DecodedAs(ArrowType(t.id), FloatToArrow(inner))
        BY <2>2, <3>2, <4>1 DEF InnerToArrow, Wrapped
      <4>4. Restores(FloatToArrow(inner), a)
        BY <1>1, <3>2, <4>2, FloatColumns, FloatsRestore
      <4>5. liquid.original = t
        BY DEF Wrapped
      <4> HIDE DEF liquid, inner
      <4>6. WrapperToArrow(liquid) = InnerToArrow(liquid)
        BY <2>1, <4>3, <4>5 DEF WrapperToArrow, DecodedAs
      <4> QED
        BY <2>1, <4>3, <4>4, <4>6 DEF DecodedAs
    <3> QED
      BY <1>1, <3>1, <3>2
  <2> HIDE DEF liquid
  <2> QED
    BY <2>4, <2>5 DEF Restorable
<1>2. ColumnFits => (IsInteger \/ IsFloat => StoredArraysRestore)
  BY <1>1 DEF StoredArraysRestore, ReadableTypes
<1> QED
  BY <1>2, ColumnStaysFit, PTL DEF Spec

-----------------------------------------------------------------------------
(* Folds of any operation, over a finite set.                              *)

\* h folds f over the subsets of S, their first element last.
Folds(h, f, base, S) ==
  h = [s \in SUBSET S |-> IF s = {} THEN base ELSE f[<<First(s), h[s \ {First(s)}]>>]]

\* A subset without its first element is smaller.
LEMMA FirstRemoved ==
  ASSUME NEW S, IsFiniteSet(S), NEW s \in SUBSET S, s # {}
  PROVE  /\ First(s) \in S /\ s \ {First(s)} \in SUBSET S
         /\ Cardinality(s) \in Nat /\ Cardinality(s \ {First(s)}) \in Nat
         /\ Cardinality(s \ {First(s)}) = Cardinality(s) - 1
<1>1. First(s) \in s
  BY DEF First
<1>2. IsFiniteSet(s) /\ Cardinality(s) \in Nat
  BY FS_Subset, FS_CardinalityType
<1>3. Cardinality(s \ {First(s)}) = Cardinality(s) - 1 /\ IsFiniteSet(s \ {First(s)})
  BY <1>1, <1>2, FS_RemoveElement
<1> QED
  BY <1>1, <1>2, <1>3, FS_CardinalityType

\* There is such a fold.
LEMMA FoldExists ==
  ASSUME NEW S, IsFiniteSet(S), NEW B, NEW base \in B, NEW f \in [S \X B -> B]
  PROVE  \E h \in [SUBSET S -> B] : Folds(h, f, base, S)
<1> DEFINE step(h, s) == IF s = {} THEN base ELSE f[<<First(s), h[s \ {First(s)}]>>]
           good(n) == \E h \in [SUBSET S -> B] :
                        \A s \in SUBSET S : Cardinality(s) <= n => h[s] = step(h, s)
           bad == {n \in Nat : ~good(n)}
<1>1. ASSUME NEW h \in [SUBSET S -> B], NEW s \in SUBSET S PROVE step(h, s) \in B
  <2>1. CASE s = {}
    BY <2>1
  <2>2. CASE s # {}
    <3> DEFINE x == First(s)
               y == h[s \ {First(s)}]
    <3>1. x \in S /\ y \in B
      BY <2>2, FirstRemoved
    <3> HIDE DEF x, y
    <3>2. f[<<x, y>>] \in B
      BY <3>1
    <3> QED
      BY <2>2, <3>2 DEF x, y
  <2> QED
    BY <2>1, <2>2
<1>2. ASSUME bad # {} PROVE FALSE
  <2>1. PICK n \in bad : \A m \in bad : n <= m
    <3>1. bad \in SUBSET Nat
      OBVIOUS
    <3> HIDE DEF bad
    <3> QED
      BY <1>2, <3>1, LeastElement
  <2>2. PICK h \in [SUBSET S -> B] :
          \A s \in SUBSET S : Cardinality(s) <= n - 1 => h[s] = step(h, s)
    <3>1. CASE n = 0
      <4> DEFINE h == [s \in SUBSET S |-> base]
      <4>1. h \in [SUBSET S -> B]
        OBVIOUS
      <4>2. \A s \in SUBSET S : ~(Cardinality(s) <= n - 1)
        <5> TAKE s \in SUBSET S
        <5>1. Cardinality(s) \in Nat
          BY FS_Subset, FS_CardinalityType
        <5> QED
          BY <3>1, <5>1
      <4> HIDE DEF h
      <4> QED
        BY <4>1, <4>2
    <3>2. CASE n # 0
      <4>1. n - 1 \in Nat /\ n - 1 < n
        BY <2>1, <3>2
      <4>2. good(n - 1)
        <5> HIDE DEF good
        <5> QED
          BY <2>1, <4>1
      <4> QED
        BY <4>2
    <3> QED
      BY <3>1, <3>2
  <2> DEFINE g == [s \in SUBSET S |-> step(h, s)]
  <2>3. g \in [SUBSET S -> B]
    BY <1>1
  <2>4. ASSUME NEW s \in SUBSET S, Cardinality(s) <= n PROVE g[s] = step(g, s)
    <3>1. CASE s = {}
      BY <3>1
    <3>2. CASE s # {}
      <4>1. /\ s \ {First(s)} \in SUBSET S
            /\ Cardinality(s \ {First(s)}) <= n - 1
        BY <2>1, <2>4, <3>2, FirstRemoved
      <4>2. g[s \ {First(s)}] = h[s \ {First(s)}]
        BY <2>2, <4>1
      <4>3. g[s] = step(h, s)
        OBVIOUS
      <4> HIDE DEF g
      <4> QED
        BY <3>2, <4>2, <4>3
    <3> QED
      BY <3>1, <3>2
  <2>5. good(n)
    <3> HIDE DEF g
    <3> QED
      BY <2>3, <2>4
  <2> QED
    BY <2>1, <2>5
<1>3. Cardinality(S) \in Nat
  BY FS_CardinalityType
<1>4. PICK h \in [SUBSET S -> B] :
        \A s \in SUBSET S : Cardinality(s) <= Cardinality(S) => h[s] = step(h, s)
  BY <1>2, <1>3
<1>5. \A s \in SUBSET S : h[s] = step(h, s)
  <2> TAKE s \in SUBSET S
  <2>1. Cardinality(s) <= Cardinality(S)
    BY FS_Subset
  <2> QED
    BY <1>4, <2>1
<1>6. h = [s \in SUBSET S |-> step(h, s)]
  BY <1>4, <1>5
<1> QED
  BY <1>4, <1>6 DEF Folds

\* What holds of the base and is kept by each step holds of a fold.
LEMMA FoldStays ==
  ASSUME NEW S, IsFiniteSet(S), NEW B, NEW h,
         h[{}] \in B,
         \A s \in (SUBSET S) \ {{}} : h[s \ {First(s)}] \in B => h[s] \in B
  PROVE  \A s \in SUBSET S : h[s] \in B
<1> DEFINE bad == {n \in Nat : \E s \in SUBSET S : Cardinality(s) = n /\ h[s] \notin B}
<1>1. \A s \in SUBSET S : Cardinality(s) \in Nat
  BY FS_Subset, FS_CardinalityType
<1>2. ASSUME bad # {} PROVE FALSE
  <2>1. PICK n \in bad : \A m \in bad : n <= m
    BY <1>2, LeastElement
  <2>2. PICK s \in SUBSET S : Cardinality(s) = n /\ h[s] \notin B
    BY <2>1
  <2>3. s # {}
    BY <2>2
  <2>4. /\ First(s) \in S /\ s \ {First(s)} \in SUBSET S
        /\ Cardinality(s \ {First(s)}) \in Nat
        /\ Cardinality(s \ {First(s)}) = n - 1
    BY <2>2, <2>3, FirstRemoved
  <2>5. h[s \ {First(s)}] \in B
    BY <2>1, <2>4
  <2> QED
    BY <2>2, <2>3, <2>5
<1> QED
  BY <1>1, <1>2

-----------------------------------------------------------------------------
(* Rounding and clamping.                                                  *)

\* Lines have a denominator.
LEMMA UnitIsPositive == Unit \in Nat \ {0}
<1> DEFINE S == 1 .. MaxLength - 1
           B == Nat \ {0}
           f == [p \in S \X B |-> p[1] * p[2]]
           step(g, s) == IF s = {} THEN 1
                         ELSE LET x == CHOOSE y \in s : TRUE IN x * g[s \ {x}]
           iter == CHOOSE g : g = [s \in SUBSET S |-> step(g, s)]
<1>1. FoldSet(LAMBDA d, n : d * n, 1, S) = iter[S]
  BY DEF FoldSet, MapThenFoldSet
<1>2. IsFiniteSet(S)
  BY LinearAssumption, FS_Interval
<1>3. \A x \in S, y \in B : x * y \in B
  BY LinearAssumption
<1>4. f \in [S \X B -> B] /\ 1 \in B
  BY <1>3
<1>5. \A g, s : s # {} => step(g, s) = First(s) * g[s \ {First(s)}]
  BY DEF First
<1>6. \E g : g = [s \in SUBSET S |-> step(g, s)]
  <2> HIDE DEF S, B, f, step
  <2>1. PICK g \in [SUBSET S -> B] : Folds(g, f, 1, S)
    BY <1>2, <1>4, FoldExists
  <2>2. ASSUME NEW s \in SUBSET S PROVE g[s] = step(g, s)
    <3>1. CASE s = {}
      BY <2>1, <3>1 DEF step, Folds
    <3>2. CASE s # {}
      <4>1. First(s) \in S /\ s \ {First(s)} \in SUBSET S
        BY <1>2, <3>2, FirstRemoved
      <4>4. g[s \ {First(s)}] \in B
        BY <2>1, <4>1
      <4>2. g[s] = f[<<First(s), g[s \ {First(s)}]>>]
        BY <2>1, <3>2 DEF Folds
      <4>3. g[s] = First(s) * g[s \ {First(s)}]
        BY <4>1, <4>2, <4>4 DEF f
      <4> HIDE DEF step
      <4> QED
        BY <1>5, <3>2, <4>3
    <3> QED
      BY <3>1, <3>2
  <2>3. g = [s \in SUBSET S |-> step(g, s)]
    <3> HIDE DEF step
    <3> QED
      BY <2>1, <2>2
  <2> QED
    BY <2>3
<1>7. iter = [s \in SUBSET S |-> step(iter, s)]
  BY <1>6
<1> HIDE DEF iter
<1>8. \A s \in SUBSET S : iter[s] = step(iter, s)
  BY <1>7
<1>9. iter[S] \in B
  <2> HIDE DEF S
  <2>1. iter[{}] \in B
    <3>1. iter[{}] = step(iter, {}) /\ step(iter, {}) = 1
      BY <1>8
    <3> QED
      BY <3>1
  <2> HIDE DEF step
  <2>2. ASSUME NEW s \in (SUBSET S) \ {{}}, iter[s \ {First(s)}] \in B PROVE iter[s] \in B
    <3>1. First(s) \in S
      BY <1>2, FirstRemoved
    <3>2. iter[s] = First(s) * iter[s \ {First(s)}]
      BY <1>5, <1>8
    <3> QED
      BY <1>3, <2>2, <3>1, <3>2
  <2> QED
    BY <1>2, <2>1, <2>2, FoldStays
<1>10. 2^(MaxIters + 2) \in Nat \ {0}
  BY LinearAssumption, PowersGrow
<1> DEFINE p == 2^(MaxIters + 2)
           q == iter[S]
<1>11. Unit = p * q
  BY <1>1 DEF Unit
<1> HIDE DEF p, q
<1>12. p \in Nat \ {0} /\ q \in Nat \ {0}
  BY <1>9, <1>10 DEF p, q
<1> QED
  BY <1>11, <1>12

\* Finitely many integers have a least and a greatest one.
LEMMA FiniteExtremes ==
  ASSUME NEW S \in SUBSET Int, IsFiniteSet(S), S # {}
  PROVE  /\ Min(S) \in S /\ \A x \in S : Min(S) <= x
         /\ Max(S) \in S /\ \A x \in S : x <= Max(S)
<1> DEFINE bounded(s) == \E lo, hi \in Int : \A x \in s : lo <= x /\ x <= hi
           h == [s \in SUBSET S |-> bounded(s)]
<1>1. h[{}] \in {TRUE}
  OBVIOUS
<1>2. ASSUME NEW s \in (SUBSET S) \ {{}}, h[s \ {First(s)}] \in {TRUE} PROVE h[s] \in {TRUE}
  <2> DEFINE e == First(s)
  <2>1. e \in Int /\ s \ {e} \in SUBSET S
    BY FirstRemoved
  <2>2. bounded(s \ {e})
    BY <1>2, <2>1
  <2>3. PICK lo \in Int, hi \in Int : \A x \in s \ {e} : lo <= x /\ x <= hi
    BY <2>2
  <2> DEFINE lo2 == IF lo <= e THEN lo ELSE e
             hi2 == IF e <= hi THEN hi ELSE e
  <2> HIDE DEF e
  <2>4. lo2 \in Int /\ hi2 \in Int /\ lo2 <= e /\ e <= hi2 /\ lo2 <= lo /\ hi <= hi2
    BY <2>1
  <2>5. \A x \in s : x \in Int
    OBVIOUS
  <2> HIDE DEF lo2, hi2
  <2>6. \A x \in s : lo2 <= x /\ x <= hi2
    <3> TAKE x \in s
    <3>1. CASE x = e
      BY <2>4, <3>1
    <3>2. CASE x # e
      BY <2>3, <2>4, <2>5, <3>2
    <3> QED
      BY <3>1, <3>2
  <2>7. bounded(s)
    BY <2>4, <2>6
  <2> QED
    BY <2>7
<1>3. \A s \in SUBSET S : h[s] \in {TRUE}
  <2> DEFINE B == {TRUE}
  <2>1. h[{}] \in B
    BY <1>1
  <2>2. \A s \in (SUBSET S) \ {{}} : h[s \ {First(s)}] \in B => h[s] \in B
    BY <1>2
  <2> HIDE DEF h, B
  <2>3. \A s \in SUBSET S : h[s] \in B
    BY <2>1, <2>2, FoldStays
  <2> QED
    BY <2>3 DEF B
<1>4. bounded(S)
  BY <1>3 DEF h
<1>5. PICK lo \in Int, hi \in Int : \A x \in S : lo <= x /\ x <= hi
  BY <1>4
<1>6. S \in SUBSET (lo .. hi)
  BY <1>5
<1> QED
  BY <1>6, ExtremesExist

\* A whole number of units, or less, is not rounded beyond it.
LEMMA RoundIsBelow ==
  ASSUME NEW n \in Int
  PROVE  /\ Round(n) \in Int
         /\ n >= 0 => Round(n) \in Nat
         /\ \A v \in Nat : n <= Unit * v => Round(n) <= v
<1> DEFINE u == Unit
           d == 2 * u
           a == 2 * n + u
           b == u - 2 * n
<1>1. u \in Nat \ {0} /\ d \in Nat \ {0} /\ d = 2 * u
  BY UnitIsPositive
<1> HIDE DEF u
<1>2. a \in Int /\ b \in Int /\ a = 2 * n + u /\ b = u - 2 * n
  BY <1>1
<1>3. Round(n) = IF n >= 0 THEN a \div d ELSE -(b \div d)
  BY DEF Round, u
<1> HIDE DEF a, b, d
<1> DEFINE p == a \div d
           q == b \div d
<1>4. p \in Int /\ a % d \in 0 .. d - 1 /\ a = p * d + (a % d)
  BY <1>1, <1>2, Division
<1>5. q \in Int /\ b % d \in 0 .. d - 1 /\ b = q * d + (b % d)
  BY <1>1, <1>2, Division
<1> HIDE DEF p, q
<1>6. Round(n) \in Int
  BY <1>3, <1>4, <1>5 DEF p, q
<1>7. ASSUME NEW v \in Nat, n <= u * v PROVE Round(n) <= v
  <2>1. CASE n >= 0
    <3>1. v < p => v * d + d <= p * d
      BY <1>1, <1>4, BlockOf
    <3> DEFINE x == u * v
               y == p * d
    <3>2. x \in Int /\ v * d = 2 * x
      BY <1>1
    <3>3. y \in Int
      BY <1>1, <1>4
    <3> HIDE DEF x
    <3>4. n <= x
      BY <1>7 DEF x
    <3>5. ~(v < p)
      <4>1. y <= a
        BY <1>2, <1>4, <3>3
      <4> HIDE DEF y
      <4>2. v < p => 2 * x + d <= y
        BY <3>1, <3>2 DEF y
      <4> QED
        BY <1>1, <1>2, <3>2, <3>3, <3>4, <4>1, <4>2
    <3> QED
      BY <1>3, <1>4, <2>1, <3>5 DEF p
  <2>2. CASE ~(n >= 0)
    <3>1. q \in Nat
      <4>1. b \in Nat
        BY <1>1, <1>2, <2>2
      <4> QED
        BY <1>1, <4>1, QuotientIsNat DEF q
    <3> QED
      BY <1>3, <2>2, <3>1 DEF q
  <2> QED
    BY <2>1, <2>2
<1>8. n >= 0 => Round(n) \in Nat
  <2>1. n >= 0 => a \in Nat
    BY <1>1, <1>2
  <2> QED
    BY <1>1, <1>3, <2>1, QuotientIsNat
<1> QED
  BY <1>6, <1>7, <1>8 DEF u

\* Clamping goes to the nearest value of a type.
LEMMA ClampIsNear ==
  ASSUME NEW t, IntegerType(t), NEW n \in Int
  PROVE  /\ ValueOf(Clamp(n, t), t) /\ Clamp(n, t) \in Int
         /\ ValueOf(n, t) => Clamp(n, t) = n
         /\ \A v \in Int : ValueOf(v, t) =>
              /\ n <= v => Clamp(n, t) <= v
              /\ n < v => Clamp(n, t) < v \/ Clamp(n, t) = MinOf(t)
<1>1. MinOf(t) \in Int /\ MaxOf(t) \in Int /\ MinOf(t) <= MaxOf(t)
  BY RangeOfType
<1> QED
  BY <1>1 DEF Clamp, ValueOf

-----------------------------------------------------------------------------
(* Lines.                                                                  *)

\* A slice of integers that may begin anywhere.
LinearSlice(a, t) ==
  /\ Length(a) \in Nat
  /\ \A i \in Index(a) : SlotAt(a, i).valid \in BOOLEAN
  /\ \A i \in ValidIn(a) : ValueOf(SlotAt(a, i).value, t)

\* Its slots.
LEMMA LinearSliceIs ==
  ASSUME NEW t, IntegerType(t), NEW a, LinearSlice(a, t)
  PROVE  /\ Length(a) \in Nat /\ Index(a) = 0 .. Length(a) - 1
         /\ ValidIn(a) \in SUBSET Index(a) /\ ValidIn(a) \in SUBSET Nat
         /\ IsFiniteSet(ValidIn(a))
         /\ \A i \in Index(a) : i \in ValidIn(a) <=> SlotAt(a, i).valid
         /\ \A i \in ValidIn(a) : SlotAt(a, i).value \in Int
<1>1. /\ Length(a) \in Nat /\ Index(a) = 0 .. Length(a) - 1
      /\ ValidIn(a) \in SUBSET Index(a)
      /\ \A i \in Index(a) : i \in ValidIn(a) <=> SlotAt(a, i).valid
  BY DEF LinearSlice, Index, ValidIn
<1>2. ValidIn(a) \in SUBSET Nat
  BY <1>1
<1>3. IsFiniteSet(ValidIn(a))
  <2>1. 0 \in Int /\ Length(a) - 1 \in Int
    BY <1>1
  <2>2. IsFiniteSet(0 .. Length(a) - 1)
    BY <2>1, FS_Interval
  <2> QED
    BY <1>1, <2>2, FS_Subset
<1>4. \A i \in ValidIn(a) : SlotAt(a, i).value \in Int
  BY RangeOfType DEF LinearSlice, ValueOf
<1> QED
  BY <1>1, <1>2, <1>3, <1>4

\* The distances to a line have a least and a greatest one.
LEMMA DistancesHaveExtremes ==
  ASSUME NEW t, IntegerType(t), NEW a, LinearSlice(a, t), ValidIn(a) # {}, NEW m \in Int
  PROVE  /\ RangeStats(Distances(a, m)).min \in Int
         /\ RangeStats(Distances(a, m)).max \in Int
         /\ RangeStats(Distances(a, m)).min <= RangeStats(Distances(a, m)).max
         /\ \E j \in ValidIn(a) :
              RangeStats(Distances(a, m)).max = Unit * SlotAt(a, j).value - m * j
<1> DEFINE V == ValidIn(a)
           s == Distances(a, m)
           e(i) == Unit * SlotAt(a, i).value - m * i
<1>1. V \in SUBSET Nat /\ IsFiniteSet(V) /\ \A i \in V : SlotAt(a, i).value \in Int
  BY LinearSliceIs
<1>2. \A i \in V : e(i) \in Int
  BY <1>1, UnitIsPositive
<1>3. s = [i \in V |-> e(i)]
  BY DEF Distances
<1> HIDE DEF e, V
<1>4. Range(s) \in SUBSET Int /\ Range(s) # {} /\ \A x \in Range(s) : \E j \in V : x = e(j)
  BY <1>2, <1>3 DEF Range, V
<1>5. IsFiniteSet(Range(s))
  <2>1. s \in Surjection(V, Range(s))
    BY <1>3 DEF Surjection, Range
  <2> QED
    BY <1>1, <2>1, FS_Surjection
<1> HIDE DEF s
<1>6. /\ Min(Range(s)) \in Range(s) /\ \A x \in Range(s) : Min(Range(s)) <= x
      /\ Max(Range(s)) \in Range(s) /\ \A x \in Range(s) : x <= Max(Range(s))
  BY <1>4, <1>5, FiniteExtremes
<1>7. RangeStats(s).min = Min(Range(s)) /\ RangeStats(s).max = Max(Range(s))
  BY DEF RangeStats
<1> QED
  BY <1>4, <1>6, <1>7 DEF s, e, V

\* The interval of slopes that is bisected.
Slopings == [lo : Int, hi : Int]

\* A round of the bisection keeps it one.
LEMMA HalveStays ==
  ASSUME NEW a, NEW range \in Slopings
  PROVE  Middle(range) \in Int /\ Halve(a, range) \in Slopings
<1>1. range.lo \in Int /\ range.hi \in Int
  BY DEF Slopings
<1>2. Middle(range) \in Int
  <2>1. range.lo + range.hi \in Int /\ 2 \in Nat \ {0}
    BY <1>1
  <2> QED
    BY <2>1, Division DEF Middle
<1> DEFINE m == Middle(range)
           stats == RangeStats(Distances(a, m))
<1>3. Halve(a, range) = Narrowed(range, m, stats)
  BY DEF Halve
<1> HIDE DEF m, stats
<1>4. m \in Int
  BY <1>2 DEF m
<1>5. Narrowed(range, m, stats) \in Slopings
  BY <1>4 DEF Narrowed, Slopings
<1> QED
  BY <1>2, <1>3, <1>5

\* There is an interval to begin with.
LEMMA SlopesHaveExtremes ==
  ASSUME NEW t, IntegerType(t), NEW a, LinearSlice(a, t), ValidIn(a) # {},
         Cardinality(ValidIn(a)) # 1
  PROVE  Min(Slopes(a)) \in Int /\ Max(Slopes(a)) \in Int
<1> DEFINE V == ValidIn(a)
           R == V \ {Min(V)}
           prev(i) == Previous(a, i)
           e(i) == (Unit * (SlotAt(a, i).value - SlotAt(a, prev(i)).value)) \div (i - prev(i))
           f == [i \in R |-> e(i)]
<1>1. /\ V \in SUBSET Nat /\ V \in SUBSET Int /\ IsFiniteSet(V)
      /\ \A i \in V : SlotAt(a, i).value \in Int
  BY LinearSliceIs
<1>2. Min(V) \in V /\ \A i \in V : Min(V) <= i
  <2> HIDE DEF V
  <2>1. V # {}
    BY DEF V
  <2> QED
    BY <1>1, <2>1, FiniteExtremes
<1>3. R # {}
  <2> SUFFICES ASSUME R = {} PROVE FALSE
    OBVIOUS
  <2>1. V = {Min(V)}
    BY <1>2
  <2>2. Cardinality({Min(V)}) = 1
    BY FS_Singleton
  <2> QED
    BY <2>1, <2>2
<1>4. ASSUME NEW i \in R PROVE e(i) \in Int
  <2> DEFINE before == {j \in V : j < i}
  <2>1. i \in Nat /\ Min(V) < i /\ Min(V) \in before
    BY <1>1, <1>2
  <2>2. before \in SUBSET V /\ before \in SUBSET Int /\ IsFiniteSet(before)
    <3>1. before \in SUBSET V
      OBVIOUS
    <3> HIDE DEF before
    <3> QED
      BY <1>1, <3>1, FS_Subset
  <2>3. prev(i) = Max(before)
    BY DEF Previous
  <2> HIDE DEF before
  <2>4. Max(before) \in before
    BY <2>1, <2>2, FiniteExtremes
  <2>5. prev(i) \in V /\ prev(i) < i
    BY <2>3, <2>4 DEF before
  <2> DEFINE n == Unit * (SlotAt(a, i).value - SlotAt(a, prev(i)).value)
             d == i - prev(i)
  <2> HIDE DEF prev
  <2>6. n \in Int /\ d \in Nat \ {0}
    BY <1>1, <2>1, <2>5, UnitIsPositive
  <2> HIDE DEF n, d
  <2>7. n \div d \in Int
    BY <2>6, Division
  <2> QED
    BY <2>7 DEF n, d
<1>5. Slopes(a) = {e(i) : i \in R}
  BY DEF Slopes
<1>6. IsFiniteSet(R)
  <2>1. R \in SUBSET V
    OBVIOUS
  <2> QED
    BY <1>1, <2>1, FS_Subset
<1> HIDE DEF e, R
<1>7. Slopes(a) \in SUBSET Int /\ Slopes(a) # {}
  BY <1>3, <1>4, <1>5
<1>8. IsFiniteSet(Slopes(a))
  <2>1. f \in Surjection(R, Slopes(a))
    BY <1>5 DEF Surjection
  <2> QED
    BY <1>6, <2>1, FS_Surjection
<1>9. Min(Slopes(a)) \in Slopes(a) /\ Max(Slopes(a)) \in Slopes(a)
  BY <1>7, <1>8, FiniteExtremes
<1> QED
  BY <1>7, <1>9

\* The bisection ends at a slope.
LEMMA BestSlopeIsSlope ==
  ASSUME NEW t, IntegerType(t), NEW a, LinearSlice(a, t), ValidIn(a) # {}
  PROVE  BestSlope(a) \in Int
<1>1. CASE Cardinality(ValidIn(a)) = 1
  BY <1>1 DEF BestSlope
<1>2. CASE Cardinality(ValidIn(a)) # 1
  <2> DEFINE S == 1 .. MaxIters
             base == [lo |-> Min(Slopes(a)), hi |-> Max(Slopes(a))]
             f == [p \in S \X Slopings |-> Halve(a, p[2])]
             step(g, s) == IF s = {} THEN base
                           ELSE LET x == CHOOSE y \in s : TRUE IN Halve(a, g[s \ {x}])
             iter == CHOOSE g : g = [s \in SUBSET S |-> step(g, s)]
  <2>1. BestSlope(a) = Middle(iter[S])
    BY <1>2 DEF BestSlope, FoldSet, MapThenFoldSet
  <2>2. IsFiniteSet(S)
    BY LinearAssumption, FS_Interval
  <2>3. base \in Slopings
    BY <1>2, SlopesHaveExtremes DEF Slopings
  <2>4. f \in [S \X Slopings -> Slopings]
    BY HalveStays
  <2>5. \A g, s : s # {} => step(g, s) = Halve(a, g[s \ {First(s)}])
    BY DEF First
  <2>6. \A g : step(g, {}) = base
    OBVIOUS
  <2>7. \E g : g = [s \in SUBSET S |-> step(g, s)]
    <3> HIDE DEF S, base, f, step
    <3>1. PICK g \in [SUBSET S -> Slopings] : Folds(g, f, base, S)
      BY <2>2, <2>3, <2>4, FoldExists
    <3>2. ASSUME NEW s \in SUBSET S PROVE g[s] = step(g, s)
      <4>1. CASE s = {}
        BY <2>6, <3>1, <4>1 DEF Folds
      <4>2. CASE s # {}
        <5>1. First(s) \in S /\ s \ {First(s)} \in SUBSET S
          BY <2>2, <4>2, FirstRemoved
        <5>2. g[s \ {First(s)}] \in Slopings
          BY <3>1, <5>1
        <5>3. g[s] = f[<<First(s), g[s \ {First(s)}]>>]
          BY <3>1, <4>2 DEF Folds
        <5>4. g[s] = Halve(a, g[s \ {First(s)}])
          BY <5>1, <5>2, <5>3 DEF f
        <5> QED
          BY <2>5, <4>2, <5>4
      <4> QED
        BY <4>1, <4>2
    <3>3. g = [s \in SUBSET S |-> step(g, s)]
      BY <3>1, <3>2
    <3> QED
      BY <3>3
  <2>8. iter = [s \in SUBSET S |-> step(iter, s)]
    BY <2>7
  <2> HIDE DEF iter
  <2>9. \A s \in SUBSET S : iter[s] = step(iter, s)
    BY <2>8
  <2>10. iter[S] \in Slopings
    <3> HIDE DEF S, step, base
    <3>1. iter[{}] \in Slopings
      BY <2>3, <2>6, <2>9
    <3>2. ASSUME NEW s \in (SUBSET S) \ {{}}, iter[s \ {First(s)}] \in Slopings
          PROVE  iter[s] \in Slopings
      <4>1. iter[s] = Halve(a, iter[s \ {First(s)}])
        BY <2>5, <2>9
      <4> QED
        BY <3>2, <4>1, HalveStays
    <3> QED
      BY <2>2, <3>1, <3>2, FoldStays
  <2> QED
    BY <2>1, <2>10, HalveStays
<1> QED
  BY <1>1, <1>2

\* The line that fits has a slope and an intercept, and some value lies on it
\* or above.
LEMMA LineFits ==
  ASSUME NEW t, IntegerType(t), NEW a, LinearSlice(a, t), ValidIn(a) # {}
  PROVE  /\ FitLinf(a).slope \in Int /\ FitLinf(a).intercept \in Int
         /\ \E j \in ValidIn(a) :
              FitLinf(a).slope * j + FitLinf(a).intercept <= Unit * SlotAt(a, j).value
<1> DEFINE m == BestSlope(a)
           stats == RangeStats(Distances(a, m))
           min == stats.min
           max == stats.max
           b == (min + max) \div 2
<1>1. m \in Int
  BY BestSlopeIsSlope
<1>2. FitLinf(a).slope = m /\ FitLinf(a).intercept = b
  BY DEF FitLinf, LineOf
<1> HIDE DEF m
<1>3. /\ min \in Int /\ max \in Int /\ min <= max
      /\ \E j \in ValidIn(a) : max = Unit * SlotAt(a, j).value - m * j
  BY <1>1, DistancesHaveExtremes
<1> HIDE DEF min, max
<1>4. b \in Int /\ b <= max
  <2> DEFINE n == min + max
  <2>1. n \in Int /\ 2 \in Nat \ {0} /\ n <= 2 * max
    BY <1>3
  <2> HIDE DEF n
  <2>2. n \div 2 \in Int /\ n % 2 \in 0 .. 1 /\ n = (n \div 2) * 2 + (n % 2)
    BY <2>1, Division
  <2>3. n \div 2 <= max
    BY <1>3, <2>1, <2>2
  <2> QED
    BY <2>2, <2>3 DEF n
<1> HIDE DEF b
<1>5. PICK j \in ValidIn(a) : max = Unit * SlotAt(a, j).value - m * j
  BY <1>3
<1>6. m * j + b <= Unit * SlotAt(a, j).value
  <2> DEFINE x == m * j
             y == Unit * SlotAt(a, j).value
  <2>1. x \in Int /\ y \in Int
    BY <1>1, LinearSliceIs, UnitIsPositive
  <2>2. max = y - x
    BY <1>5
  <2> HIDE DEF x, y
  <2>3. x + b <= y
    BY <1>3, <1>4, <2>1, <2>2
  <2> QED
    BY <2>3 DEF x, y
<1> QED
  BY <1>1, <1>2, <1>4, <1>6

-----------------------------------------------------------------------------
(* The linear model.                                                       *)

\* A residual's type.
LEMMA ResidualType ==
  /\ IntegerType(Int64)
  /\ \E h \in Nat \ {0} :
       /\ h = 2^(WordBits - 1) /\ MinOf(Int64) = -h /\ MaxOf(Int64) = h - 1
<1>1. IntegerType(Int64)
  BY SizesAreNumbers DEF IntegerType, Int64
<1>2. Int64.bits = WordBits /\ Int64.signed
  BY DEF Int64
<1> DEFINE h == 2^(Int64.bits - 1)
<1>3. h \in Nat \ {0} /\ MinOf(Int64) = -h /\ MaxOf(Int64) = h - 1
  BY <1>1, <1>2, RangeOfType
<1>4. h = 2^(WordBits - 1)
  BY <1>2
<1> HIDE DEF h
<1> QED
  BY <1>1, <1>3, <1>4

\* A value comes back from its prediction and residual precisely if the
\* residual has not been cut off.
LEMMA SumComesBack ==
  ASSUME NEW t, IntegerType(t), NEW v, ValueOf(v, t), NEW p, ValueOf(p, t)
  PROVE  Clamp(p + Clamp(v - p, Int64), t) = v <=> v - p \in MinOf(Int64) .. MaxOf(Int64)
<1>1. PICK h \in Nat \ {0} : MinOf(Int64) = -h /\ MaxOf(Int64) = h - 1
  BY ResidualType
<1>2. MinOf(t) \in Int /\ MaxOf(t) \in Int
  BY RangeOfType
<1>3. v \in MinOf(t) .. MaxOf(t) /\ p \in MinOf(t) .. MaxOf(t)
  BY DEF ValueOf
<1>4. CASE v - p < -h
  <2>1. Clamp(v - p, Int64) = -h
    BY <1>1, <1>4 DEF Clamp
  <2>2. p - h > v /\ p - h <= MaxOf(t) /\ p + (-h) = p - h
    BY <1>2, <1>3, <1>4
  <2>3. Clamp(p - h, t) = p - h
    BY <1>2, <1>3, <2>2 DEF Clamp
  <2> QED
    BY <1>1, <1>2, <1>3, <1>4, <2>1, <2>2, <2>3
<1>5. CASE v - p > h - 1
  <2>1. Clamp(v - p, Int64) = h - 1
    BY <1>1, <1>2, <1>3, <1>5 DEF Clamp
  <2>2. p + (h - 1) < v /\ p + (h - 1) >= MinOf(t)
    BY <1>2, <1>3, <1>5
  <2>3. Clamp(p + (h - 1), t) = p + (h - 1)
    BY <1>2, <1>3, <2>2 DEF Clamp
  <2> QED
    BY <1>1, <1>2, <1>3, <1>5, <2>1, <2>2, <2>3
<1>6. CASE v - p \in -h .. h - 1
  <2>1. Clamp(v - p, Int64) = v - p
    BY <1>1, <1>6 DEF Clamp
  <2>2. p + (v - p) = v
    BY <1>2, <1>3
  <2>3. Clamp(v, t) = v
    BY <1>2, <1>3 DEF Clamp
  <2> QED
    BY <1>1, <1>6, <2>1, <2>2, <2>3
<1> QED
  BY <1>1, <1>2, <1>3, <1>4, <1>5, <1>6

\* No residual is cut off in a type of less bits.
LEMMA NarrowResiduals ==
  ASSUME NEW t, IntegerType(t), t.bits < WordBits, NEW v, ValueOf(v, t), NEW p, ValueOf(p, t)
  PROVE  v - p \in MinOf(Int64) .. MaxOf(Int64)
<1>1. PICK h \in Nat \ {0} :
        h = 2^(WordBits - 1) /\ MinOf(Int64) = -h /\ MaxOf(Int64) = h - 1
  BY ResidualType
<1> DEFINE m == 2^t.bits
           w == WordBits - 1
<1>2. /\ m \in Nat \ {0} /\ MinOf(t) \in Int /\ MaxOf(t) \in Int
      /\ MaxOf(t) - MinOf(t) < m
  BY RangeOfType
<1>3. m <= h
  <2>1. w \in Nat /\ t.bits \in 0 .. w
    BY SizesAreNumbers DEF IntegerType
  <2> HIDE DEF w
  <2>2. 2^t.bits <= 2^w
    BY <2>1, PowersGrow
  <2> QED
    BY <1>1, <2>2 DEF w
<1> HIDE DEF m
<1> QED
  BY <1>1, <1>2, <1>3 DEF ValueOf

\* llround gives an int64_t: what it is to round to, if that is one.
LEMMA LlroundIs ==
  ASSUME NEW n \in Int
  PROVE  /\ Llround(n) \in Int
         /\ ValueOf(Round(n), Int64) => Llround(n) = Round(n)
<1>1. MinOf(Int64) \in Int /\ MaxOf(Int64) \in Int
  BY ResidualType
<1>2. Round(n) \in Int /\ LlroundOverflow \in Int
  BY <1>1, RoundIsBelow, LlroundAssumption
<1> QED
  BY <1>2 DEF Llround, ValueOf

\* What a line predicts is a value of the type.
LEMMA PredictIsValue ==
  ASSUME NEW t, IntegerType(t), NEW line, line.slope \in Int, line.intercept \in Int,
         NEW i \in Int
  PROVE  ValueOf(Predict(line, i, t), t)
<1> DEFINE n == line.slope * i + line.intercept
<1>1. n \in Int
  OBVIOUS
<1>2. Predict(line, i, t) \in {MinOf(t), MaxOf(t), Native(Llround(n), t)}
  BY DEF Predict
<1> HIDE DEF n
<1>3. ValueOf(Native(Llround(n), t), t)
  BY <1>1, LlroundIs, NativeIsNear
<1>4. ValueOf(MinOf(t), t) /\ ValueOf(MaxOf(t), t)
  BY RangeOfType DEF ValueOf
<1> QED
  BY <1>2, <1>3, <1>4

\* A number of the type that llround can give is predicted as it is rounded.
LEMMA PredictedNumber ==
  ASSUME NEW t, IntegerType(t), NEW line, NEW i, NEW n \in Int,
         n = line.slope * i + line.intercept,
         ValueOf(Round(n), t), ValueOf(Round(n), Int64)
  PROVE  Predict(line, i, t) \in {MinOf(t), Round(n)}
           \/ (n >= Unit * MaxOf(t) /\ Predict(line, i, t) = MaxOf(t))
<1>1. Native(Round(n), t) = Round(n)
  <2>1. Round(n) \in Int /\ 2^t.bits \in Nat
    BY RoundIsBelow, RangeOfType
  <2>2. Round(n) = Round(n) + 0 * 2^t.bits /\ 0 \in Int
    BY <2>1
  <2> QED
    BY <2>2, NativeRestores
<1>2. Llround(n) = Round(n)
  BY LlroundIs
<1> QED
  BY <1>1, <1>2 DEF Predict

\* Of a point below a value that an int64_t has too, no more is predicted than
\* that value: it does not overflow.
LEMMA PredictIsBelow ==
  ASSUME NEW t, IntegerType(t), ~t.signed, NEW line, NEW i, NEW n \in Int,
         n = line.slope * i + line.intercept,
         NEW v \in Nat, ValueOf(v, t), ValueOf(v, Int64), n <= Unit * v
  PROVE  Predict(line, i, t) <= v
<1>1. MinOf(t) = 0 /\ MaxOf(t) \in Nat /\ v <= MaxOf(t)
  BY RangeOfType DEF ValueOf
<1>2. Unit \in Nat \ {0}
  BY UnitIsPositive
<1>3. CASE n <= 0
  <2>1. Unit * MinOf(t) = 0
    BY <1>1, <1>2
  <2>2. Predict(line, i, t) = 0
    BY <1>1, <1>3, <2>1 DEF Predict
  <2> QED
    BY <2>2
<1>4. CASE n > 0
  <2>1. Round(n) \in Nat /\ Round(n) <= v
    BY <1>4, RoundIsBelow
  <2>2. ValueOf(Round(n), t)
    BY <1>1, <2>1 DEF ValueOf
  <2>3. ValueOf(Round(n), Int64)
    BY <2>1, ResidualType DEF ValueOf
  <2>4. ASSUME n >= Unit * MaxOf(t) PROVE MaxOf(t) <= v
    <3>1. Unit * MaxOf(t) <= Unit * v
      <4>1. Unit * MaxOf(t) \in Int /\ Unit * v \in Int
        BY <1>1, <1>2
      <4> QED
        BY <2>4, <4>1
    <3>2. \A x, y \in Nat, u \in Nat \ {0} : y < x => u * y < u * x
      OBVIOUS
    <3> QED
      BY <1>1, <1>2, <3>1, <3>2
  <2> QED
    BY <1>1, <2>1, <2>2, <2>3, <2>4, PredictedNumber
<1> QED
  BY <1>3, <1>4

\* The flat line predicts zero.
LEMMA FlatPredictsZero ==
  ASSUME NEW t, IntegerType(t), NEW i \in Int
  PROVE  Predict(Flat, i, t) = 0
<1>1. Flat.slope = 0 /\ Flat.intercept = 0
  BY DEF Flat
<1>2. 0 * i + 0 = 0
  OBVIOUS
<1>3. MinOf(t) \in Int /\ MaxOf(t) \in Nat /\ MinOf(t) <= 0
  BY RangeOfType
<1>4. Round(0) = 0
  <2> DEFINE u == Unit
             d == 2 * u
  <2>1. u \in Nat \ {0} /\ d \in Nat \ {0} /\ d = 2 * u
    BY UnitIsPositive
  <2>2. Round(0) = (2 * 0 + u) \div d
    BY DEF Round
  <2> HIDE DEF u, d
  <2>3. (2 * 0 + u) = u /\ u \in Int
    BY <2>1
  <2>4. u \div d \in Int /\ u % d \in 0 .. d - 1 /\ u = (u \div d) * d + (u % d)
    BY <2>1, <2>3, Division
  <2>5. 0 * d + u = u /\ u \in 0 .. d - 1
    BY <2>1
  <2>6. u \div d = 0
    BY <2>1, <2>4, <2>5, OneBlock
  <2> QED
    BY <2>2, <2>3, <2>6
<1>5. Native(Llround(0), t) = 0
  <2>1. ValueOf(0, t) /\ ValueOf(0, Int64)
    BY <1>3, ResidualType DEF ValueOf
  <2>2. Llround(0) = 0
    BY <1>4, <2>1, LlroundIs
  <2>3. 0 = 0 + 0 * 2^t.bits
    BY RangeOfType
  <2> QED
    BY <2>1, <2>2, <2>3, NativeRestores
<1>6. /\ 0 <= Unit * MinOf(t) => MinOf(t) = 0
      /\ 0 >= Unit * MaxOf(t) => MaxOf(t) = 0
  <2>1. Unit \in Nat \ {0}
    BY UnitIsPositive
  <2>2. \A x \in Int, u \in Nat \ {0} : (x < 0 => u * x < 0) /\ (x > 0 => u * x > 0)
    OBVIOUS
  <2> QED
    BY <1>3, <2>1, <2>2
<1> QED
  BY <1>1, <1>2, <1>5, <1>6 DEF Predict

\* The array of residuals.
LEMMA RebuiltIs ==
  ASSUME NEW t, IntegerType(t), NEW a, LinearSlice(a, t), NEW f,
         \A i \in ValidIn(a) : ValueOf(f[i], Int64)
  PROVE  /\ IntegerSlice(Rebuilt(a, f), Int64)
         /\ Index(Rebuilt(a, f)) = Index(a)
         /\ \A i \in Index(a) :
              /\ SlotAt(Rebuilt(a, f), i).valid = SlotAt(a, i).valid
              /\ SlotAt(a, i).valid => SlotAt(Rebuilt(a, f), i).value = f[i]
<1> DEFINE slot(i) == [valid |-> SlotAt(a, i).valid,
                       value |-> IF SlotAt(a, i).valid THEN f[i] ELSE 0]
           slots == [i \in 1 .. Length(a) |-> slot(i - 1)]
           r == Rebuilt(a, f)
<1>1. /\ Length(a) \in Nat /\ Index(a) = 0 .. Length(a) - 1
      /\ \A i \in Index(a) : i \in ValidIn(a) <=> SlotAt(a, i).valid
  BY LinearSliceIs
<1>2. r = [slots |-> slots, offset |-> 0]
  BY DEF Rebuilt, Array
<1>3. r.slots = slots /\ r.offset = 0
  BY <1>2
<1>4. Len(slots) = Length(a)
  BY <1>1
<1>5. Length(r) = Length(a) /\ Index(r) = Index(a)
  BY <1>1, <1>3, <1>4 DEF Length, Index
<1>6. ASSUME NEW i \in Index(a) PROVE SlotAt(r, i) = slot(i)
  <2> DEFINE k == i + 1
  <2>1. 0 + i + 1 = k /\ k \in 1 .. Length(a) /\ k - 1 = i
    BY <1>1
  <2> HIDE DEF k, slot
  <2>2. slots[k] = slot(i)
    BY <2>1
  <2> HIDE DEF slots
  <2> QED
    BY <1>3, <2>1, <2>2 DEF SlotAt
<1>7. \A i \in Index(a) :
        /\ SlotAt(r, i).valid = SlotAt(a, i).valid
        /\ SlotAt(a, i).valid => SlotAt(r, i).value = f[i]
  BY <1>6
<1> HIDE DEF r, slots
<1>8. ByteSlice(r)
  <2>1. 0 % ByteBits = 0
    BY SizesAssumption
  <2>2. \A i \in Index(r) : SlotAt(r, i).valid \in BOOLEAN
    BY <1>5, <1>7 DEF LinearSlice
  <2>3. Len(r.slots) \in Nat /\ r.offset \in 0 .. Len(r.slots)
    BY <1>1, <1>3, <1>4
  <2> QED
    BY <1>3, <2>1, <2>2, <2>3 DEF ByteSlice
<1>9. \A i \in ValidIn(r) : ValueOf(SlotAt(r, i).value, Int64)
  BY <1>1, <1>5, <1>7 DEF ValidIn
<1> QED
  BY <1>5, <1>7, <1>8, <1>9 DEF IntegerSlice, r

\* Residuals come back, and are added to their predictions.
LEMMA LinearSums ==
  ASSUME NEW t, IntegerType(t), NEW a, LinearSlice(a, t), NEW f,
         \A i \in ValidIn(a) : ValueOf(f[i], Int64), NEW line
  PROVE  /\ LinearOf(a, line, f).line = line
         /\ DOMAIN LinearToArrow(LinearOf(a, line, f), t) = Index(a)
         /\ \A i \in Index(a) :
              LinearToArrow(LinearOf(a, line, f), t)[i].valid = SlotAt(a, i).valid
         /\ \A i \in ValidIn(a) :
              LinearToArrow(LinearOf(a, line, f), t)[i].value = Clamp(Predict(line, i, t) + f[i], t)
<1> DEFINE r == Rebuilt(a, f)
           residuals == ToArrow(FromArrow(r, Int64), Int64)
           liquid == LinearOf(a, line, f)
<1>1. /\ IntegerSlice(r, Int64) /\ Index(r) = Index(a)
      /\ \A i \in Index(a) :
           /\ SlotAt(r, i).valid = SlotAt(a, i).valid
           /\ SlotAt(a, i).valid => SlotAt(r, i).value = f[i]
  BY RebuiltIs
<1>2. Restores(residuals, r)
  BY <1>1, ResidualType, FrameOfReferenceRestores
<1>3. /\ DOMAIN residuals = Index(a)
      /\ \A i \in Index(a) :
           /\ residuals[i].valid = SlotAt(r, i).valid
           /\ residuals[i].valid => residuals[i].value = SlotAt(r, i).value
  BY <1>1, <1>2 DEF Restores
<1>4. liquid.line = line /\ liquid.residuals = FromArrow(r, Int64)
  BY DEF LinearOf
<1> HIDE DEF liquid, r
<1>5. LinearToArrow(liquid, t)
        = [i \in DOMAIN residuals |->
             [valid |-> residuals[i].valid,
              value |-> Clamp(Predict(line, i, t) + residuals[i].value, t)]]
  BY <1>4 DEF LinearToArrow
<1> HIDE DEF residuals
<1>6. \A i \in ValidIn(a) : i \in Index(a) /\ SlotAt(a, i).valid
  BY DEF ValidIn
<1>7. \A i \in Index(a) : SlotAt(a, i).valid => residuals[i].value = f[i]
  <2> TAKE i \in Index(a)
  <2>1. residuals[i].valid = SlotAt(a, i).valid
    BY <1>1, <1>3
  <2> QED
    BY <1>1, <1>3, <2>1
<1>8. \A i \in Index(a) : LinearToArrow(liquid, t)[i].valid = SlotAt(a, i).valid
  BY <1>1, <1>3, <1>5
<1>9. \A i \in ValidIn(a) :
        LinearToArrow(liquid, t)[i].value = Clamp(Predict(line, i, t) + f[i], t)
  BY <1>3, <1>5, <1>6, <1>7
<1> QED
  BY <1>3, <1>4, <1>5, <1>8, <1>9 DEF liquid

\* The values of a slice.
LEMMA ValuesOfSlice ==
  ASSUME NEW t, IntegerType(t), NEW a, LinearSlice(a, t)
  PROVE  \A i \in ValidIn(a) :
           /\ i \in Int /\ i \in Index(a)
           /\ ValueOf(SlotAt(a, i).value, t) /\ SlotAt(a, i).value \in Int
           /\ SlotAt(a, i).value \in ValuesOf(a)
BY LinearSliceIs DEF LinearSlice, ValuesOf

\* No residual of a line that is useful is cut off in a column of unsigned
\* values that int64_t has: one cut off is the least number there is, and with
\* a value on the line or above makes the residuals as wide as they can be.
LEMMA UnsignedResiduals ==
  ASSUME NEW t, IntegerType(t), ~t.signed, NEW a, LinearSlice(a, t), ValidIn(a) # {},
         \A v \in ValuesOf(a) : v <= MaxOf(Int64),
         Useful(a, FitLinf(a), t), NEW i \in ValidIn(a)
  PROVE  SlotAt(a, i).value - Predict(FitLinf(a), i, t) \in MinOf(Int64) .. MaxOf(Int64)
<1> DEFINE line == FitLinf(a)
           V == ValidIn(a)
           value(j) == SlotAt(a, j).value
           p(j) == Predict(line, j, t)
           res == Residuals(a, line, t)
           all == {res[j] : j \in V}
           values == ValuesOf(a)
<1>1. PICK h \in Nat \ {0} : MinOf(Int64) = -h /\ MaxOf(Int64) = h - 1
  BY ResidualType
<1>2. MinOf(t) = 0 /\ MaxOf(t) \in Int
  BY RangeOfType
<1>3. ASSUME NEW j \in V
      PROVE  /\ value(j) \in 0 .. h - 1 /\ ValueOf(value(j), t)
             /\ p(j) \in Nat /\ ValueOf(p(j), t)
             /\ res[j] = Clamp(value(j) - p(j), Int64)
             /\ ValueOf(res[j], Int64)
  <2>1. /\ j \in Int /\ j \in Index(a) /\ ValueOf(value(j), t)
        /\ value(j) \in Int /\ value(j) \in values
    BY ValuesOfSlice
  <2>2. value(j) \in 0 .. h - 1
    BY <1>1, <1>2, <2>1 DEF ValueOf
  <2>3. ValueOf(p(j), t)
    BY <2>1, LineFits, PredictIsValue
  <2>4. p(j) \in Nat
    BY <1>2, <2>3 DEF ValueOf
  <2>5. res[j] = Clamp(value(j) - p(j), Int64)
    BY <2>1 DEF Residuals
  <2> HIDE DEF value, p
  <2>6. value(j) - p(j) \in Int
    BY <2>1, <2>4
  <2>7. ValueOf(res[j], Int64)
    BY <2>5, <2>6, ResidualType, ClampIsNear
  <2> QED
    BY <2>1, <2>2, <2>3, <2>4, <2>5, <2>7
<1>4. PICK j \in V : line.slope * j + line.intercept <= Unit * value(j)
  BY LineFits
<1>5. p(j) <= value(j)
  <2> DEFINE n == line.slope * j + line.intercept
  <2>1. n \in Int
    BY LineFits, ValuesOfSlice
  <2>2. value(j) \in Nat /\ ValueOf(value(j), t) /\ ValueOf(value(j), Int64)
    BY <1>1, <1>3 DEF ValueOf
  <2>3. n <= Unit * value(j)
    BY <1>4
  <2> HIDE DEF value
  <2> QED
    BY <2>1, <2>2, <2>3, PredictIsBelow
<1> HIDE DEF p, res, value
<1>6. res[j] >= 0
  <2>1. value(j) - p(j) \in 0 .. h - 1
    BY <1>3, <1>5
  <2>2. Clamp(value(j) - p(j), Int64) = value(j) - p(j)
    BY <1>1, <2>1 DEF Clamp
  <2> QED
    BY <1>3, <2>1, <2>2
<1>7. Width(all) < Width(values)
  BY DEF Useful, res
<1>8. Width(values) \in Int /\ Width(values) < h
  <2>1. \A v \in values : \E k \in V : v = value(k)
    BY DEF ValuesOf, value
  <2>2. values # {} /\ \A v \in values : v \in 0 .. h - 1
    <3>1. values # {}
      BY DEF ValuesOf
    <3> QED
      BY <1>3, <2>1, <3>1
  <2> HIDE DEF values
  <2>3. \A v \in values : ValueOf(v, Int64)
    BY <1>1, <2>2 DEF ValueOf
  <2>4. Min(values) \in values /\ Max(values) \in values
    BY <2>2, <2>3, ResidualType, ExtremesOfType
  <2>5. Min(values) \in 0 .. h - 1 /\ Max(values) \in 0 .. h - 1
    BY <2>2, <2>4
  <2> QED
    BY <1>1, <2>5 DEF Width
<1>9. ASSUME value(i) - p(i) < -h PROVE FALSE
  <2>1. res[i] = -h
    BY <1>1, <1>3, <1>9 DEF Clamp
  <2>2. res[i] \in all /\ res[j] \in all /\ \A x \in all : ValueOf(x, Int64)
    BY <1>3
  <2> HIDE DEF all
  <2>3. /\ ValueOf(Min(all), Int64) /\ ValueOf(Max(all), Int64)
        /\ Min(all) <= res[i] /\ res[j] <= Max(all)
    <3>1. all # {}
      BY <2>2
    <3> QED
      BY <2>2, <3>1, ResidualType, ExtremesOfType
  <2>4. Min(all) \in Int /\ Max(all) \in Int /\ res[j] \in Int
    <3>1. ValueOf(res[j], Int64)
      BY <1>3
    <3> QED
      BY <1>1, <2>3, <3>1 DEF ValueOf
  <2>5. Max(all) - Min(all) >= h
    BY <1>6, <2>1, <2>3, <2>4
  <2>6. Width(all) >= h /\ Width(all) \in Int
    BY <2>4, <2>5 DEF Width
  <2> HIDE DEF values
  <2> QED
    BY <1>1, <1>7, <1>8, <2>6
<1>10. value(i) - p(i) \in -h .. h - 1
  BY <1>3, <1>9
<1> QED
  BY <1>1, <1>10 DEF value, p

\* The linear model restores the nulls of any slice, and the values whose
\* residuals are not cut off: all of them in types of less than 64 bits, and
\* among unsigned ones that an int64_t has too.
THEOREM LinearModelRestores ==
  ASSUME NEW t, IntegerType(t), NEW a, LinearSlice(a, t)
  PROVE  /\ DOMAIN LinearToArrow(LinearFromArrow(a, t), t) = Index(a)
         /\ \A i \in Index(a) :
              LinearToArrow(LinearFromArrow(a, t), t)[i].valid = SlotAt(a, i).valid
         /\ \A i \in ValidIn(a) :
              Carries(LinearFromArrow(a, t), a, i, t) =>
                LinearToArrow(LinearFromArrow(a, t), t)[i].value = SlotAt(a, i).value
         /\ (\/ t.bits < WordBits
             \/ ~t.signed /\ \A v \in ValuesOf(a) : v <= MaxOf(Int64))
              => \A i \in ValidIn(a) : Carries(LinearFromArrow(a, t), a, i, t)
<1> DEFINE V == ValidIn(a)
           value(i) == SlotAt(a, i).value
           line == IF V = {} THEN Flat ELSE FitLinf(a)
           res == Residuals(a, line, t)
           plain == PlainResiduals(a, t)
           kept == LinearFromArrow(a, t)
           roomy == \/ t.bits < WordBits
                    \/ ~t.signed /\ \A v \in ValuesOf(a) : v <= MaxOf(Int64)
<1>1. PICK h \in Nat \ {0} : MinOf(Int64) = -h /\ MaxOf(Int64) = h - 1
  BY ResidualType
<1>2. MinOf(t) \in Int /\ MaxOf(t) \in Int
  BY RangeOfType
<1>3. \A i \in V : /\ i \in Int /\ i \in Index(a) /\ ValueOf(value(i), t)
                   /\ value(i) \in Int /\ value(i) \in ValuesOf(a)
  BY ValuesOfSlice
<1>4. kept = IF Useful(a, line, t) THEN LinearOf(a, line, res) ELSE LinearOf(a, Flat, plain)
  BY DEF LinearFromArrow, KeepIfUseful
<1>5. CASE Useful(a, line, t)
  <2>1. V # {} /\ line = FitLinf(a)
    BY <1>5 DEF Useful
  <2>2. ASSUME NEW i \in V
        PROVE  /\ ValueOf(Predict(line, i, t), t) /\ Predict(line, i, t) \in Int
               /\ res[i] = Clamp(value(i) - Predict(line, i, t), Int64)
               /\ ValueOf(res[i], Int64)
    <3>1. ValueOf(Predict(line, i, t), t)
      BY <1>3, <2>1, LineFits, PredictIsValue
    <3>2. Predict(line, i, t) \in Int
      BY <1>2, <3>1 DEF ValueOf
    <3>3. res[i] = Clamp(value(i) - Predict(line, i, t), Int64)
      BY <1>3 DEF Residuals
    <3>4. value(i) - Predict(line, i, t) \in Int
      BY <1>3, <3>2
    <3>5. ValueOf(res[i], Int64)
      BY <3>3, <3>4, ResidualType, ClampIsNear
    <3> QED
      BY <3>1, <3>2, <3>3, <3>5
  <2>3. kept = LinearOf(a, line, res)
    BY <1>4, <1>5
  <2> HIDE DEF line, res, value
  <2>4. /\ kept.line = line /\ DOMAIN LinearToArrow(kept, t) = Index(a)
        /\ \A i \in Index(a) : LinearToArrow(kept, t)[i].valid = SlotAt(a, i).valid
        /\ \A i \in V : LinearToArrow(kept, t)[i].value = Clamp(Predict(line, i, t) + res[i], t)
    BY <2>2, <2>3, LinearSums
  <2>5. \A i \in V : Carries(kept, a, i, t)
                       <=> value(i) - Predict(line, i, t) \in MinOf(Int64) .. MaxOf(Int64)
    BY <2>4 DEF Carries, value
  <2>6. \A i \in V : LinearToArrow(kept, t)[i].value = value(i) <=> Carries(kept, a, i, t)
    BY <1>3, <2>2, <2>4, <2>5, SumComesBack
  <2>7. ASSUME roomy, NEW i \in V
        PROVE  value(i) - Predict(line, i, t) \in MinOf(Int64) .. MaxOf(Int64)
    <3>1. CASE t.bits < WordBits
      BY <1>3, <2>2, <3>1, NarrowResiduals
    <3>2. CASE ~t.signed /\ \A v \in ValuesOf(a) : v <= MaxOf(Int64)
      BY <1>5, <2>1, <3>2, UnsignedResiduals DEF value
    <3> QED
      BY <2>7, <3>1, <3>2
  <2> QED
    BY <2>4, <2>5, <2>6, <2>7 DEF value
<1>6. CASE ~Useful(a, line, t)
  <2>1. ASSUME NEW i \in V
        PROVE  plain[i] = IF t.signed THEN value(i) ELSE value(i) % h
    <3>1. MaxOf(Int64) + 1 = h
      BY <1>1
    <3> QED
      BY <1>3, <3>1 DEF PlainResiduals
  <2>2. t.signed => \A i \in V : value(i) \in -h .. h - 1
    <3> SUFFICES ASSUME t.signed, NEW i \in V PROVE value(i) \in -h .. h - 1
      OBVIOUS
    <3>1. CASE t.bits < WordBits
      <4>1. ValueOf(0, t)
        BY RangeOfType DEF ValueOf
      <4>2. value(i) - 0 \in MinOf(Int64) .. MaxOf(Int64)
        BY <1>3, <3>1, <4>1, NarrowResiduals
      <4> QED
        BY <1>1, <1>3, <4>2
    <3>2. CASE t.bits = WordBits
      <4>1. MinOf(t) = MinOf(Int64) /\ MaxOf(t) = MaxOf(Int64)
        BY <3>2 DEF MinOf, MaxOf, Int64
      <4> QED
        BY <1>1, <1>3, <4>1 DEF ValueOf
    <3>3. t.bits < WordBits \/ t.bits = WordBits
      BY SizesAreNumbers DEF IntegerType
    <3> QED
      BY <3>1, <3>2, <3>3
  <2>3. ASSUME NEW i \in V, ~t.signed
        PROVE  /\ value(i) \in Nat /\ plain[i] \in 0 .. h - 1
               /\ plain[i] <= value(i)
               /\ value(i) < h <=> plain[i] = value(i)
    <3> DEFINE v == value(i)
    <3>1. v \in Nat
      BY <1>3, <2>3, RangeOfType DEF ValueOf
    <3>2. plain[i] = v % h
      BY <2>1, <2>3
    <3> HIDE DEF value, v, plain
    <3>3. v % h \in 0 .. h - 1 /\ v % h <= v /\ (v < h <=> v % h = v)
      BY <1>1, <3>1
    <3> QED
      BY <3>1, <3>2, <3>3 DEF v
  <2>4. \A i \in V : ValueOf(plain[i], Int64)
    BY <1>1, <2>1, <2>2, <2>3 DEF ValueOf
  <2>5. kept = LinearOf(a, Flat, plain)
    BY <1>4, <1>6
  <2> HIDE DEF plain, value, line
  <2>6. /\ kept.line = Flat /\ DOMAIN LinearToArrow(kept, t) = Index(a)
        /\ \A i \in Index(a) : LinearToArrow(kept, t)[i].valid = SlotAt(a, i).valid
        /\ \A i \in V : LinearToArrow(kept, t)[i].value = Clamp(Predict(Flat, i, t) + plain[i], t)
    BY <2>4, <2>5, LinearSums
  <2>7. \A i \in V : LinearToArrow(kept, t)[i].value = Clamp(plain[i], t)
    <3> TAKE i \in V
    <3>1. Predict(Flat, i, t) = 0
      BY <1>3, FlatPredictsZero
    <3>2. plain[i] \in Int
      BY <1>1, <2>4 DEF ValueOf
    <3>3. 0 + plain[i] = plain[i]
      BY <3>2
    <3> QED
      BY <2>6, <3>1, <3>3
  <2>8. \A i \in V : Carries(kept, a, i, t) <=> value(i) \in -h .. h - 1
    <3> TAKE i \in V
    <3>1. Predict(Flat, i, t) = 0 /\ value(i) - 0 = value(i)
      BY <1>3, FlatPredictsZero
    <3> QED
      BY <1>1, <2>6, <3>1 DEF Carries, value
  <2>9. ASSUME NEW i \in V
        PROVE  LinearToArrow(kept, t)[i].value = value(i) <=> Carries(kept, a, i, t)
    <3>1. CASE t.signed
      <4>1. plain[i] = value(i) /\ Carries(kept, a, i, t)
        BY <2>1, <2>2, <2>8, <3>1
      <4>2. Clamp(value(i), t) = value(i)
        BY <1>3, ClampIsNear
      <4> QED
        BY <2>7, <4>1, <4>2
    <3>2. CASE ~t.signed
      <4>1. Clamp(plain[i], t) = plain[i]
        <5>1. ValueOf(plain[i], t) /\ plain[i] \in Int
          <6>1. MinOf(t) = 0
            BY <3>2, RangeOfType
          <6> QED
            BY <1>1, <1>2, <1>3, <2>3, <3>2, <6>1 DEF ValueOf
        <5> QED
          BY <5>1, ClampIsNear
      <4>2. value(i) \in -h .. h - 1 <=> value(i) < h
        BY <1>1, <2>3, <3>2
      <4> QED
        BY <2>3, <2>7, <2>8, <3>2, <4>1, <4>2
    <3> QED
      BY <3>1, <3>2
  <2>10. ASSUME roomy, NEW i \in V PROVE Carries(kept, a, i, t)
    <3>1. CASE t.signed
      BY <2>2, <2>8, <3>1
    <3>2. CASE ~t.signed /\ t.bits < WordBits
      <4>1. ValueOf(0, t)
        BY RangeOfType DEF ValueOf
      <4>2. value(i) - 0 \in MinOf(Int64) .. MaxOf(Int64)
        BY <1>3, <3>2, <4>1, NarrowResiduals
      <4> QED
        BY <1>1, <1>3, <2>8, <4>2
    <3>3. CASE ~t.signed /\ \A v \in ValuesOf(a) : v <= MaxOf(Int64)
      <4>1. value(i) <= h - 1 /\ value(i) \in Nat
        BY <1>1, <1>3, <2>3, <3>3
      <4> QED
        BY <1>1, <2>8, <4>1
    <3> QED
      BY <2>10, <3>1, <3>2, <3>3
  <2> QED
    BY <2>6, <2>9, <2>10 DEF value
<1> QED
  BY <1>5, <1>6

\* Any slice of a column of integers, from whatever slot of its buffers on.
LEMMA LinearColumns ==
  ASSUME ColumnFits, IsInteger, NEW a \in AllSlices
  PROVE  IntegerType(type) /\ LinearSlice(a, type)
<1>1. ColumnOK /\ IntegerType(type)
  BY TypesAssumption DEF ColumnFits, ColumnOK, IsInteger, IntegerType
<1>2. PICK n \in {0, 1, ByteBits} : a = SliceAfter(n)
  BY DEF AllSlices
<1>3. n \in Nat /\ Len(column) \in Nat
  BY <1>1, <1>2, SizesAssumption DEF ColumnOK
<1>4. /\ Length(a) = Len(column)
      /\ \A i \in Index(a) : i + 1 \in DOMAIN column /\ SlotAt(a, i) = column[i + 1]
  BY <1>1, <1>2, <1>3, SlicesOfColumn
<1>5. ValuesIn(type) \subseteq MinOf(type) .. MaxOf(type)
  BY DEF ValuesIn, Boundary, IsInteger
<1>6. \A i \in Index(a) : SlotAt(a, i).valid \in BOOLEAN
  <2> DEFINE R == [valid : BOOLEAN, value : AllValues]
  <2>1. \A r \in R : r.valid \in BOOLEAN
    OBVIOUS
  <2>2. column \in Seq(R)
    BY <1>1 DEF ColumnOK
  <2> HIDE DEF R
  <2>3. \A k \in DOMAIN column : column[k] \in R
    BY <2>2
  <2> QED
    BY <1>4, <2>1, <2>3
<1>7. \A i \in ValidIn(a) : SlotAt(a, i).value \in ValuesIn(type)
  BY <1>4 DEF ValidIn, Fitting, ColumnFits
<1> QED
  BY <1>1, <1>3, <1>4, <1>5, <1>6, <1>7 DEF LinearSlice, ValueOf

\* The linear model of every slice of every column of integers restores the
\* nulls and the values whose residuals are not cut off; and none is in types
\* of less than 64 bits, nor in unsigned ones up to the greatest int64_t.
THEOREM LinearRestoresAlways == Spec => []LinearRestores
<1>1. ASSUME ColumnFits, IsInteger, NEW a \in AllSlices
      PROVE  LET liquid  == LinearFromArrow(a, type)
                 decoded == LinearToArrow(liquid, type)
             IN  /\ DOMAIN decoded = Index(a)
                 /\ \A i \in Index(a) : decoded[i].valid = SlotAt(a, i).valid
                 /\ \A i \in ValidIn(a) :
                      Carries(liquid, a, i, type) => decoded[i].value = SlotAt(a, i).value
                 /\ (\/ type.bits < WordBits
                     \/ ~type.signed /\ \A v \in ValuesOf(a) : v <= MaxOf(Int64))
                      => Restores(decoded, a)
  <2> DEFINE liquid == LinearFromArrow(a, type)
             decoded == LinearToArrow(liquid, type)
             roomy == \/ type.bits < WordBits
                      \/ ~type.signed /\ \A v \in ValuesOf(a) : v <= MaxOf(Int64)
  <2>1. IntegerType(type) /\ LinearSlice(a, type)
    BY <1>1, LinearColumns
  <2>2. /\ DOMAIN decoded = Index(a)
        /\ \A i \in Index(a) : decoded[i].valid = SlotAt(a, i).valid
        /\ \A i \in ValidIn(a) :
             Carries(liquid, a, i, type) => decoded[i].value = SlotAt(a, i).value
        /\ roomy => \A i \in ValidIn(a) : Carries(liquid, a, i, type)
    BY <2>1, LinearModelRestores
  <2>3. \A i \in Index(a) : SlotAt(a, i).valid => i \in ValidIn(a)
    BY DEF ValidIn
  <2> HIDE DEF liquid, decoded
  <2>4. roomy => Restores(decoded, a)
    BY <2>2, <2>3 DEF Restores
  <2> QED
    BY <2>2, <2>4 DEF liquid, decoded
<1>2. ColumnFits => LinearRestores
  BY <1>1 DEF LinearRestores
<1> QED
  BY <1>2, ColumnStaysFit, PTL DEF Spec

-----------------------------------------------------------------------------
(* Velox vectors.                                                          *)

\* Multiples can be divided by their size.
LEMMA MultipleDivided ==
  ASSUME NEW q \in Int, NEW d \in Nat \ {0}
  PROVE  (q * d) \div d = q
<1> DEFINE n == q * d
           p == n \div d
           r == n % d
<1>1. n \in Int
  OBVIOUS
<1>2. p \in Int /\ r \in 0 .. d - 1 /\ n = p * d + r
  BY <1>1, Division
<1>3. ~(p < q)
  <2>1. p < q => p * d + d <= q * d
    BY <1>2, BlockOf
  <2> HIDE DEF p, r
  <2>2. p * d \in Int /\ q * d \in Int /\ q * d = p * d + r
    BY <1>2
  <2> QED
    BY <1>2, <2>1, <2>2
<1>4. ~(q < p)
  <2>1. q < p => q * d + d <= p * d
    BY <1>2, BlockOf
  <2> HIDE DEF p, r
  <2>2. p * d \in Int /\ q * d \in Int /\ q * d = p * d + r
    BY <1>2
  <2> QED
    BY <1>2, <2>1, <2>2
<1> HIDE DEF p
<1>5. p = q
  BY <1>2, <1>3, <1>4
<1> QED
  BY <1>5 DEF p

\* Whole days, before 1970 too, are not rounded, nor cut off if they are dates.
LEMMA DaysComeBack ==
  ASSUME NEW n \in Int, n % DayLength = 0, n \div DayLength \in MinOf(Day) .. MaxOf(Day)
  PROVE  DayOf(n) * DayLength = n
<1> DEFINE d == DayLength
           q == n \div d
<1>1. d \in Nat \ {0}
  BY DayAssumption
<1>2. q \in Int /\ n = q * d
  <2>1. q \in Int /\ n = q * d + (n % d)
    BY <1>1, Division
  <2> HIDE DEF q, d
  <2>2. q * d \in Int
    BY <1>1, <2>1
  <2> QED
    BY <2>1, <2>2 DEF d
<1>3. -q \in Int /\ -n = (-q) * d
  <2> HIDE DEF q
  <2> QED
    BY <1>1, <1>2
<1>4. (-n) \div d = -q
  <2> HIDE DEF q, d
  <2> QED
    BY <1>1, <1>3, MultipleDivided
<1>5. Truncated(n, d) = IF n < 0 THEN -((-n) \div d) ELSE q
  BY DEF Truncated
<1>6. Truncated(n, d) = q
  <2> HIDE DEF q, d
  <2> QED
    BY <1>2, <1>4, <1>5
<1>7. DayOf(n) = Native(q, Day) /\ ValueOf(q, Day)
  BY <1>6 DEF DayOf, ValueOf
<1> HIDE DEF q, d
<1>8. IntegerType(Day)
  BY DayAssumption DEF Day, IntegerType
<1>9. q = q + 0 * 2^Day.bits
  BY <1>2, <1>8, RangeOfType
<1>10. DayOf(n) = q
  BY <1>2, <1>7, <1>8, <1>9, NativeRestores
<1> QED
  BY <1>2, <1>10 DEF d

\* A timestamp, before 1970 too, is its seconds and the units above them.
LEMMA InstantsComeBack ==
  ASSUME NEW n \in Int, NEW unit \in Timestamps
  PROVE  Instant(n, unit).seconds * PerSecond(unit)
           + (Instant(n, unit).nanos \div NanosPerUnit(unit)) = n
<1> DEFINE p == PerSecond(unit)
           k == NanosPerUnit(unit)
           r == n % p
           q == n \div p
<1>1. p \in Nat \ {0}
  BY DEF PerSecond, Timestamps
<1>2. k \in Nat \ {0}
  <2>1. PerSecond("TimestampNanosecond") = 1000000000
    BY DEF PerSecond
  <2>2. k = 1000000000 \div p
    BY <2>1 DEF NanosPerUnit
  <2>3. p \in {1, 1000, 1000000, 1000000000}
    BY DEF PerSecond, Timestamps
  <2> HIDE DEF p, k
  <2>4. CASE p = 1
    BY <2>2, <2>4
  <2>5. CASE p = 1000
    BY <2>2, <2>5
  <2>6. CASE p = 1000000
    BY <2>2, <2>6
  <2>7. CASE p = 1000000000
    BY <2>2, <2>7
  <2> QED
    BY <2>3, <2>4, <2>5, <2>6, <2>7
<1>3. Instant(n, unit).seconds = q /\ Instant(n, unit).nanos = r * k
  BY DEF Instant
<1> HIDE DEF p, k
<1>4. q \in Int /\ r \in Int /\ n = q * p + r
  BY <1>1, Division
<1> HIDE DEF q, r
<1>5. (r * k) \div k = r
  BY <1>2, <1>4, MultipleDivided
<1> QED
  BY <1>3, <1>4, <1>5 DEF p, k

\* The Velox types of numbers; only a timestamp's is TIMESTAMP.
LEMMA TypeOfVector ==
  ASSUME NEW p \in Physicals, p \notin Timestamps
  PROVE  VeloxType(p) # "TIMESTAMP"
<1>1. PICK n \in DOMAIN PhysicalTypes : p = PhysicalTypes[n]
  BY DEF Physicals
<1>2. n \in 1 .. 16
  BY DEF PhysicalTypes
<1>3. p \in {"Int8", "Int16", "Int32", "Int64", "UInt8", "UInt16", "UInt32", "UInt64",
             "Float32", "Float64", "Date32", "Date64"}
  BY <1>1, <1>2 DEF PhysicalTypes, Timestamps
<1> QED
  BY <1>3 DEF VeloxType, Timestamps

\* A slot is its valid bit and its value.
IsSlot(slot) == slot = [valid |-> slot.valid, value |-> slot.value]

\* Slots that restore those of an array of numbers do so in a vector too, of
\* the array's own type or, for a timestamp, of plain numbers.
LEMMA VectorAgrees ==
  ASSUME NEW a, \A i \in ValidIn(a) : SlotAt(a, i).value \in Int,
         NEW slots, Restores(slots, a), \A i \in DOMAIN slots : IsSlot(slots[i]),
         NEW t, NEW p \in Physicals, p = t.id \/ (p = "Int64" /\ t.id \in Timestamps)
  PROVE  AgreesInVelox(t, NumbersToVelox(slots, p), VeloxType(p), a)
<1> DEFINE vector == NumbersToVelox(slots, p)
           type0 == VeloxType(p)
<1>1. DOMAIN slots = Index(a)
  BY DEF Restores
<1>2. ASSUME NEW i \in Index(a)
      PROVE  /\ IsSlot(slots[i])
             /\ slots[i].valid = SlotAt(a, i).valid
             /\ slots[i].valid => slots[i].value = SlotAt(a, i).value /\ slots[i].value \in Int
  BY DEF Restores, ValidIn
<1>3. vector.type = type0
  BY DEF NumbersToVelox, Vector
<1>4. SUFFICES ASSUME DOMAIN vector.slots = Index(a) =>
                        \E i \in Index(a) :
                          ~(/\ vector.slots[i].valid = SlotAt(a, i).valid
                            /\ vector.slots[i].valid =>
                                 SameInVelox(t, type0, vector.slots[i].value, SlotAt(a, i).value))
               PROVE  FALSE
  BY <1>3 DEF AgreesInVelox
<1>5. CASE p \in Timestamps
  <2>1. vector.slots = [i \in Index(a) |->
                          [slots[i] EXCEPT !.value = Instant(slots[i].value, p)]]
    BY <1>1, <1>5 DEF NumbersToVelox, Each, Vector, Timestamps
  <2>2. p = t.id /\ type0 = "TIMESTAMP"
    BY <1>5 DEF VeloxType, Timestamps
  <2> HIDE DEF vector, type0
  <2>3. PICK i \in Index(a) :
          ~(/\ vector.slots[i].valid = SlotAt(a, i).valid
            /\ vector.slots[i].valid =>
                 SameInVelox(t, type0, vector.slots[i].value, SlotAt(a, i).value))
    BY <1>4, <2>1
  <2>4. /\ vector.slots[i].valid = slots[i].valid
        /\ vector.slots[i].value = Instant(slots[i].value, p)
    BY <1>2, <2>1 DEF IsSlot
  <2>5. ASSUME NEW n \in Int PROVE SameInVelox(t, type0, Instant(n, p), n)
    <3>1. Instant(n, p).seconds * PerSecond(p) + (Instant(n, p).nanos \div NanosPerUnit(p)) = n
      BY <1>5, InstantsComeBack
    <3>2. t.id # "Date64"
      BY <1>5, <2>2 DEF Timestamps
    <3> HIDE DEF type0
    <3> QED
      BY <1>5, <2>2, <3>1, <3>2 DEF SameInVelox
  <2> QED
    BY <1>2, <2>3, <2>4, <2>5
<1>6. CASE p = "Date64"
  <2>1. vector.slots = [i \in Index(a) |-> [slots[i] EXCEPT !.value = DayOf(slots[i].value)]]
    BY <1>1, <1>6 DEF NumbersToVelox, Each, Vector, Timestamps
  <2>2. type0 # "TIMESTAMP" /\ t.id = "Date64"
    BY <1>6, TypeOfVector DEF Timestamps
  <2> HIDE DEF vector, type0
  <2>3. PICK i \in Index(a) :
          ~(/\ vector.slots[i].valid = SlotAt(a, i).valid
            /\ vector.slots[i].valid =>
                 SameInVelox(t, type0, vector.slots[i].value, SlotAt(a, i).value))
    BY <1>4, <2>1
  <2>4. /\ vector.slots[i].valid = slots[i].valid
        /\ vector.slots[i].value = DayOf(slots[i].value)
    BY <1>2, <2>1 DEF IsSlot
  <2> QED
    BY <1>2, <2>2, <2>3, <2>4, DaysComeBack DEF SameInVelox
<1>7. CASE p \notin Timestamps /\ p # "Date64"
  <2>1. vector.slots = slots
    BY <1>7 DEF NumbersToVelox, Vector
  <2>2. type0 # "TIMESTAMP" /\ t.id # "Date64"
    BY <1>7, TypeOfVector DEF Timestamps
  <2> HIDE DEF vector, type0
  <2>3. PICK i \in Index(a) :
          ~(/\ vector.slots[i].valid = SlotAt(a, i).valid
            /\ vector.slots[i].valid =>
                 SameInVelox(t, type0, vector.slots[i].value, SlotAt(a, i).value))
    BY <1>1, <1>4, <2>1
  <2> QED
    BY <1>2, <2>1, <2>2, <2>3 DEF SameInVelox
<1> QED
  BY <1>5, <1>6, <1>7

\* What is decoded are slots.
LEMMA DecodedSlots ==
  ASSUME NEW liquid, NEW t
  PROVE  /\ \A i \in DOMAIN ToArrow(liquid, t) : IsSlot(ToArrow(liquid, t)[i])
         /\ \A i \in DOMAIN DeltaToArrow(liquid, t) : IsSlot(DeltaToArrow(liquid, t)[i])
         /\ \A i \in DOMAIN FloatToArrow(liquid) : IsSlot(FloatToArrow(liquid)[i])
BY DEF ToArrow, DeltaToArrow, FloatToArrow, IsSlot

\* The Velox vector of what the store keeps of a column of integers or floats
\* agrees with the column: a date that is a whole day, and not too far off, is
\* that day, and all other values are themselves, timestamps too.
LEMMA StoredNumbersAgree ==
  ASSUME ColumnFits, IsInteger \/ IsFloat, NEW t \in ArrowTypes, NEW a \in ByteSlices,
         NEW short \in BOOLEAN, NEW rowType \in RowTypeOf(t)
  PROVE  StoredVectorAgrees(t, a, short, rowType)
<1> DEFINE inner == IF IsInteger THEN FromArrow(a, NativeOf(t.id)) ELSE FloatFromArrow(a)
           logical == IF IsInteger THEN "Integer" ELSE "Float"
           liquid == Wrapped(inner, logical, t.id, t)
           vector == ToVelox(liquid, short)
           vectorType == IF t.id \in Timestamps THEN "BIGINT" ELSE rowType
<1>1. /\ t = ArrowType(t.id) /\ t.id \in Physicals
      /\ NativeOf(t.id) = NativeType /\ (t.id \in FloatTypes <=> IsFloat)
      /\ t.id \notin StringTypes /\ t.id \notin Decimals
  BY TypesOfNumbers
<1>2. IsInteger <=> ~IsFloat
  BY DEF IsInteger, IsFloat
<1>3. Logical(t, a) = logical /\ Physical(t, a) = t.id
  BY <1>1, <1>2 DEF Logical, Physical
<1>4. \A l \in TranscodeToLiquidArray(t, a, compressor) : l = liquid
  BY <1>2, <1>3 DEF TranscodeToLiquidArray
<1>5. rowType = VeloxType(t.id)
  BY <1>1 DEF RowTypeOf
<1>6. AgreesInVelox(t, vector, vectorType, a) /\ ~vector.ascii
  <2>1. CASE IsInteger
    <3> DEFINE id == IF t.id \in Timestamps THEN "Int64" ELSE t.id
               slots == ToArrow(inner, NativeType)
    <3>1. NativeOf(id) = NativeType /\ id \in Physicals /\ VeloxType(id) = vectorType
      <4>1. "Int64" \in Physicals /\ VeloxType("Int64") = "BIGINT"
        <5>1. 4 \in DOMAIN PhysicalTypes /\ PhysicalTypes[4] = "Int64"
          BY DEF PhysicalTypes
        <5>2. "Int64" \in Physicals
          BY <5>1 DEF Physicals
        <5>3. VeloxType("Int64") = "BIGINT"
          BY DEF VeloxType, Timestamps
        <5> QED
          BY <5>2, <5>3
      <4> QED
        BY <1>1, <1>5, <4>1 DEF NativeOf, Timestamps
    <3>2. vector = NumbersToVelox(slots, id)
      BY <2>1, <3>1 DEF ToVelox, Wrapped, PrimitiveToVelox
    <3>3. IntegerSlice(a, NativeType) /\ IntegerType(NativeType)
      <4>1. IntegerType(type) /\ IntegerSlice(a, type)
        BY <2>1, IntegerColumns
      <4> QED
        BY <4>1 DEF IntegerType, IntegerSlice, NativeType, ValueOf, MinOf, MaxOf
    <3>4. Restores(slots, a)
      BY <1>1, <2>1, <3>3, FrameOfReferenceRestores
    <3>5. \A i \in ValidIn(a) : SlotAt(a, i).value \in Int
      BY <3>3, RangeOfType DEF IntegerSlice, ValueOf
    <3>6. id = t.id \/ (id = "Int64" /\ t.id \in Timestamps)
      OBVIOUS
    <3>7. \A i \in DOMAIN slots : IsSlot(slots[i])
      BY DecodedSlots
    <3> HIDE DEF slots, id, vector
    <3>8. AgreesInVelox(t, vector, vectorType, a)
      BY <3>1, <3>2, <3>4, <3>5, <3>6, <3>7, VectorAgrees
    <3> QED
      BY <3>2, <3>8 DEF NumbersToVelox, Vector
  <2>2. CASE IsFloat
    <3> DEFINE slots == FloatToArrow(FloatFromArrow(a))
    <3>1. vector = Vector(VeloxType(t.id), slots)
      BY <1>2, <2>2 DEF ToVelox, Wrapped, FloatToVelox
    <3>2. Restores(slots, a)
      BY <2>2, FloatColumns, FloatsRestore
    <3>3. t.id \notin Timestamps /\ t.id # "Date64"
      BY <1>1, <2>2 DEF FloatTypes, Timestamps
    <3>4. VeloxType(t.id) # "TIMESTAMP"
      BY <1>1, <3>3, TypeOfVector
    <3> HIDE DEF slots
    <3>5. vector.type = rowType /\ vector.slots = slots /\ ~vector.ascii
      BY <1>5, <3>1 DEF Vector
    <3> HIDE DEF vector
    <3> QED
      BY <1>5, <3>2, <3>3, <3>4, <3>5 DEF AgreesInVelox, SameInVelox, Restores
  <2> QED
    BY <2>1, <2>2
<1>7. vectorType = IF t.id \in Timestamps THEN vector.type ELSE rowType
  <2>1. vector.type = vectorType
    BY <1>6 DEF AgreesInVelox
  <2>2. t.id \notin Timestamps => vectorType = rowType
    OBVIOUS
  <2> HIDE DEF vectorType, vector
  <2> QED
    BY <2>1, <2>2
<1> HIDE DEF vectorType
<1>8. AgreesInVelox(t, vector, IF t.id \in Timestamps THEN vector.type ELSE rowType, a)
  BY <1>6, <1>7
<1> HIDE DEF liquid
<1> QED
  BY <1>4, <1>6, <1>8 DEF StoredVectorAgrees

\* The linear model, too, decodes to slots.
LEMMA LinearSlots ==
  ASSUME NEW liquid, NEW t
  PROVE  \A i \in DOMAIN LinearToArrow(liquid, t) : IsSlot(LinearToArrow(liquid, t)[i])
<1> DEFINE residuals == ToArrow(liquid.residuals, Int64)
<1>1. LinearToArrow(liquid, t)
        = [i \in DOMAIN residuals |->
             [valid |-> residuals[i].valid,
              value |-> Clamp(Predict(liquid.line, i, t) + residuals[i].value, t)]]
  BY DEF LinearToArrow
<1> HIDE DEF residuals
<1> QED
  BY <1>1 DEF IsSlot

\* The column itself is one of its slices.
LEMMA ColumnIsSlice ==
  ASSUME ColumnOK
  PROVE  Array(column, 0) \in ByteSlices /\ Array(column, 0) \in AllSlices
<1> DEFINE before == [i \in 1 .. 0 |-> [valid |-> i % 2 = 0, value |-> Filler(type)]]
<1>1. before = <<>>
  OBVIOUS
<1>2. <<>> \o column = column
  <2> DEFINE R == [valid : BOOLEAN, value : AllValues]
  <2>1. column \in Seq(R)
    BY DEF ColumnOK
  <2> HIDE DEF R
  <2> QED
    BY <2>1
<1>3. SliceAfter(0) = Array(before \o column, 0)
  BY DEF SliceAfter
<1> HIDE DEF before
<1>4. SliceAfter(0) = Array(column, 0)
  BY <1>1, <1>2, <1>3
<1> QED
  BY <1>4 DEF ByteSlices, AllSlices

\* So do the vectors of a column of integers that the store does not make.
LEMMA OtherNumbersAgree ==
  ASSUME ColumnFits, IsInteger, NEW t \in ArrowTypes
  PROVE  OtherVectorsAgree(t, Array(column, 0))
<1> DEFINE a == Array(column, 0)
<1>1. a \in ByteSlices /\ a \in AllSlices
  BY ColumnIsSlice DEF ColumnFits
<1> HIDE DEF a
<1>2. t.id \in Physicals /\ NativeOf(t.id) = NativeType
  BY TypesOfNumbers
<1>3. /\ IntegerType(NativeType) /\ IntegerSlice(a, NativeType) /\ LinearSlice(a, NativeType)
      /\ \A i \in ValidIn(a) : SlotAt(a, i).value \in Int
  <2>1. IntegerType(type) /\ IntegerSlice(a, type) /\ LinearSlice(a, type)
    BY <1>1, IntegerColumns, LinearColumns
  <2>2. /\ IntegerType(NativeType) /\ IntegerSlice(a, NativeType) /\ LinearSlice(a, NativeType)
    BY <2>1 DEF IntegerType, IntegerSlice, LinearSlice, NativeType, ValueOf, MinOf, MaxOf
  <2> QED
    BY <2>2, LinearSliceIs
<1>4. ASSUME NEW slots, Restores(slots, a), \A i \in DOMAIN slots : IsSlot(slots[i])
      PROVE  AgreesInVelox(t, NumbersToVelox(slots, t.id), VeloxType(t.id), a)
  BY <1>2, <1>3, <1>4, VectorAgrees
<1>5. CASE t.id \in Timestamps
  <2> DEFINE slots == ToArrow(FromArrow(a, NativeType), NativeType)
  <2>1. Restores(slots, a) /\ \A i \in DOMAIN slots : IsSlot(slots[i])
    BY <1>3, FrameOfReferenceRestores, DecodedSlots
  <2>2. PrimitiveToVelox(FromArrow(a, NativeType), t.id) = NumbersToVelox(slots, t.id)
    BY <1>2 DEF PrimitiveToVelox
  <2>3. VeloxType(t.id) = "TIMESTAMP"
    BY <1>5 DEF VeloxType, Timestamps
  <2> HIDE DEF slots
  <2>4. AgreesInVelox(t, NumbersToVelox(slots, t.id), VeloxType(t.id), a)
    BY <1>4, <2>1
  <2> QED
    BY <1>5, <2>2, <2>3, <2>4 DEF OtherVectorsAgree, a
<1>6. CASE t.id \notin Timestamps
  <2> DEFINE line == LinearFromArrow(a, NativeType)
             lslots == LinearToArrow(line, NativeType)
             delta == DeltaFromArrow(a, NativeType)
             dslots == DeltaToArrow(delta, NativeType)
  <2>1. ASSUME \A i \in ValidIn(a) : Carries(line, a, i, NativeType)
        PROVE  AgreesInVelox(t, LinearToVelox(line, t.id), VeloxType(t.id), a)
    <3>1. /\ DOMAIN lslots = Index(a)
          /\ \A i \in Index(a) : lslots[i].valid = SlotAt(a, i).valid
          /\ \A i \in ValidIn(a) : lslots[i].value = SlotAt(a, i).value
      BY <1>3, <2>1, LinearModelRestores
    <3>2. LinearToVelox(line, t.id) = NumbersToVelox(lslots, t.id)
      BY <1>2 DEF LinearToVelox
    <3>3. \A i \in DOMAIN lslots : IsSlot(lslots[i])
      BY LinearSlots
    <3> HIDE DEF lslots, line
    <3>4. Restores(lslots, a)
      BY <3>1 DEF Restores, ValidIn
    <3> QED
      BY <1>4, <3>2, <3>3, <3>4
  <2>2. ASSUME t.id \in {"Int32", "Int64"}
        PROVE  AgreesInVelox(t, DeltaToVelox(delta, t.id), VeloxType(t.id), a)
    <3>1. NativeType.signed
      BY <1>2, <2>2 DEF NativeOf
    <3>2. Restores(dslots, a) /\ \A i \in DOMAIN dslots : IsSlot(dslots[i])
      BY <1>3, <3>1, DeltasRestore, DecodedSlots
    <3>3. DeltaToVelox(delta, t.id) = Vector(VeloxType(t.id), dslots)
      BY <1>2 DEF DeltaToVelox
    <3> HIDE DEF dslots, delta
    <3>4. NumbersToVelox(dslots, t.id) = Vector(VeloxType(t.id), dslots)
      BY <1>6, <2>2 DEF NumbersToVelox
    <3> QED
      BY <1>4, <3>2, <3>3, <3>4
  <2> QED
    BY <1>6, <2>1, <2>2 DEF OtherVectorsAgree, a
<1> QED
  BY <1>5, <1>6

\* A column of integers or floats is as a Velox vector what it is as an Arrow
\* array, whichever encoding it is in.
THEOREM NumbersAgreeInVelox == Spec => [](IsInteger \/ IsFloat => VeloxAgrees)
<1>1. ColumnFits => (IsInteger \/ IsFloat => VeloxAgrees)
  BY StoredNumbersAgree, OtherNumbersAgree DEF VeloxAgrees
<1> QED
  BY <1>1, ColumnStaysFit, PTL DEF Spec

-----------------------------------------------------------------------------
(* Squeezed floats.                                                        *)

\* The buckets of a squeezed array whose reference is zero: those its integers
\* are in.
LEMMA BucketsOfZero ==
  ASSUME NEW a, FloatSlice(a), ValidIn(a) # {},
         NEW liquid, liquid = FloatFromArrow(a), liquid.reference = 0,
         NEW squeezed, squeezed = Squeeze(liquid),
         NEW temp, temp = BulkUnpack(squeezed.packed, FloatBits)
  PROVE  /\ DOMAIN temp = Index(a)
         /\ squeezed.packed.nulls = liquid.packed.nulls
         /\ squeezed.reference = 0 /\ squeezed.shift \in Nat
         /\ squeezed.patches = liquid.patches /\ squeezed.values = liquid.values
         /\ \A i \in ValidIn(a) \ liquid.patches :
              LET number == EncodeSingle(SlotAt(a, i).value)
              IN  /\ number \in Nat /\ ValueOf(number, SignedInt)
                  /\ DecodeSingle(number) = SlotAt(a, i).value
                  /\ Number(temp[i]) = number \div 2^squeezed.shift
<1> DEFINE old == BulkUnpack(liquid.packed, FloatBits)
           number(i) == Native(liquid.reference + Number(old[i]), SignedInt)
           width == liquid.packed.width \div 2
           shift == liquid.packed.width - width
           bucket(i) == number(i) \div 2^shift
           quantized == [i \in 1 .. liquid.packed.length |->
                           IF IsNull(liquid.packed, i - 1) THEN {}
                           ELSE Bits(Unsigned(bucket(i - 1) - liquid.reference \div 2^shift,
                                              SignedInt))]
<1>1. /\ Length(a) \in Nat /\ Index(a) = 0 .. Length(a) - 1
      /\ ValidIn(a) \in SUBSET Index(a)
  BY SliceIs DEF FloatSlice
<1>2. IntegerType(SignedInt) /\ SignedInt.bits = FloatBits /\ FloatBits \in 1 .. WordBits
  BY FloatAssumption DEF IntegerType, SignedInt
<1>3. /\ DOMAIN old = Index(a)
      /\ liquid.packed.length = Length(a) /\ liquid.packed.width \in 1 .. WordBits
      /\ \A i \in Index(a) : IsNull(liquid.packed, i) <=> i \notin ValidIn(a)
      /\ \A i \in Index(a) :
           /\ ValueOf(number(i), SignedInt) /\ 0 <= number(i)
           /\ number(i) - 0 < 2^liquid.packed.width
           /\ i \notin liquid.patches =>
                /\ number(i) = EncodeSingle(SlotAt(a, i).value)
                /\ DecodeSingle(number(i)) = SlotAt(a, i).value
  BY FloatParts
<1>4. squeezed = [packed |-> Pack(quantized, liquid.packed.nulls, width), shift |-> shift,
                  reference |-> liquid.reference, patches |-> liquid.patches,
                  values |-> liquid.values]
  BY DEF Squeeze
<1>5. /\ width \in 0 .. WordBits /\ width \in Nat /\ shift \in Nat
      /\ liquid.packed.width = shift + width
  BY <1>3, SizesAreNumbers
<1>6. 2^liquid.packed.width = 2^shift * 2^width /\ 2^shift \in Nat \ {0} /\ 2^width \in Nat \ {0}
  <2> HIDE DEF shift, width
  <2>1. 2^(shift + width) = 2^shift * 2^width
    BY <1>5, PowersMultiply
  <2> QED
    BY <1>5, <2>1, PowersGrow
<1> HIDE DEF number, shift, width
<1>7. ASSUME NEW i \in Index(a)
      PROVE  /\ number(i) \in Nat
             /\ Unsigned(bucket(i) - liquid.reference \div 2^shift, SignedInt)
                  = number(i) \div 2^shift
             /\ number(i) \div 2^shift \in Nat
             /\ number(i) \div 2^shift < 2^width
             /\ number(i) \div 2^shift < 2^FloatBits
  <2> DEFINE n == number(i)
             s == 2^shift
             w == 2^width
             m == 2^SignedInt.bits
             q == n \div s
  <2>1. /\ m \in Nat \ {0} /\ MinOf(SignedInt) \in Int /\ MaxOf(SignedInt) \in Int
        /\ MaxOf(SignedInt) < m
    BY <1>2, RangeOfType
  <2>2. n \in Nat /\ n < s * w /\ n < m
    <3>1. n \in Int /\ n <= MaxOf(SignedInt) /\ 0 <= n
      BY <1>3, <2>1 DEF ValueOf
    <3>2. n - 0 < s * w
      BY <1>3, <1>6
    <3> HIDE DEF n, s, w, m
    <3>3. s * w \in Int
      BY <1>6 DEF s, w
    <3> QED
      BY <2>1, <3>1, <3>2, <3>3
  <2>3. liquid.reference \div s = 0
    <3>1. \A d \in Nat \ {0} : 0 \div d = 0
      OBVIOUS
    <3> QED
      BY <1>6, <3>1
  <2>4. Unsigned(q - 0, SignedInt) = (q - 0) % m
    BY DEF Unsigned
  <2>5. s \in Nat \ {0} /\ w \in Nat \ {0}
    BY <1>6
  <2> HIDE DEF n, s, w, m
  <2>6. q \in Nat /\ q * s <= n
    <3>1. /\ q \in Nat
          /\ n % s \in 0 .. s - 1 /\ n = q * s + (n % s)
      <4>1. n \in Int /\ n \in Nat /\ s \in Nat \ {0}
        BY <2>2, <2>5
      <4>2. n \div s \in Nat
        BY <4>1, QuotientIsNat
      <4> QED
        BY <4>1, <4>2, Division, Zenon
    <3> HIDE DEF q
    <3>2. q * s \in Int /\ n % s >= 0 /\ n % s \in Int
      BY <2>5, <3>1
    <3> QED
      BY <2>2, <3>1, <3>2
  <2> HIDE DEF q
  <2>7. q <= n
    <3>1. q * 1 <= q * s
      BY <2>5, <2>6
    <3> QED
      BY <2>2, <2>5, <2>6, <3>1
  <2>8. q < w
    <3> SUFFICES ASSUME w <= q PROVE FALSE
      BY <2>5, <2>6
    <3>1. w * s <= q * s /\ w * s \in Int /\ q * s \in Int
      BY <2>5, <2>6, Grows
    <3>2. w * s = s * w
      BY <2>5
    <3> QED
      BY <2>2, <2>6, <3>1, <3>2
  <2>9. q < m /\ (q - 0) % m = q
    BY <2>1, <2>2, <2>6, <2>7
  <2> QED
    BY <1>2, <2>2, <2>3, <2>4, <2>6, <2>8, <2>9 DEF n, s, w, m, q
<1>8. quantized \in Seq(SUBSET Int) /\ Len(quantized) = Length(a)
  <2>1. \A n : Bits(n) \in SUBSET Int
    BY SizesAreNumbers DEF Bits
  <2>2. \A i \in 1 .. liquid.packed.length : quantized[i] \in SUBSET Int
    BY <2>1
  <2> HIDE DEF bucket
  <2> QED
    BY <1>1, <1>3, <2>2
<1>9. ASSUME NEW i \in ValidIn(a)
      PROVE  quantized[i + 1] = Bits(number(i) \div 2^shift)
  <2>1. i \in Index(a) /\ i + 1 \in 1 .. liquid.packed.length /\ (i + 1) - 1 = i
    BY <1>1, <1>3
  <2>2. ~IsNull(liquid.packed, i)
    BY <1>3, <2>1
  <2>3. quantized[i + 1] =
          Bits(Unsigned(bucket(i) - liquid.reference \div 2^shift, SignedInt))
    BY <2>1, <2>2
  <2> QED
    BY <1>7, <2>1, <2>3
<1> HIDE DEF quantized, bucket
<1>10. PackedOf(squeezed.packed, quantized, width)
  BY <1>4, <1>5, <1>8, PackKeepsElements
<1>11. DOMAIN temp = Index(a)
  BY <1>1, <1>8, <1>10 DEF BulkUnpack, PackedOf, Index
<1>12. ASSUME NEW i \in ValidIn(a)
       PROVE  Number(temp[i]) = number(i) \div 2^shift
  <2>1. i \in Index(a) /\ i \in 0 .. Len(quantized) - 1
    BY <1>1, <1>8
  <2>2. FloatBits \in 0 .. WordBits
    BY <1>2, SizesAreNumbers
  <2> QED
    BY <1>7, <1>9, <1>10, <2>1, <2>2, NumberComesBack
<1>13. squeezed.packed.nulls = liquid.packed.nulls
  BY <1>4 DEF Pack
<1>14. squeezed.shift = shift
  BY <1>4
<1>15. ASSUME NEW i \in ValidIn(a) \ liquid.patches
       PROVE  /\ EncodeSingle(SlotAt(a, i).value) = number(i)
              /\ number(i) \in Nat /\ ValueOf(number(i), SignedInt)
              /\ DecodeSingle(number(i)) = SlotAt(a, i).value
              /\ Number(temp[i]) = number(i) \div 2^shift
  BY <1>1, <1>3, <1>7, <1>12
<1> QED
  BY <1>4, <1>5, <1>11, <1>13, <1>14, <1>15

\* A number is in its bucket.
LEMMA InItsBucket ==
  ASSUME NEW n \in Nat, NEW s \in Nat \ {0}
  PROVE  /\ n \div s \in Nat
         /\ (n \div s) * s \in Int /\ (n \div s + 1) * s \in Int
         /\ (n \div s) * s <= n /\ n < (n \div s + 1) * s
<1> DEFINE q == n \div s
           r == n % s
<1>1. q \in Nat /\ r \in 0 .. s - 1 /\ n = q * s + r
  <2>1. n \in Int /\ q \in Nat
    BY QuotientIsNat
  <2> QED
    BY <2>1, Division, Zenon
<1> HIDE DEF q, r
<1>2. q * s \in Int /\ (q + 1) * s = q * s + s
  BY <1>1
<1> QED
  BY <1>1, <1>2 DEF q, r

\* A number of a type is not changed by a cast to it.
LEMMA CastKeeps ==
  ASSUME NEW v, ValueOf(v, SignedInt)
  PROVE  Native(v, SignedInt) = v
<1>1. IntegerType(SignedInt)
  BY FloatAssumption DEF IntegerType, SignedInt
<1>2. v \in Int /\ 2^SignedInt.bits \in Nat
  BY <1>1, RangeOfType DEF ValueOf
<1>3. v = v + 0 * 2^SignedInt.bits
  BY <1>2
<1> QED
  BY <1>1, <1>3, NativeRestores

\* A comparison of integers holds or does not.
LEMMA HoldsIsBoolean ==
  ASSUME NEW op \in Operators, NEW v \in Int, NEW k \in Int
  PROVE  Holds(op, v, k) \in BOOLEAN
<1>1. CASE op = "Eq"
  <2>1. Holds(op, v, k) = (v = k)
    BY <1>1 DEF Holds
  <2>2. (v = k) \in BOOLEAN
    OBVIOUS
  <2> QED
    BY <2>1, <2>2, Zenon
<1>2. CASE op = "NotEq"
  <2>1. Holds(op, v, k) = (v # k)
    BY <1>2 DEF Holds
  <2>2. (v # k) \in BOOLEAN
    OBVIOUS
  <2> QED
    BY <2>1, <2>2, Zenon
<1>3. CASE op = "Lt"
  <2>1. Holds(op, v, k) = (v < k)
    BY <1>3 DEF Holds
  <2>2. (v < k) \in BOOLEAN
    OBVIOUS
  <2> QED
    BY <2>1, <2>2, Zenon
<1>4. CASE op = "LtEq"
  <2>1. Holds(op, v, k) = (v <= k)
    BY <1>4 DEF Holds
  <2>2. (v <= k) \in BOOLEAN
    OBVIOUS
  <2> QED
    BY <2>1, <2>2, Zenon
<1>5. CASE op = "Gt"
  <2>1. Holds(op, v, k) = (v > k)
    BY <1>5 DEF Holds
  <2>2. (v > k) \in BOOLEAN
    OBVIOUS
  <2> QED
    BY <2>1, <2>2, Zenon
<1>6. CASE op = "GtEq"
  <2>1. Holds(op, v, k) = (v >= k)
    BY <1>6 DEF Holds
  <2>2. (v >= k) \in BOOLEAN
    OBVIOUS
  <2> QED
    BY <2>1, <2>2, Zenon
<1> QED
  BY <1>1, <1>2, <1>3, <1>4, <1>5, <1>6 DEF Operators

\* What a bucket answers, if it does, is right of every value in it.
LEMMA BucketAnswers ==
  ASSUME NEW op \in Operators, NEW lo \in Int, NEW hi \in Int, NEW k \in Int, NEW v \in Int,
         lo <= v, v < hi, Answers(op, lo, hi, k) # BOOLEAN
  PROVE  /\ TRUE \in Answers(op, lo, hi, k) <=> Holds(op, v, k)
         /\ Holds(op, v, k) \in BOOLEAN
<1> DEFINE answers == Answers(op, lo, hi, k)
<1>7. Holds(op, v, k) \in BOOLEAN
  BY HoldsIsBoolean
<1>1. CASE op = "Eq"
  <2>1. answers = IF k < lo \/ k > hi THEN {FALSE} ELSE BOOLEAN
    BY <1>1 DEF Answers
  <2>2. Holds(op, v, k) <=> v = k
    BY <1>1 DEF Holds
  <2>3. CASE k < lo \/ k > hi
    <3>1. answers = {FALSE}
      BY <2>1, <2>3, Zenon
    <3>2. ~(v = k)
      BY <2>3
    <3> QED
      BY <1>7, <2>2, <3>1, <3>2, Zenon
  <2>4. CASE ~(k < lo \/ k > hi)
    BY <2>1, <2>4, Zenon
  <2> QED
    BY <2>3, <2>4, Zenon
<1>2. CASE op = "NotEq"
  <2>1. answers = IF k < lo \/ k > hi THEN {TRUE} ELSE BOOLEAN
    BY <1>2 DEF Answers
  <2>2. Holds(op, v, k) <=> v # k
    BY <1>2 DEF Holds
  <2>3. CASE k < lo \/ k > hi
    <3>1. answers = {TRUE}
      BY <2>1, <2>3, Zenon
    <3>2. v # k
      BY <2>3
    <3> QED
      BY <1>7, <2>2, <3>1, <3>2, Zenon
  <2>4. CASE ~(k < lo \/ k > hi)
    BY <2>1, <2>4, Zenon
  <2> QED
    BY <2>3, <2>4, Zenon
<1>3. CASE op = "Lt"
  <2>1. answers = IF k <= lo THEN {FALSE} ELSE IF hi < k THEN {TRUE} ELSE BOOLEAN
    BY <1>3 DEF Answers
  <2>2. Holds(op, v, k) <=> v < k
    BY <1>3 DEF Holds
  <2>3. CASE k <= lo
    <3>1. answers = {FALSE}
      BY <2>1, <2>3, Zenon
    <3>2. ~(v < k)
      BY <2>3
    <3> QED
      BY <1>7, <2>2, <3>1, <3>2, Zenon
  <2>4. CASE ~(k <= lo) /\ hi < k
    <3>1. answers = {TRUE}
      BY <2>1, <2>4, Zenon
    <3>2. v < k
      BY <2>4
    <3> QED
      BY <1>7, <2>2, <3>1, <3>2, Zenon
  <2>5. CASE ~(k <= lo) /\ ~(hi < k)
    BY <2>1, <2>5, Zenon
  <2> QED
    BY <2>3, <2>4, <2>5, Zenon
<1>4. CASE op = "LtEq"
  <2>1. answers = IF k < lo THEN {FALSE} ELSE IF hi <= k THEN {TRUE} ELSE BOOLEAN
    BY <1>4 DEF Answers
  <2>2. Holds(op, v, k) <=> v <= k
    BY <1>4 DEF Holds
  <2>3. CASE k < lo
    <3>1. answers = {FALSE}
      BY <2>1, <2>3, Zenon
    <3>2. ~(v <= k)
      BY <2>3
    <3> QED
      BY <1>7, <2>2, <3>1, <3>2, Zenon
  <2>4. CASE ~(k < lo) /\ hi <= k
    <3>1. answers = {TRUE}
      BY <2>1, <2>4, Zenon
    <3>2. v <= k
      BY <2>4
    <3> QED
      BY <1>7, <2>2, <3>1, <3>2, Zenon
  <2>5. CASE ~(k < lo) /\ ~(hi <= k)
    BY <2>1, <2>5, Zenon
  <2> QED
    BY <2>3, <2>4, <2>5, Zenon
<1>5. CASE op = "Gt"
  <2>1. answers = IF k < lo THEN {TRUE} ELSE IF hi <= k THEN {FALSE} ELSE BOOLEAN
    BY <1>5 DEF Answers
  <2>2. Holds(op, v, k) <=> v > k
    BY <1>5 DEF Holds
  <2>3. CASE k < lo
    <3>1. answers = {TRUE}
      BY <2>1, <2>3, Zenon
    <3>2. v > k
      BY <2>3
    <3> QED
      BY <1>7, <2>2, <3>1, <3>2, Zenon
  <2>4. CASE ~(k < lo) /\ hi <= k
    <3>1. answers = {FALSE}
      BY <2>1, <2>4, Zenon
    <3>2. ~(v > k)
      BY <2>4
    <3> QED
      BY <1>7, <2>2, <3>1, <3>2, Zenon
  <2>5. CASE ~(k < lo) /\ ~(hi <= k)
    BY <2>1, <2>5, Zenon
  <2> QED
    BY <2>3, <2>4, <2>5, Zenon
<1>6. CASE op = "GtEq"
  <2>1. answers = IF k <= lo THEN {TRUE} ELSE IF hi < k THEN {FALSE} ELSE BOOLEAN
    BY <1>6 DEF Answers
  <2>2. Holds(op, v, k) <=> v >= k
    BY <1>6 DEF Holds
  <2>3. CASE k <= lo
    <3>1. answers = {TRUE}
      BY <2>1, <2>3, Zenon
    <3>2. v >= k
      BY <2>3
    <3> QED
      BY <1>7, <2>2, <3>1, <3>2, Zenon
  <2>4. CASE ~(k <= lo) /\ hi < k
    <3>1. answers = {FALSE}
      BY <2>1, <2>4, Zenon
    <3>2. ~(v >= k)
      BY <2>4
    <3> QED
      BY <1>7, <2>2, <3>1, <3>2, Zenon
  <2>5. CASE ~(k <= lo) /\ ~(hi < k)
    BY <2>1, <2>5, Zenon
  <2> QED
    BY <2>3, <2>4, <2>5, Zenon
<1> QED
  BY <1>1, <1>2, <1>3, <1>4, <1>5, <1>6 DEF Operators

\* Answers from squeezed floats whose reference is zero are right.
THEOREM ZeroBasedAnswers ==
  ASSUME NEW a, FloatSlice(a), FloatFromArrow(a).reference = 0,
         FloatFromArrow(a).patches \subseteq ValidIn(a), BucketsEnd(a),
         \A i \in ValidIn(a) : SlotAt(a, i).value \in Int,
         NEW op \in Operators, NEW k \in Int
  PROVE  Answered(a, op, k)
<1> DEFINE liquid == FloatFromArrow(a)
           squeezed == Squeeze(liquid)
           temp == BulkUnpack(squeezed.packed, FloatBits)
           patches == liquid.patches
           scanned == {i \in DOMAIN temp : ~IsNull(squeezed.packed, i)} \ Recognized(squeezed)
           lower(i) == BucketStart(squeezed, Number(temp[i]))
           upper(i) == BucketStart(squeezed, Number(temp[i]) + 1)
           answers == [i \in scanned |-> Answers(op, lower(i), upper(i), k)]
           answer == TryEvalPredicate(squeezed, op, k)
           value(i) == SlotAt(a, i).value
<1> SUFFICES ASSUME answer # <<>>, NEW i \in ValidIn(a)
             PROVE  answer[i] = Holds(op, value(i), k)
  BY DEF Answered
<1>1. i \in Index(a) /\ ValidIn(a) # {} /\ ValidIn(a) \in SUBSET Index(a)
  BY SliceIs DEF FloatSlice
<1>2. answer = IF \E j \in scanned : answers[j] = BOOLEAN THEN <<>>
               ELSE [j \in DOMAIN temp |->
                       \/ j \in scanned /\ TRUE \in answers[j]
                       \/ j \in squeezed.patches /\ Holds(op, squeezed.values[j], k)]
  BY DEF TryEvalPredicate
<1>3. /\ DOMAIN temp = Index(a)
      /\ squeezed.packed.nulls = liquid.packed.nulls
      /\ squeezed.reference = 0 /\ squeezed.shift \in Nat
      /\ squeezed.patches = patches /\ squeezed.values = liquid.values
      /\ \A j \in ValidIn(a) \ patches :
           /\ EncodeSingle(value(j)) \in Nat /\ ValueOf(EncodeSingle(value(j)), SignedInt)
           /\ DecodeSingle(EncodeSingle(value(j))) = value(j)
           /\ Number(temp[j]) = EncodeSingle(value(j)) \div 2^squeezed.shift
  BY <1>1, BucketsOfZero
<1>4. /\ \A j \in Index(a) : IsNull(liquid.packed, j) <=> j \notin ValidIn(a)
      /\ \A j \in patches : liquid.values[j] = value(j)
  BY <1>1, FloatParts
<1>5. BucketsEnd(a) =
        \A j \in ValidIn(a) \ patches :
          (EncodeSingle(value(j)) \div 2^squeezed.shift + 1) * 2^squeezed.shift
            <= MaxOf(SignedInt)
  BY DEF BucketsEnd
<1> HIDE DEF liquid, squeezed, temp, answer, value
<1>6. \A j \in Index(a) : IsNull(squeezed.packed, j) <=> j \notin ValidIn(a)
  BY <1>3, <1>4 DEF IsNull
<1>7. patches \subseteq ValidIn(a)
  BY DEF liquid
<1>8. Recognized(squeezed) = patches
  BY <1>1, <1>3, <1>6, <1>7 DEF Recognized
<1>9. scanned = ValidIn(a) \ patches
  BY <1>1, <1>3, <1>6, <1>8
<1> HIDE DEF patches, scanned, lower, upper
<1>10. ~\E j \in scanned : answers[j] = BOOLEAN
  BY <1>2
<1>11. answer[i] = \/ i \in scanned /\ TRUE \in Answers(op, lower(i), upper(i), k)
                   \/ i \in patches /\ Holds(op, liquid.values[i], k)
  BY <1>1, <1>2, <1>3, <1>10
<1>12. CASE i \in patches
  <2>1. i \notin scanned /\ liquid.values[i] = value(i)
    BY <1>4, <1>9, <1>12
  <2>2. Holds(op, value(i), k) \in BOOLEAN
    BY HoldsIsBoolean DEF value
  <2> QED
    BY <1>11, <1>12, <2>1, <2>2
<1>13. CASE i \notin patches
  <2> DEFINE n == EncodeSingle(value(i))
             s == 2^squeezed.shift
             q == n \div s
  <2>1. /\ i \in scanned /\ n \in Nat /\ ValueOf(n, SignedInt) /\ value(i) = 2 * n
        /\ Number(temp[i]) = q
    BY <1>3, <1>9, <1>13 DEF DecodeSingle
  <2>2. s \in Nat \ {0}
    BY <1>3, PowersGrow
  <2>3. (q + 1) * s <= MaxOf(SignedInt)
    BY <1>5, <1>13
  <2>4. squeezed.reference \div s = 0
    <3>1. \A d \in Nat \ {0} : 0 \div d = 0
      OBVIOUS
    <3> QED
      BY <1>3, <2>2, <3>1
  <2>5. /\ MinOf(SignedInt) \in Int /\ MinOf(SignedInt) <= 0 /\ MaxOf(SignedInt) \in Int
        /\ n <= MaxOf(SignedInt)
    <3>1. IntegerType(SignedInt)
      BY FloatAssumption DEF IntegerType, SignedInt
    <3>2. /\ MinOf(SignedInt) \in Int /\ MinOf(SignedInt) <= 0
          /\ MaxOf(SignedInt) \in Int
      BY <3>1, RangeOfType
    <3> HIDE DEF n
    <3> QED
      BY <2>1, <3>2 DEF ValueOf
  <2>6. /\ lower(i) = DecodeSingle(Native((0 + q) * s + 0, SignedInt))
        /\ upper(i) = DecodeSingle(Native((0 + (q + 1)) * s + 0, SignedInt))
    BY <1>3, <2>1, <2>4 DEF lower, upper, BucketStart
  <2> HIDE DEF n, s
  <2>7. q \in Nat /\ q * s \in Int /\ (q + 1) * s \in Int /\ q * s <= n /\ n < (q + 1) * s
    BY <2>1, <2>2, InItsBucket
  <2> HIDE DEF q
  <2>8. (0 + q) * s + 0 = q * s /\ (0 + (q + 1)) * s + 0 = (q + 1) * s /\ 0 <= q * s
    BY <2>2, <2>7
  <2>9. ValueOf(q * s, SignedInt) /\ ValueOf((q + 1) * s, SignedInt)
    <3> DEFINE x == q * s
               y == (q + 1) * s
    <3>1. x \in Int /\ y \in Int /\ 0 <= x /\ x <= n /\ n < y /\ y <= MaxOf(SignedInt)
      BY <2>3, <2>7, <2>8
    <3> HIDE DEF x, y
    <3>2. ValueOf(x, SignedInt) /\ ValueOf(y, SignedInt)
      BY <2>1, <2>5, <3>1 DEF ValueOf
    <3> QED
      BY <3>2 DEF x, y
  <2>10. lower(i) = 2 * (q * s) /\ upper(i) = 2 * ((q + 1) * s)
    BY <2>6, <2>8, <2>9, CastKeeps DEF DecodeSingle
  <2>11. /\ lower(i) \in Int /\ upper(i) \in Int /\ value(i) \in Int
         /\ lower(i) <= value(i) /\ value(i) < upper(i)
    <3> DEFINE x == q * s
               y == (q + 1) * s
    <3>1. x \in Int /\ y \in Int /\ x <= n /\ n < y
      BY <2>7
    <3>2. lower(i) = 2 * x /\ upper(i) = 2 * y
      BY <2>10
    <3> HIDE DEF x, y
    <3> QED
      BY <2>1, <3>1, <3>2
  <2>12. Answers(op, lower(i), upper(i), k) # BOOLEAN
    BY <1>10, <2>1
  <2>13. /\ TRUE \in Answers(op, lower(i), upper(i), k) <=> Holds(op, value(i), k)
         /\ Holds(op, value(i), k) \in BOOLEAN
    BY <2>11, <2>12, BucketAnswers
  <2> QED
    BY <1>11, <1>13, <2>1, <2>13
<1> QED
  BY <1>12, <1>13

\* So they are of every column of floats.
THEOREM ZeroBasedAnswersAreRightAlways == Spec => []ZeroBasedAnswersAreRight
<1>1. ColumnFits => ZeroBasedAnswersAreRight
  <2> DEFINE a == Array(column, 0)
  <2> SUFFICES ASSUME ColumnFits, IsFloat, BucketsEnd(a), FloatFromArrow(a).reference = 0,
                      FloatFromArrow(a).patches \subseteq ValidIn(a),
                      NEW op \in Operators, NEW k \in Literals
               PROVE  Answered(a, op, k)
    BY DEF ZeroBasedAnswersAreRight
  <2>1. a \in ByteSlices
    BY ColumnIsSlice DEF ColumnFits
  <2>2. FloatSlice(a)
    BY <2>1, FloatColumns
  <2>3. k \in Int
    BY LiteralsAssumption
  <2>4. \A i \in ValidIn(a) : SlotAt(a, i).value \in Int
    <3>1. \A i \in Index(a) : Fitting(SlotAt(a, i))
      BY <2>1, ByteSlicesOfColumn
    <3>2. ValuesIn(type) = Floats
      BY DEF ValuesIn, IsFloat
    <3> HIDE DEF a
    <3> QED
      BY <3>1, <3>2, FloatsAssumption DEF ValidIn, Fitting
  <2> HIDE DEF a
  <2> QED
    BY <2>2, <2>3, <2>4, ZeroBasedAnswers
<1> QED
  BY <1>1, ColumnStaysFit, PTL DEF Spec

-----------------------------------------------------------------------------
(* Fields.                                                                 *)

\* Byte k of a number, the least significant being the first.
ByteOfNumber(n, k) == {b \in 0 .. ByteBits - 1 : (n \div 2^((k - 1) * ByteBits + b)) % 2 = 1}

\* The bits of a number from bit o on, j of them, make its remainder by 2^o one
\* by 2^(o + j), negative numbers included.
LEMMA RemainderByBits ==
  ASSUME NEW n \in Int, NEW o \in Nat, NEW j \in Nat
  PROVE  /\ Number({b \in 0 .. j - 1 : (n \div 2^(o + b)) % 2 = 1}) \in Int
         /\ n % 2^(o + j) = (n % 2^o)
              + Number({b \in 0 .. j - 1 : (n \div 2^(o + b)) % 2 = 1}) * 2^o
<1> DEFINE low(k) == {b \in 0 .. k - 1 : (n \div 2^(o + b)) % 2 = 1}
           right(k) == Number(low(k)) \in Int /\ n % 2^(o + k) = (n % 2^o) + Number(low(k)) * 2^o
           bad == {k \in Nat : ~right(k)}
<1>1. \A k \in Nat : low(k) \in SUBSET Nat /\ IsFiniteSet(low(k))
  <2> TAKE k \in Nat
  <2>1. IsFiniteSet(0 .. k - 1) /\ low(k) \in SUBSET (0 .. k - 1)
    BY FS_Interval
  <2> QED
    BY <2>1, FS_Subset
<1>2. 2^o \in Nat \ {0} /\ n % 2^o \in Int
  <2>1. 2^o \in Nat \ {0}
    BY PowersGrow
  <2> QED
    BY <2>1, Division
<1>3. ASSUME bad # {} PROVE FALSE
  <2>1. PICK k \in bad : \A l \in bad : k <= l
    BY <1>3, LeastElement
  <2>2. CASE k = 0
    <3>1. low(0) = {}
      OBVIOUS
    <3>2. Number({}) = 0
      <4>1. IsFiniteSet({}) /\ {} \in SUBSET Nat
        BY FS_EmptySet
      <4> QED
        BY <4>1, NumberIsTotal, TotalOfNone
    <3>3. o + 0 = o
      OBVIOUS
    <3>4. right(0)
      BY <1>2, <3>1, <3>2, <3>3
    <3> HIDE DEF right
    <3> QED
      BY <2>1, <2>2, <3>4
  <2>3. CASE k # 0
    <3> DEFINE i == k - 1
               p == 2^o
               q == 2^i
               r == 2^(o + i)
               bit == (n \div r) % 2
    <3>1. i \in Nat /\ i \notin bad /\ k = i + 1 /\ i < k
      <4>1. k \in Nat
        BY <2>1
      <4> HIDE DEF bad
      <4> QED
        BY <2>1, <2>3, <4>1
    <3> HIDE DEF i
    <3>2. right(i)
      BY <3>1
    <3>3. o + i \in Nat /\ o + k = (o + i) + 1
      BY <3>1
    <3>4. q \in Nat \ {0} /\ r \in Nat \ {0} /\ 2^(o + k) = 2 * r
      <4>1. 2^i \in Nat \ {0} /\ 2^(o + i) \in Nat \ {0}
        BY <3>1, <3>3, PowersGrow
      <4>2. 2^((o + i) + 1) = 2 * 2^(o + i)
        BY <3>3, PowerDoubles
      <4> QED
        BY <3>3, <4>1, <4>2
    <3>5. r = p * q
      BY <3>1, PowersMultiply
    <3>6. low(k) = IF bit = 1 THEN low(i) \cup {i} ELSE low(i)
      <4>1. \A b \in Nat : b \in low(k) <=> b \in low(i) \/ (b = i /\ bit = 1)
        BY <3>1
      <4> HIDE DEF low, bit
      <4>2. low(k) \in SUBSET Nat /\ low(i) \in SUBSET Nat
        BY <1>1, <3>1
      <4> QED
        BY <3>1, <4>1, <4>2
    <3>7. i \notin low(i)
      BY <3>1
    <3>8. bit = 1 => Number(low(k)) = Number(low(i)) + q
      <4> HIDE DEF low
      <4> QED
        BY <1>1, <3>1, <3>6, <3>7, NumberAdds
    <3>9. bit # 1 => Number(low(k)) = Number(low(i))
      BY <3>6
    <3>10. n % (2 * r) = IF bit = 1 THEN (n % r) + r ELSE n % r
      <4> HIDE DEF r
      <4> QED
        BY <3>4, RemainderGrows DEF bit
    <3>11. Number(low(i)) \in Int /\ n % r = (n % p) + Number(low(i)) * p
      BY <3>2
    <3>12. right(k)
      <4> DEFINE x == Number(low(i))
                 y == Number(low(k))
                 u == n % p
                 v == n % r
                 w == n % (2 * r)
      <4>1. x \in Int /\ v = u + x * p /\ u \in Int /\ p \in Nat
        BY <1>2, <3>11
      <4>2. (bit = 1 => y = x + q) /\ (bit # 1 => y = x)
        BY <3>8, <3>9
      <4>3. w = IF bit = 1 THEN v + r ELSE v
        BY <3>10
      <4>4. n % 2^(o + k) = w
        BY <3>4
      <4> HIDE DEF x, y, u, v, w, r, p, q, bit
      <4>5. y \in Int /\ w = u + y * p
        <5>1. CASE bit = 1
          <6>1. y * p = x * p + p * q
            BY <3>4, <4>1, <4>2, <5>1
          <6> QED
            BY <3>4, <3>5, <4>1, <4>2, <4>3, <5>1, <6>1
        <5>2. CASE bit # 1
          BY <4>1, <4>2, <4>3, <5>2
        <5> QED
          BY <5>1, <5>2
      <4> QED
        BY <4>4, <4>5 DEF u, y, p
    <3> HIDE DEF right
    <3> QED
      BY <2>1, <3>12
  <2> QED
    BY <2>2, <2>3
<1>4. j \notin bad
  BY <1>3
<1> HIDE DEF bad
<1> QED
  BY <1>4 DEF bad

\* What the bytes from an offset on weigh.
Weights(bytes, offset, size) ==
  [k \in 1 .. size |-> Number(bytes[offset + k]) * 2^((k - 1) * ByteBits)]

\* FieldAt adds up bytes.
LEMMA FieldIsTotal ==
  ASSUME NEW bytes, NEW offset, NEW size \in Nat,
         \A k \in 1 .. size : Weights(bytes, offset, size)[k] \in Int
  PROVE  FieldAt(bytes, offset, size) = Total(Weights(bytes, offset, size), 1 .. size)
<1> DEFINE S == 1 .. size
           w == Weights(bytes, offset, size)
           value(k) == Number(bytes[offset + k]) * 2^((k - 1) * ByteBits)
           step(g, s) == IF s = {} THEN 0
                         ELSE LET x == CHOOSE y \in s : TRUE IN value(x) + g[s \ {x}]
           total == [s \in SUBSET S |-> Total(w, s)]
           iter == CHOOSE g : g = [s \in SUBSET S |-> step(g, s)]
<1>1. FieldAt(bytes, offset, size) = iter[S]
  BY DEF FieldAt, MapThenSumSet, MapThenFoldSet
<1>2. IsFiniteSet(S) /\ \A k \in S : w[k] = value(k) /\ w[k] \in Int
  BY FS_Interval DEF Weights
<1> HIDE DEF w, value, S
<1>3. total = [s \in SUBSET S |-> step(total, s)]
  <2>1. ASSUME NEW s \in SUBSET S PROVE total[s] = step(total, s)
    <3>1. CASE s = {}
      BY <3>1, TotalOfNone
    <3>2. CASE s # {}
      <4>1. First(s) \in s /\ Total(w, s) = w[First(s)] + Total(w, s \ {First(s)})
        <5>1. IsFiniteSet(s) /\ \A b \in s : w[b] \in Int
          BY <1>2, FS_Subset
        <5> QED
          BY <3>2, <5>1, TotalFolds
      <4>2. step(total, s) = value(First(s)) + total[s \ {First(s)}]
        BY <3>2 DEF First
      <4> QED
        BY <1>2, <4>1, <4>2
    <3> QED
      BY <3>1, <3>2
  <2> QED
    BY <2>1
<1>4. iter = [s \in SUBSET S |-> step(iter, s)]
  <2> HIDE DEF total
  <2> QED
    BY <1>3
<1> HIDE DEF iter
<1>5. \A s \in SUBSET S :
        iter[s] = IF s = {} THEN 0
                  ELSE LET x == CHOOSE y \in s : TRUE IN w[x] + iter[s \ {x}]
  <2> TAKE s \in SUBSET S
  <2>1. iter[s] = step(iter, s)
    BY <1>4
  <2>2. s # {} => (CHOOSE y \in s : TRUE) \in s
    OBVIOUS
  <2> QED
    BY <1>2, <2>1, <2>2
<1>6. iter[S] = Total(w, S)
  BY <1>2, <1>5, FoldIsTotal
<1> QED
  BY <1>1, <1>6 DEF S, w

\* What FieldAt reads of a number's bytes is the number modulo the field's
\* size: the unsigned number of its two's complement.
LEMMA FieldIsRead ==
  ASSUME NEW n \in Int, NEW size \in Nat, NEW bytes, NEW offset,
         \A k \in 1 .. size : bytes[offset + k] = ByteOfNumber(n, k)
  PROVE  FieldAt(bytes, offset, size) = n % 2^(size * ByteBits)
<1> DEFINE w == Weights(bytes, offset, size)
           bad == {j \in Nat : j <= size /\ Total(w, 1 .. j) # n % 2^(j * ByteBits)}
<1>1. ByteBits \in Nat
  BY SizesAreNumbers
<1>2. ASSUME NEW k \in Nat, k < size
      PROVE  /\ k * ByteBits \in Nat
             /\ w[k + 1] \in Int
             /\ n % 2^((k + 1) * ByteBits) = (n % 2^(k * ByteBits)) + w[k + 1]
  <2> DEFINE o == k * ByteBits
  <2>1. o \in Nat /\ (k + 1) * ByteBits = o + ByteBits /\ ((k + 1) - 1) * ByteBits = o
    BY <1>1
  <2>2. w[k + 1] = Number(ByteOfNumber(n, k + 1)) * 2^o
    <3>1. k + 1 \in 1 .. size
      BY <1>2
    <3>2. bytes[offset + (k + 1)] = ByteOfNumber(n, k + 1)
      BY <3>1
    <3> QED
      BY <2>1, <3>1, <3>2 DEF Weights
  <2> HIDE DEF w
  <2>3. ByteOfNumber(n, k + 1) = {b \in 0 .. ByteBits - 1 : (n \div 2^(o + b)) % 2 = 1}
    BY <2>1 DEF ByteOfNumber
  <2> HIDE DEF o
  <2>4. /\ Number(ByteOfNumber(n, k + 1)) \in Int
        /\ n % 2^(o + ByteBits) = (n % 2^o) + Number(ByteOfNumber(n, k + 1)) * 2^o
    <3>1. /\ Number({b \in 0 .. ByteBits - 1 : (n \div 2^(o + b)) % 2 = 1}) \in Int
          /\ n % 2^(o + ByteBits) = (n % 2^o)
               + Number({b \in 0 .. ByteBits - 1 : (n \div 2^(o + b)) % 2 = 1}) * 2^o
      BY <1>1, <2>1, RemainderByBits
    <3> QED
      BY <2>3, <3>1
  <2>5. 2^o \in Nat
    BY <2>1, PowersGrow
  <2>6. w[k + 1] \in Int
    BY <2>2, <2>4, <2>5
  <2>7. n % 2^((k + 1) * ByteBits) = (n % 2^o) + w[k + 1]
    BY <2>1, <2>2, <2>4
  <2> QED
    BY <2>1, <2>6, <2>7 DEF o
<1>3. \A k \in 1 .. size : w[k] \in Int
  <2> TAKE k \in 1 .. size
  <2>1. k - 1 \in Nat /\ k - 1 < size /\ (k - 1) + 1 = k
    OBVIOUS
  <2> HIDE DEF w
  <2> QED
    BY <1>2, <2>1
<1>4. FieldAt(bytes, offset, size) = Total(w, 1 .. size)
  BY <1>3, FieldIsTotal
<1> HIDE DEF w
<1>5. ASSUME bad # {} PROVE FALSE
  <2>1. PICK j \in bad : \A l \in bad : j <= l
    BY <1>5, LeastElement
  <2>2. CASE j = 0
    <3>1. 1 .. 0 = {} /\ 0 * ByteBits = 0
      BY <1>1
    <3>2. Total(w, 1 .. 0) = 0
      BY <3>1, TotalOfNone
    <3>3. n % 2^0 = 0
      OBVIOUS
    <3>4. Total(w, 1 .. 0) = n % 2^(0 * ByteBits)
      BY <3>1, <3>2, <3>3
    <3> QED
      BY <2>1, <2>2, <3>4
  <2>3. CASE j # 0
    <3> DEFINE k == j - 1
    <3>1. k \in Nat /\ k < size /\ j = k + 1 /\ k < j /\ j <= size
      BY <2>1, <2>3
    <3>2. k \notin bad
      <4> HIDE DEF bad
      <4> QED
        BY <2>1, <3>1
    <3> HIDE DEF k
    <3>3. Total(w, 1 .. k) = n % 2^(k * ByteBits)
      BY <3>1, <3>2
    <3>4. Total(w, 1 .. j) = w[j] + Total(w, 1 .. k)
      <4> DEFINE T == 1 .. j
      <4>1. j \in T /\ T \ {j} = 1 .. k
        BY <3>1
      <4>2. IsFiniteSet(T)
        BY <3>1, FS_Interval
      <4>3. \A x \in T : w[x] \in Int
        BY <1>3, <3>1
      <4> HIDE DEF T
      <4>4. Total(w, T) = w[j] + Total(w, T \ {j})
        BY <4>1, <4>2, <4>3, TotalAdds
      <4> QED
        BY <4>1, <4>4 DEF T
    <3>5. n % 2^(j * ByteBits) = (n % 2^(k * ByteBits)) + w[j] /\ w[j] \in Int
      BY <1>2, <3>1
    <3>6. n % 2^(k * ByteBits) \in Int
      <4> DEFINE p == 2^(k * ByteBits)
      <4>1. p \in Nat \ {0}
        BY <1>2, <3>1, PowersGrow
      <4> HIDE DEF p
      <4>2. n % p \in Int
        BY <4>1
      <4> QED
        BY <4>2 DEF p
    <3>7. Total(w, 1 .. j) = n % 2^(j * ByteBits)
      BY <3>3, <3>4, <3>5, <3>6
    <3> QED
      BY <2>1, <3>7
  <2> QED
    BY <2>2, <2>3
<1>6. size \notin bad
  BY <1>5
<1>7. Total(w, 1 .. size) = n % 2^(size * ByteBits)
  BY <1>6
<1> QED
  BY <1>4, <1>7

-----------------------------------------------------------------------------
(* Buffers.                                                                *)

\* A buffer's bytes are sets of numbers: of bits, or of a whole float.
Buffers == Seq(SUBSET Int)

\* A part of a buffer stands there from an offset on.
Has(bytes, offset, part) ==
  /\ offset + Len(part) <= Len(bytes)
  /\ \A k \in 1 .. Len(part) : bytes[offset + k] = part[k]

\* What a concatenation is.
LEMMA Concatenated ==
  ASSUME NEW s \in Buffers, NEW t \in Buffers
  PROVE  /\ s \o t \in Buffers
         /\ Len(s \o t) = Len(s) + Len(t)
         /\ Len(s) \in Nat /\ Len(t) \in Nat
         /\ \A k \in 1 .. Len(s) : (s \o t)[k] = s[k]
         /\ \A k \in 1 .. Len(t) : (s \o t)[Len(s) + k] = t[k]
  BY DEF Buffers

\* The length of a concatenation.
LEMMA Appended ==
  ASSUME NEW s \in Buffers, NEW t \in Buffers
  PROVE  s \o t \in Buffers /\ Len(s \o t) = Len(s) + Len(t) /\ Len(s) \in Nat /\ Len(t) \in Nat
  BY DEF Buffers

\* A buffer has itself.
LEMMA HasItself ==
  ASSUME NEW s \in Buffers
  PROVE  Has(s, 0, s)
  BY DEF Has, Buffers

\* Of two parts in a row, the second stands where the first ends.
LEMMA HasParts ==
  ASSUME NEW bytes \in Buffers, NEW offset \in Nat, NEW s \in Buffers, NEW t \in Buffers
  PROVE  Has(bytes, offset, s \o t) <=> Has(bytes, offset, s) /\ Has(bytes, offset + Len(s), t)
<1>1. /\ Len(s \o t) = Len(s) + Len(t) /\ Len(s) \in Nat /\ Len(t) \in Nat /\ Len(bytes) \in Nat
      /\ \A k \in 1 .. Len(s) : (s \o t)[k] = s[k]
      /\ \A k \in 1 .. Len(t) : (s \o t)[Len(s) + k] = t[k]
  BY Concatenated DEF Buffers
<1>2. ASSUME Has(bytes, offset, s \o t)
      PROVE  Has(bytes, offset, s) /\ Has(bytes, offset + Len(s), t)
  <2>1. Has(bytes, offset, s)
    BY <1>1, <1>2 DEF Has
  <2>2. ASSUME NEW k \in 1 .. Len(t) PROVE bytes[(offset + Len(s)) + k] = t[k]
    <3>1. Len(s) + k \in 1 .. Len(s \o t) /\ (offset + Len(s)) + k = offset + (Len(s) + k)
      BY <1>1
    <3> QED
      BY <1>1, <1>2, <3>1 DEF Has
  <2>3. (offset + Len(s)) + Len(t) <= Len(bytes)
    BY <1>1, <1>2 DEF Has
  <2> QED
    BY <2>1, <2>2, <2>3 DEF Has
<1>3. ASSUME Has(bytes, offset, s), Has(bytes, offset + Len(s), t)
      PROVE  Has(bytes, offset, s \o t)
  <2>1. ASSUME NEW k \in 1 .. Len(s \o t) PROVE bytes[offset + k] = (s \o t)[k]
    <3>1. CASE k <= Len(s)
      BY <1>1, <1>3, <3>1 DEF Has
    <3>2. CASE k > Len(s)
      <4> DEFINE j == k - Len(s)
      <4>1. j \in 1 .. Len(t) /\ k = Len(s) + j /\ offset + k = (offset + Len(s)) + j
        BY <1>1, <3>2
      <4> HIDE DEF j
      <4> QED
        BY <1>1, <1>3, <4>1 DEF Has
    <3> QED
      BY <1>1, <3>1, <3>2
  <2>2. offset + Len(s \o t) <= Len(bytes)
    BY <1>1, <1>3 DEF Has
  <2> QED
    BY <2>1, <2>2 DEF Has
<1> QED
  BY <1>2, <1>3

\* Zeros and fields are buffers.
LEMMA PartsAre ==
  ASSUME NEW size \in Nat
  PROVE  /\ Zeros(size) \in Buffers /\ Len(Zeros(size)) = size
         /\ \A n : /\ Field(n, size) \in Buffers /\ Len(Field(n, size)) = size
                   /\ \A k \in 1 .. size : Field(n, size)[k] = ByteOfNumber(n, k)
<1>1. Zeros(size) \in Buffers /\ Len(Zeros(size)) = size
  BY DEF Zeros, Buffers
<1>2. ASSUME NEW n
      PROVE  /\ Field(n, size) \in Buffers /\ Len(Field(n, size)) = size
             /\ \A k \in 1 .. size : Field(n, size)[k] = ByteOfNumber(n, k)
  <2>1. Field(n, size) = [k \in 1 .. size |-> ByteOfNumber(n, k)]
    BY DEF Field, ByteOfNumber
  <2>2. \A k \in 1 .. size : ByteOfNumber(n, k) \in SUBSET Int
    BY DEF ByteOfNumber
  <2> QED
    BY <2>1, <2>2 DEF Buffers
<1> QED
  BY <1>1, <1>2

\* What is read of a field is the number that was written, modulo its size.
LEMMA FieldIsFound ==
  ASSUME NEW bytes, NEW offset, NEW n \in Int, NEW size \in Nat,
         Has(bytes, offset, Field(n, size))
  PROVE  FieldAt(bytes, offset, size) = n % 2^(size * ByteBits)
<1>1. \A k \in 1 .. size : bytes[offset + k] = ByteOfNumber(n, k)
  BY PartsAre DEF Has
<1> QED
  BY <1>1, FieldIsRead

\* The number itself, if the field is large enough.
LEMMA NumberIsFound ==
  ASSUME NEW bytes, NEW offset, NEW n \in Nat, NEW size \in Nat,
         Has(bytes, offset, Field(n, size)), n < 2^(size * ByteBits)
  PROVE  FieldAt(bytes, offset, size) = n
<1> DEFINE p == 2^(size * ByteBits)
<1>1. FieldAt(bytes, offset, size) = n % p
  BY FieldIsFound
<1>2. p \in Nat \ {0}
  <2>1. size * ByteBits \in Nat
    BY SizesAreNumbers
  <2> QED
    BY <2>1, PowersGrow
<1> HIDE DEF p
<1>3. n < p
  BY DEF p
<1> QED
  BY <1>1, <1>2, <1>3

\* A value of an integer type of whole bytes is read as such.
LEMMA ValueIsFound ==
  ASSUME NEW t, IntegerType(t), NEW v, ValueOf(v, t), NEW size \in Nat, size * ByteBits = t.bits,
         NEW bytes, NEW offset, Has(bytes, offset, Field(v, size))
  PROVE  Native(FieldAt(bytes, offset, size), t) = v
<1> DEFINE m == 2^t.bits
<1>1. v \in Int /\ m \in Nat \ {0}
  BY RangeOfType DEF ValueOf
<1>2. FieldAt(bytes, offset, size) = v % m
  BY <1>1, FieldIsFound
<1>3. \E k \in Int : v % m = v + k * m
  <2> HIDE DEF m
  <2>1. v \div m \in Int /\ v = (v \div m) * m + (v % m)
    BY <1>1, Division
  <2> DEFINE k == -(v \div m)
  <2>2. k \in Int /\ k * m = -((v \div m) * m)
    BY <1>1, <2>1
  <2>3. v % m = v + k * m
    <3> DEFINE q == (v \div m) * m
    <3>1. q \in Int /\ k * m = -q /\ v = q + (v % m) /\ v % m \in Int
      BY <1>1, <2>1, <2>2, Division
    <3> HIDE DEF q, k
    <3> QED
      BY <1>1, <3>1
  <2> QED
    BY <2>2, <2>3
<1> QED
  BY <1>2, <1>3, NativeRestores

\* Align8 rounds up, and nothing but zeros fills the gap.
LEMMA AlignedIs ==
  ASSUME NEW s \in Buffers
  PROVE  /\ Align8(Len(s)) \in Nat /\ Len(s) <= Align8(Len(s))
         /\ Align8(Len(s)) - Len(s) \in Nat
         /\ Aligned(s) = s \o Zeros(Align8(Len(s)) - Len(s))
         /\ Aligned(s) \in Buffers /\ Len(Aligned(s)) = Align8(Len(s))
<1>1. Len(s) \in Nat
  BY DEF Buffers
<1>2. Align8(Len(s)) \in Nat /\ Len(s) <= Align8(Len(s))
  BY <1>1 DEF Align8, CeilDiv
<1>3. Align8(Len(s)) - Len(s) \in Nat
  BY <1>1, <1>2
<1>4. Aligned(s) = s \o Zeros(Align8(Len(s)) - Len(s))
  BY DEF Aligned
<1> HIDE DEF Align8
<1>5. Aligned(s) \in Buffers /\ Len(Aligned(s)) = Align8(Len(s))
  <2> DEFINE n == Align8(Len(s)) - Len(s)
             z == Zeros(n)
  <2>1. n \in Nat /\ Align8(Len(s)) = Len(s) + n
    BY <1>1, <1>2, <1>3
  <2>2. Aligned(s) = s \o z
    BY <1>4
  <2> HIDE DEF n
  <2>3. z \in Buffers /\ Len(z) = n
    BY <2>1, PartsAre
  <2> HIDE DEF z
  <2>4. s \o z \in Buffers /\ Len(s \o z) = Len(s) + Len(z)
    BY <2>3, Concatenated
  <2> QED
    BY <2>1, <2>2, <2>3, <2>4
<1> QED
  BY <1>2, <1>3, <1>4, <1>5

\* What is behind a part.
LEMMA FromIs ==
  ASSUME NEW s \in Buffers, NEW t \in Buffers
  PROVE  From(s \o t, Len(s)) = t
<1> DEFINE u == From(s \o t, Len(s))
<1>1. /\ s \o t \in Buffers /\ Len(s \o t) = Len(s) + Len(t) /\ Len(s) \in Nat /\ Len(t) \in Nat
      /\ \A k \in 1 .. Len(t) : (s \o t)[Len(s) + k] = t[k]
  BY Concatenated
<1>2. u = SubSeq(s \o t, Len(s) + 1, Len(s \o t))
  BY DEF From
<1>3. Len(u) = Len(t) /\ u \in Buffers /\ \A k \in 1 .. Len(t) : u[k] = (s \o t)[Len(s) + k]
  <2> DEFINE w == s \o t
  <2>1. w \in Seq(SUBSET Int) /\ Len(w) = Len(s) + Len(t)
    BY <1>1 DEF Buffers
  <2> HIDE DEF w
  <2> QED
    BY <1>1, <1>2, <2>1 DEF Buffers, w
<1> HIDE DEF u
<1> QED
  BY <1>1, <1>3 DEF u, Buffers

\* A float takes its bytes, and is read from the first of them.
LEMMA FloatIs ==
  ASSUME NEW v \in Int, NEW size \in Nat \ {0}
  PROVE  /\ Float(v, size) \in Buffers /\ Len(Float(v, size)) = size
         /\ \A bytes, offset : Has(bytes, offset, Float(v, size)) => FloatAt(bytes, offset) = v
<1> DEFINE z == Zeros(size - 1)
           f == <<{v}>> \o z
<1>1. Float(v, size) = f
  BY DEF Float
<1>2. z \in Buffers /\ Len(z) = size - 1
  <2>1. size - 1 \in Nat
    OBVIOUS
  <2> QED
    BY <2>1, PartsAre
<1>3. <<{v}>> \in Buffers /\ Len(<<{v}>>) = 1 /\ <<{v}>>[1] = {v}
  BY DEF Buffers
<1> HIDE DEF z
<1>4. f \in Buffers /\ Len(f) = size /\ f[1] = {v}
  BY <1>2, <1>3, Concatenated
<1> HIDE DEF f
<1>5. ASSUME NEW bytes, NEW offset, Has(bytes, offset, f)
      PROVE  FloatAt(bytes, offset) = v
  <2>1. bytes[offset + 1] = {v}
    BY <1>4, <1>5 DEF Has
  <2> QED
    BY <2>1 DEF FloatAt
<1> QED
  BY <1>1, <1>4, <1>5

-----------------------------------------------------------------------------
(* The header.                                                             *)

\* Fields of four bits and of a byte hold small numbers.
LEMMA SmallFields ==
  /\ \A n \in 0 .. 15 : n < 2^(2 * ByteBits)
  /\ 77 < 2^(4 * ByteBits)
<1>1. ByteBits \in Nat /\ ByteBits > 1
  BY SizesAreNumbers, FormatAssumption
<1>2. 2^0 = 1 /\ 2^1 = 2 * 2^0 /\ 2^2 = 2 * 2^1 /\ 2^4 = 2^2 * 2^2 /\ 2^8 = 2^4 * 2^4
  <2>1. 2^(0 + 1) = 2 * 2^0 /\ 2^(1 + 1) = 2 * 2^1
    BY PowerDoubles
  <2>2. 2^(2 + 2) = 2^2 * 2^2 /\ 2^(4 + 4) = 2^4 * 2^4
    BY PowersMultiply
  <2> QED
    BY <2>1, <2>2
<1>3. 2^4 = 16 /\ 2^8 = 256
  BY <1>2
<1>4. /\ 2 * ByteBits \in Nat /\ 4 \in 0 .. 2 * ByteBits
      /\ 4 * ByteBits \in Nat /\ 8 \in 0 .. 4 * ByteBits
  BY <1>1
<1>5. 2^4 <= 2^(2 * ByteBits) /\ 2^8 <= 2^(4 * ByteBits)
  BY <1>4, PowersGrow
<1>6. 2^(2 * ByteBits) \in Nat /\ 2^(4 * ByteBits) \in Nat
  BY <1>4, PowersGrow
<1> QED
  BY <1>3, <1>5, <1>6

\* The logical and physical types that headers name.
Logicals == {LiquidDataTypes[n] : n \in 1 .. 6}

\* Types have small numbers of their own.
LEMMA IdsAreNumbers ==
  /\ \A l \in Logicals : LogicalId(l) \in 1 .. 6 /\ LiquidDataTypes[LogicalId(l)] = l
  /\ \A p \in Physicals : PhysicalId(p) \in 0 .. 15 /\ PhysicalTypes[PhysicalId(p) + 1] = p
<1>1. DOMAIN LiquidDataTypes = 1 .. 6 /\ DOMAIN PhysicalTypes = 1 .. 16
  BY DEF LiquidDataTypes, PhysicalTypes
<1>2. ASSUME NEW l \in Logicals
      PROVE  LogicalId(l) \in 1 .. 6 /\ LiquidDataTypes[LogicalId(l)] = l
  BY <1>1 DEF Logicals, LogicalId
<1>3. ASSUME NEW p \in Physicals
      PROVE  PhysicalId(p) \in 0 .. 15 /\ PhysicalTypes[PhysicalId(p) + 1] = p
  <2> DEFINE n == CHOOSE k \in DOMAIN PhysicalTypes : PhysicalTypes[k] = p
  <2>1. n \in 1 .. 16 /\ PhysicalTypes[n] = p
    BY <1>1 DEF Physicals
  <2>2. PhysicalId(p) = n - 1
    BY DEF PhysicalId
  <2> HIDE DEF n
  <2>3. n - 1 \in 0 .. 15 /\ (n - 1) + 1 = n
    BY <2>1
  <2> QED
    BY <2>1, <2>2, <2>3
<1> QED
  BY <1>2, <1>3

\* The header takes 16 bytes, the physical type the two at 8.
LEMMA HeaderIs ==
  ASSUME NEW logical, NEW physical
  PROVE  /\ Header(logical, physical) \in Buffers /\ Len(Header(logical, physical)) = 16
         /\ \A bytes \in Buffers : Has(bytes, 0, Header(logical, physical)) =>
              /\ Has(bytes, 0, Field(Magic, 4)) /\ Has(bytes, 4, Field(Version, 2))
              /\ Has(bytes, 6, Field(LogicalId(logical), 2))
              /\ Has(bytes, 8, Field(PhysicalId(physical), 2))
<1> DEFINE m == Field(Magic, 4)
           v == Field(Version, 2)
           l == Field(LogicalId(logical), 2)
           p == Field(PhysicalId(physical), 2)
           z == Zeros(6)
           s2 == m \o v
           s3 == s2 \o l
           s4 == s3 \o p
           s5 == s4 \o z
<1>1. Header(logical, physical) = s5
  BY DEF Header
<1>2. /\ m \in Buffers /\ Len(m) = 4 /\ v \in Buffers /\ Len(v) = 2
      /\ l \in Buffers /\ Len(l) = 2 /\ p \in Buffers /\ Len(p) = 2
      /\ z \in Buffers /\ Len(z) = 6
  BY PartsAre
<1> HIDE DEF m, v, l, p, z
<1>3. s2 \in Buffers /\ Len(s2) = 6
  <2>1. m \o v \in Buffers /\ Len(m \o v) = Len(m) + Len(v)
    BY <1>2, Appended
  <2> QED
    BY <1>2, <2>1
<1> HIDE DEF s2
<1>4. s3 \in Buffers /\ Len(s3) = 8
  <2>1. s2 \o l \in Buffers /\ Len(s2 \o l) = Len(s2) + Len(l)
    BY <1>2, <1>3, Appended
  <2> QED
    BY <1>2, <1>3, <2>1
<1> HIDE DEF s3
<1>5. s4 \in Buffers /\ Len(s4) = 10
  <2>1. s3 \o p \in Buffers /\ Len(s3 \o p) = Len(s3) + Len(p)
    BY <1>2, <1>4, Appended
  <2> QED
    BY <1>2, <1>4, <2>1
<1> HIDE DEF s4
<1>6. s5 \in Buffers /\ Len(s5) = 16
  <2>1. s4 \o z \in Buffers /\ Len(s4 \o z) = Len(s4) + Len(z)
    BY <1>2, <1>5, Appended
  <2> QED
    BY <1>2, <1>5, <2>1
<1>7. ASSUME NEW bytes \in Buffers, Has(bytes, 0, s5)
      PROVE  Has(bytes, 0, m) /\ Has(bytes, 4, v) /\ Has(bytes, 6, l) /\ Has(bytes, 8, p)
  <2>1. Has(bytes, 0, s4)
    BY <1>2, <1>5, <1>7, HasParts
  <2>2. Has(bytes, 0, s3) /\ Has(bytes, 0 + Len(s3), p)
    BY <1>2, <1>4, <2>1, HasParts DEF s4
  <2>3. Has(bytes, 0, s2) /\ Has(bytes, 0 + Len(s2), l)
    BY <1>2, <1>3, <2>2, HasParts DEF s3
  <2>4. Has(bytes, 0, m) /\ Has(bytes, 0 + Len(m), v)
    BY <1>2, <2>3, HasParts DEF s2
  <2> QED
    BY <1>2, <1>3, <1>4, <2>2, <2>3, <2>4
<1> QED
  BY <1>1, <1>6, <1>7 DEF m, v, l, p

\* What is read of a header is what was written.
LEMMA HeaderIsRead ==
  ASSUME NEW logical \in Logicals, NEW physical \in Physicals,
         NEW bytes \in Buffers, Has(bytes, 0, Header(logical, physical))
  PROVE  /\ ReadHeader(bytes)
              = {[logical |-> LogicalId(logical), physical |-> PhysicalId(physical)]}
         /\ IsOfType(bytes, logical)
<1>1. /\ Has(bytes, 0, Field(Magic, 4)) /\ Has(bytes, 4, Field(Version, 2))
      /\ Has(bytes, 6, Field(LogicalId(logical), 2))
      /\ Has(bytes, 8, Field(PhysicalId(physical), 2))
  BY HeaderIs
<1>2. ~(Len(bytes) < 16)
  <2>1. 0 + Len(Header(logical, physical)) <= Len(bytes) /\ Len(bytes) \in Nat
    BY DEF Has, Buffers
  <2>2. Len(Header(logical, physical)) = 16
    BY HeaderIs
  <2> QED
    BY <2>1, <2>2
<1>3. LogicalId(logical) \in 1 .. 6 /\ PhysicalId(physical) \in 0 .. 15
  BY IdsAreNumbers
<1>4. FieldAt(bytes, 0, 4) = Magic
  <2>1. Magic \in Nat /\ Magic < 2^(4 * ByteBits)
    BY SmallFields DEF Magic
  <2> QED
    BY <1>1, <2>1, NumberIsFound
<1>5. FieldAt(bytes, 4, 2) = Version
  <2>1. Version \in Nat /\ Version < 2^(2 * ByteBits)
    BY SmallFields DEF Version
  <2> QED
    BY <1>1, <2>1, NumberIsFound
<1>6. FieldAt(bytes, 6, 2) = LogicalId(logical)
  <2>1. LogicalId(logical) \in Nat /\ LogicalId(logical) < 2^(2 * ByteBits)
    BY <1>3, SmallFields
  <2> QED
    BY <1>1, <2>1, NumberIsFound
<1>7. FieldAt(bytes, 8, 2) = PhysicalId(physical)
  <2>1. PhysicalId(physical) \in Nat /\ PhysicalId(physical) < 2^(2 * ByteBits)
    BY <1>3, SmallFields
  <2> QED
    BY <1>1, <2>1, NumberIsFound
<1>8. ReadHeader(bytes) = {[logical |-> LogicalId(logical), physical |-> PhysicalId(physical)]}
  BY <1>2, <1>4, <1>5, <1>6, <1>7 DEF ReadHeader
<1> QED
  BY <1>8 DEF IsOfType

-----------------------------------------------------------------------------
(* Packed arrays.                                                          *)

\* The bytes of a packed array, and those of its null bitmap.
SizeOfPacked(packed) == CeilDiv(packed.length * packed.width, ByteBits)
SizeOfBitmap(packed) == IF packed.nulls = <<>> THEN 0 ELSE CeilDiv(packed.length, ByteBits)

\* What the encoders pack: at most MaxLength elements of at most a word each.
Packable(packed) ==
  /\ packed = [length |-> packed.length, width |-> packed.width,
               nulls |-> packed.nulls, bytes |-> packed.bytes]
  /\ packed.length \in 0 .. MaxLength
  /\ packed.width \in 0 .. WordBits
  /\ \/ packed.nulls = <<>>
     \/ packed.length > 0 /\ packed.nulls \in [0 .. packed.length - 1 -> BOOLEAN]
  /\ packed.bytes \in [0 .. SizeOfPacked(packed) - 1 -> SUBSET (0 .. ByteBits - 1)]

\* Lengths and sizes fit their fields.
LEMMA SizesFit ==
  ASSUME NEW packed, Packable(packed)
  PROVE  /\ packed.length \in Nat /\ packed.length < 2^(4 * ByteBits)
         /\ packed.width \in Nat /\ packed.width < 2^(1 * ByteBits)
         /\ SizeOfPacked(packed) \in Nat /\ SizeOfPacked(packed) < 2^(4 * ByteBits)
         /\ SizeOfBitmap(packed) \in Nat /\ SizeOfBitmap(packed) < 2^(4 * ByteBits)
         /\ SizeOfBitmap(packed) = 0 <=> packed.nulls = <<>>
         /\ Cardinality(DOMAIN packed.bytes) = SizeOfPacked(packed)
<1> DEFINE n == packed.length
           w == packed.width
           c == CeilDiv(n * w, ByteBits)
           d == CeilDiv(n, ByteBits)
           top == 2^(4 * ByteBits)
           small == 2^(1 * ByteBits)
<1>1. /\ ByteBits \in Nat \ {0} /\ WordBytes \in Nat \ {0} /\ WordBits = WordBytes * ByteBits
      /\ WordBits \in Nat
  BY SizesAreNumbers
<1>2. n \in 0 .. MaxLength /\ w \in 0 .. WordBits /\ MaxLength \in Nat
  BY LinearAssumption DEF Packable
<1>3. top \in Nat /\ small \in Nat
  <2>1. 4 * ByteBits \in Nat /\ 1 * ByteBits \in Nat
    BY <1>1
  <2> QED
    BY <2>1, PowersGrow
<1>4. MaxLength * WordBytes < top /\ WordBits < small
  <2>1. 1 * ByteBits = ByteBits
    BY <1>1
  <2> QED
    BY <2>1, FormatAssumption
<1> HIDE DEF top, small, n, w
<1>5. n * WordBytes \in Nat /\ n <= n * WordBytes /\ n * WordBytes <= MaxLength * WordBytes
      /\ MaxLength * WordBytes \in Nat
  <2>1. n * WordBytes \in Int /\ MaxLength * WordBytes \in Int
        /\ n * WordBytes <= MaxLength * WordBytes
    BY <1>1, <1>2, Grows
  <2>2. 1 * n <= WordBytes * n
    BY <1>1, <1>2, Grows
  <2>3. WordBytes * n = n * WordBytes /\ 1 * n = n
    BY <1>1, <1>2
  <2> QED
    BY <1>1, <1>2, <2>1, <2>2, <2>3
<1>6. n * w \in Nat /\ n * w <= (n * WordBytes) * ByteBits
  <2>1. w * n \in Int /\ w * n <= WordBits * n
    BY <1>1, <1>2, Grows
  <2>2. WordBits * n = (n * WordBytes) * ByteBits /\ w * n = n * w
    BY <1>1, <1>2
  <2>3. n * w \in Nat
    BY <1>1, <1>2
  <2> QED
    BY <2>1, <2>2, <2>3
<1>7. c \in Nat /\ c <= n * WordBytes
  <2> DEFINE k == n * WordBytes
             a == n * w
  <2>1. k \in Nat /\ a \in Nat /\ ~(k * ByteBits < a)
    <3> HIDE DEF k, a
    <3>1. k \in Nat /\ a \in Nat /\ a <= k * ByteBits
      BY <1>5, <1>6 DEF k, a
    <3> QED
      BY <1>1, <3>1
  <2> HIDE DEF k, a
  <2>2. CeilDiv(a, ByteBits) \in Nat /\ ~(k < CeilDiv(a, ByteBits))
    BY <1>1, <2>1, CeilDivCounts
  <2> QED
    BY <2>1, <2>2 DEF k, a
<1>8. d \in Nat /\ d <= n /\ (n > 0 => d > 0)
  <2>1. d \in Nat /\ \A k \in Int : k < d <=> k * ByteBits < n
    BY <1>1, <1>2, CeilDivCounts
  <2>2. ~(n * ByteBits < n)
    <3>1. 1 * n <= ByteBits * n
      BY <1>1, <1>2, Grows
    <3> QED
      BY <1>1, <1>2, <3>1
  <2>3. 0 * ByteBits = 0
    BY <1>1
  <2> HIDE DEF d
  <2> QED
    BY <1>2, <2>1, <2>2, <2>3
<1>9. SizeOfPacked(packed) = c
  BY DEF SizeOfPacked, n, w
<1>10. SizeOfBitmap(packed) = IF packed.nulls = <<>> THEN 0 ELSE d
  BY DEF SizeOfBitmap, n
<1>11. packed.nulls # <<>> => n > 0
  BY DEF Packable, n
<1>12. Cardinality(DOMAIN packed.bytes) = c
  <2>1. DOMAIN packed.bytes = 0 .. c - 1
    BY <1>9 DEF Packable
  <2> HIDE DEF c
  <2>2. 0 \in Int /\ c - 1 \in Int
    BY <1>7
  <2>3. Cardinality(0 .. c - 1) = IF 0 > c - 1 THEN 0 ELSE (c - 1) - 0 + 1
    BY <2>2, FS_Interval
  <2> QED
    BY <1>7, <2>1, <2>3
<1> HIDE DEF c, d
<1>13. n \in Nat /\ n < top /\ w \in Nat /\ w < small /\ c < top
  BY <1>1, <1>2, <1>3, <1>4, <1>5, <1>7
<1>14. SizeOfBitmap(packed) \in Nat /\ SizeOfBitmap(packed) < top
       /\ (SizeOfBitmap(packed) = 0 <=> packed.nulls = <<>>)
  BY <1>3, <1>5, <1>8, <1>10, <1>11, <1>13
<1> QED
  BY <1>7, <1>9, <1>12, <1>13, <1>14 DEF n, w, top, small

\* The bitmap's bits are the validity of the slots.
LEMMA BitmapIs ==
  ASSUME NEW packed, Packable(packed)
  PROVE  /\ BitmapOf(packed) \in Buffers /\ Len(BitmapOf(packed)) = SizeOfBitmap(packed)
         /\ BitmapOf(packed) = <<>> <=> packed.nulls = <<>>
         /\ packed.nulls # <<>> => \A i \in 0 .. packed.length - 1 :
              /\ 1 + (i \div ByteBits) \in 1 .. SizeOfBitmap(packed)
              /\ i % ByteBits \in BitmapOf(packed)[1 + (i \div ByteBits)] <=> packed.nulls[i]
<1> DEFINE n == packed.length
           size == CeilDiv(n, ByteBits)
           byte(k) == {b \in 0 .. ByteBits - 1 :
                         LET i == (k - 1) * ByteBits + b IN i < packed.length /\ packed.nulls[i]}
           bitmap == [k \in 1 .. size |-> byte(k)]
<1>1. ByteBits \in Nat \ {0} /\ n \in Nat
  BY SizesAreNumbers, SizesFit
<1>2. CASE packed.nulls = <<>>
  <2>1. BitmapOf(packed) = <<>> /\ SizeOfBitmap(packed) = 0
    BY <1>2 DEF BitmapOf, SizeOfBitmap
  <2> QED
    BY <1>2, <2>1 DEF Buffers
<1>3. CASE packed.nulls # <<>>
  <2>1. BitmapOf(packed) = bitmap /\ SizeOfBitmap(packed) = size
    BY <1>3 DEF BitmapOf, SizeOfBitmap
  <2>2. size \in Nat /\ size # 0
    BY <1>3, <2>1, SizesFit
  <2>3. \A k \in Int : k < size <=> k * ByteBits < n
    BY <1>1, CeilDivCounts
  <2>4. \A k \in 1 .. size : byte(k) \in SUBSET Int
    BY <1>1
  <2> HIDE DEF size
  <2>5. bitmap \in Buffers /\ Len(bitmap) = size /\ bitmap # <<>>
    <3> HIDE DEF byte
    <3>1. bitmap \in Buffers /\ Len(bitmap) = size
      BY <2>2, <2>4 DEF Buffers
    <3> QED
      BY <2>2, <3>1
  <2>6. ASSUME NEW i \in 0 .. n - 1
        PROVE  /\ 1 + (i \div ByteBits) \in 1 .. size
               /\ i % ByteBits \in bitmap[1 + (i \div ByteBits)] <=> packed.nulls[i]
    <3> DEFINE q == i \div ByteBits
               b == i % ByteBits
    <3>1. q \in Int /\ b \in 0 .. ByteBits - 1 /\ i = q * ByteBits + b
      BY <1>1, Division
    <3>2. q \in Nat
      BY <1>1, QuotientIsNat
    <3> HIDE DEF q, b
    <3>3. q * ByteBits < n
      <4> DEFINE x == q * ByteBits
      <4>1. x \in Int /\ i = x + b
        BY <1>1, <3>1
      <4> HIDE DEF x
      <4>2. x < n
        BY <1>1, <3>1, <4>1
      <4> QED
        BY <4>2 DEF x
    <3>4. 1 + q \in 1 .. size
      BY <2>2, <2>3, <3>2, <3>3
    <3>5. ((1 + q) - 1) * ByteBits + b = i
      BY <1>1, <3>1, <3>2
    <3>6. bitmap[1 + q] = byte(1 + q)
      BY <3>4
    <3>7. b \in byte(1 + q) <=> packed.nulls[i]
      <4>1. b \in byte(1 + q) <=> b \in 0 .. ByteBits - 1 /\ i < packed.length /\ packed.nulls[i]
        BY <3>5
      <4>2. i < packed.length
        BY <1>1
      <4> QED
        BY <3>1, <4>1, <4>2
    <3> HIDE DEF byte
    <3> QED
      BY <3>4, <3>6, <3>7 DEF q, b
  <2> QED
    BY <1>3, <2>1, <2>5, <2>6
<1> QED
  BY <1>2, <1>3

\* The parts of a serialized packed array, and where they are.
PackedParts(packed, bytes) ==
  /\ Has(bytes, 0, Field(packed.length, 4))
  /\ Has(bytes, 4, Field(packed.width, 1))
  /\ Has(bytes, 5, Field(IF BitmapOf(packed) = <<>> THEN 0 ELSE 1, 1))
  /\ Has(bytes, 6, Field(SizeOfBitmap(packed), 4))
  /\ Has(bytes, 10, Field(SizeOfPacked(packed), 4))
  /\ Has(bytes, 16, BitmapOf(packed))
  /\ Has(bytes, ValuesOffset(SizeOfBitmap(packed)),
         [k \in 1 .. SizeOfPacked(packed) |-> packed.bytes[k - 1]])

\* Header, bitmap and values follow each other, the values aligned.
LEMMA SerializedIs ==
  ASSUME NEW packed, Packable(packed)
  PROVE  /\ Serialize(packed) \in Buffers
         /\ Len(Serialize(packed))
              = ValuesOffset(SizeOfBitmap(packed)) + SizeOfPacked(packed)
         /\ ValuesOffset(SizeOfBitmap(packed)) \in Nat
         /\ 16 + SizeOfBitmap(packed) <= ValuesOffset(SizeOfBitmap(packed))
         /\ PackedParts(packed, Serialize(packed))
<1> DEFINE bitmap == BitmapOf(packed)
           flag   == IF bitmap = <<>> THEN 0 ELSE 1
           size   == SizeOfPacked(packed)
           bits   == SizeOfBitmap(packed)
           f1 == Field(packed.length, 4)
           f2 == Field(packed.width, 1)
           f3 == Field(flag, 1)
           f4 == Field(bits, 4)
           f5 == Field(size, 4)
           f6 == Zeros(2)
           s2 == f1 \o f2
           s3 == s2 \o f3
           s4 == s3 \o f4
           s5 == s4 \o f5
           s6 == s5 \o f6
           s7 == s6 \o bitmap
           body == [k \in 1 .. size |-> packed.bytes[k - 1]]
           whole == Aligned(s7) \o body
           offset == ValuesOffset(bits)
<1>1. bitmap \in Buffers /\ Len(bitmap) = bits /\ bits \in Nat /\ size \in Nat
  BY BitmapIs, SizesFit
<1>2. Serialize(packed) = whole
  <2>1. Cardinality(DOMAIN packed.bytes) = size
    BY SizesFit
  <2> QED
    BY <1>1, <2>1 DEF Serialize
<1>3. body \in Buffers /\ Len(body) = size
  <2>1. ByteBits \in Nat
    BY SizesAreNumbers
  <2>2. \A k \in 1 .. size : packed.bytes[k - 1] \in SUBSET Int
    <3> TAKE k \in 1 .. size
    <3>1. k - 1 \in 0 .. size - 1
      BY <1>1
    <3>2. packed.bytes[k - 1] \in SUBSET (0 .. ByteBits - 1)
      BY <3>1 DEF Packable
    <3> QED
      BY <2>1, <3>2
  <2> HIDE DEF size
  <2> QED
    BY <1>1, <2>2 DEF Buffers
<1>4. /\ f1 \in Buffers /\ Len(f1) = 4 /\ f2 \in Buffers /\ Len(f2) = 1
      /\ f3 \in Buffers /\ Len(f3) = 1 /\ f4 \in Buffers /\ Len(f4) = 4
      /\ f5 \in Buffers /\ Len(f5) = 4 /\ f6 \in Buffers /\ Len(f6) = 2
  BY PartsAre
<1>5. offset = Align8(16 + bits)
  BY DEF ValuesOffset
<1> HIDE DEF bitmap, size, bits, f1, f2, f3, f4, f5, f6, body, offset
<1>6. s2 \in Buffers /\ Len(s2) = 5
  <2>1. f1 \o f2 \in Buffers /\ Len(f1 \o f2) = Len(f1) + Len(f2)
    BY <1>4, Appended
  <2> QED
    BY <1>4, <2>1
<1> HIDE DEF s2
<1>7. s3 \in Buffers /\ Len(s3) = 6
  <2>1. s2 \o f3 \in Buffers /\ Len(s2 \o f3) = Len(s2) + Len(f3)
    BY <1>4, <1>6, Appended
  <2> QED
    BY <1>4, <1>6, <2>1
<1> HIDE DEF s3
<1>8. s4 \in Buffers /\ Len(s4) = 10
  <2>1. s3 \o f4 \in Buffers /\ Len(s3 \o f4) = Len(s3) + Len(f4)
    BY <1>4, <1>7, Appended
  <2> QED
    BY <1>4, <1>7, <2>1
<1> HIDE DEF s4
<1>9. s5 \in Buffers /\ Len(s5) = 14
  <2>1. s4 \o f5 \in Buffers /\ Len(s4 \o f5) = Len(s4) + Len(f5)
    BY <1>4, <1>8, Appended
  <2> QED
    BY <1>4, <1>8, <2>1
<1> HIDE DEF s5
<1>10. s6 \in Buffers /\ Len(s6) = 16
  <2>1. s5 \o f6 \in Buffers /\ Len(s5 \o f6) = Len(s5) + Len(f6)
    BY <1>4, <1>9, Appended
  <2> QED
    BY <1>4, <1>9, <2>1
<1> HIDE DEF s6
<1>11. s7 \in Buffers /\ Len(s7) = 16 + bits
  <2>1. s6 \o bitmap \in Buffers /\ Len(s6 \o bitmap) = Len(s6) + Len(bitmap)
    BY <1>1, <1>10, Appended
  <2> QED
    BY <1>1, <1>10, <2>1
<1> HIDE DEF s7
<1> DEFINE gap == Zeros(Align8(Len(s7)) - Len(s7))
           head == Aligned(s7)
<1>12. /\ head = s7 \o gap /\ gap \in Buffers
       /\ head \in Buffers /\ Len(head) = offset
       /\ offset \in Nat /\ 16 + bits <= offset
  <2>1. /\ Align8(Len(s7)) \in Nat /\ Len(s7) <= Align8(Len(s7))
        /\ Align8(Len(s7)) - Len(s7) \in Nat
        /\ head = s7 \o gap /\ head \in Buffers /\ Len(head) = Align8(Len(s7))
    BY <1>11, AlignedIs
  <2>2. gap \in Buffers
    BY <2>1, PartsAre
  <2> QED
    BY <1>5, <1>11, <2>1, <2>2
<1> HIDE DEF gap, head
<1>13. head \o body \in Buffers /\ Len(head \o body) = Len(head) + Len(body)
  BY <1>3, <1>12, Appended
<1>14. whole = head \o body
  BY DEF head
<1> HIDE DEF whole
<1>15. whole \in Buffers /\ Len(whole) = offset + size
  BY <1>3, <1>12, <1>13, <1>14
<1>16. Has(whole, 0, head \o body)
  BY <1>14, <1>15, HasItself
<1>17. Has(whole, 0, head) /\ Has(whole, offset, body)
  <2>1. Has(whole, 0, head) /\ Has(whole, 0 + Len(head), body)
    BY <1>3, <1>12, <1>15, <1>16, HasParts
  <2>2. 0 + Len(head) = offset
    BY <1>12
  <2> QED
    BY <2>1, <2>2
<1>18. Has(whole, 0, s7)
  <2>1. Has(whole, 0, s7 \o gap)
    BY <1>12, <1>17
  <2> QED
    BY <1>11, <1>12, <1>15, <2>1, HasParts
<1>19. Has(whole, 0, s6) /\ Has(whole, 16, bitmap)
  <2>1. Has(whole, 0, s6 \o bitmap)
    BY <1>18 DEF s7
  <2>2. Has(whole, 0, s6) /\ Has(whole, 0 + Len(s6), bitmap)
    BY <1>1, <1>10, <1>15, <2>1, HasParts
  <2> QED
    BY <1>10, <2>2
<1>20. Has(whole, 0, s5)
  <2>1. Has(whole, 0, s5 \o f6)
    BY <1>19 DEF s6
  <2> QED
    BY <1>4, <1>9, <1>15, <2>1, HasParts
<1>21. Has(whole, 0, s4) /\ Has(whole, 10, f5)
  <2>1. Has(whole, 0, s4 \o f5)
    BY <1>20 DEF s5
  <2>2. Has(whole, 0, s4) /\ Has(whole, 0 + Len(s4), f5)
    BY <1>4, <1>8, <1>15, <2>1, HasParts
  <2> QED
    BY <1>8, <2>2
<1>22. Has(whole, 0, s3) /\ Has(whole, 6, f4)
  <2>1. Has(whole, 0, s3 \o f4)
    BY <1>21 DEF s4
  <2>2. Has(whole, 0, s3) /\ Has(whole, 0 + Len(s3), f4)
    BY <1>4, <1>7, <1>15, <2>1, HasParts
  <2> QED
    BY <1>7, <2>2
<1>23. Has(whole, 0, s2) /\ Has(whole, 5, f3)
  <2>1. Has(whole, 0, s2 \o f3)
    BY <1>22 DEF s3
  <2>2. Has(whole, 0, s2) /\ Has(whole, 0 + Len(s2), f3)
    BY <1>4, <1>6, <1>15, <2>1, HasParts
  <2> QED
    BY <1>6, <2>2
<1>24. Has(whole, 0, f1) /\ Has(whole, 4, f2)
  <2>1. Has(whole, 0, f1 \o f2)
    BY <1>23 DEF s2
  <2>2. Has(whole, 0, f1) /\ Has(whole, 0 + Len(f1), f2)
    BY <1>4, <1>15, <2>1, HasParts
  <2> QED
    BY <1>4, <2>2
<1>25. PackedParts(packed, whole)
  BY <1>17, <1>19, <1>21, <1>22, <1>23, <1>24
     DEF PackedParts, f1, f2, f3, f4, f5, body, bitmap, bits, size, offset
<1> QED
  BY <1>2, <1>12, <1>15, <1>25 DEF offset, bits, size

\* What is read of a serialized packed array is that array.
THEOREM PackedBytesRestore ==
  ASSUME NEW packed, Packable(packed)
  PROVE  Deserialize(Serialize(packed)) = {packed}
<1> DEFINE bytes  == Serialize(packed)
           size   == SizeOfPacked(packed)
           bits   == SizeOfBitmap(packed)
           offset == ValuesOffset(bits)
           n      == packed.length
           nulls  == [i \in 0 .. n - 1 |-> i % ByteBits \in bytes[17 + (i \div ByteBits)]]
           values == [k \in 0 .. size - 1 |-> bytes[offset + k + 1]]
<1>1. /\ bytes \in Buffers /\ Len(bytes) = offset + size
      /\ offset \in Nat /\ 16 + bits <= offset /\ PackedParts(packed, bytes)
  BY SerializedIs
<1>2. /\ n \in Nat /\ n < 2^(4 * ByteBits)
      /\ packed.width \in Nat /\ packed.width < 2^(1 * ByteBits)
      /\ size \in Nat /\ size < 2^(4 * ByteBits)
      /\ bits \in Nat /\ bits < 2^(4 * ByteBits)
      /\ (bits = 0 <=> packed.nulls = <<>>)
  BY SizesFit
<1> HIDE DEF bytes
<1>3. FieldAt(bytes, 0, 4) = n
  BY <1>1, <1>2, NumberIsFound DEF PackedParts
<1>4. FieldAt(bytes, 4, 1) = packed.width
  BY <1>1, <1>2, NumberIsFound DEF PackedParts
<1>5. FieldAt(bytes, 10, 4) = size
  BY <1>1, <1>2, NumberIsFound DEF PackedParts
<1>6. (IF FieldAt(bytes, 5, 1) = 0 THEN 0 ELSE FieldAt(bytes, 6, 4)) = bits
  <2> DEFINE flag == IF BitmapOf(packed) = <<>> THEN 0 ELSE 1
  <2>1. flag \in {0, 1} /\ (flag = 0 <=> bits = 0)
    BY <1>2, BitmapIs
  <2>2. flag < 2^(1 * ByteBits)
    <3>1. ByteBits \in Nat /\ ByteBits > 1 /\ 1 * ByteBits = ByteBits /\ WordBits \in Nat \ {0}
          /\ WordBits < 2^ByteBits
      BY SizesAreNumbers, FormatAssumption
    <3>2. 2^ByteBits \in Nat
      BY <3>1, PowersGrow
    <3> HIDE DEF flag
    <3> QED
      BY <2>1, <3>1, <3>2
  <2>3. Has(bytes, 5, Field(flag, 1)) /\ Has(bytes, 6, Field(bits, 4))
    BY <1>1 DEF PackedParts
  <2> HIDE DEF flag
  <2>4. FieldAt(bytes, 5, 1) = flag
    BY <2>1, <2>2, <2>3, NumberIsFound
  <2>5. FieldAt(bytes, 6, 4) = bits
    BY <1>2, <2>3, NumberIsFound
  <2> QED
    BY <2>1, <2>4, <2>5
<1>7. values = packed.bytes
  <2> DEFINE body == [k \in 1 .. size |-> packed.bytes[k - 1]]
  <2>1. Has(bytes, offset, body)
    BY <1>1 DEF PackedParts
  <2>2. Len(body) = size
    <3> HIDE DEF size
    <3> QED
      BY <1>2
  <2>3. ASSUME NEW k \in 0 .. size - 1 PROVE bytes[offset + k + 1] = packed.bytes[k]
    <3> HIDE DEF size, offset
    <3>1. k + 1 \in 1 .. size /\ (k + 1) - 1 = k /\ offset + (k + 1) = offset + k + 1
      BY <1>1, <1>2, <2>3
    <3>2. bytes[offset + (k + 1)] = body[k + 1]
      BY <2>1, <2>2, <3>1 DEF Has
    <3>3. body[k + 1] = packed.bytes[k]
      BY <3>1
    <3> QED
      BY <3>1, <3>2, <3>3
  <2>4. packed.bytes = [k \in 0 .. size - 1 |-> packed.bytes[k]]
    BY DEF Packable
  <2> QED
    BY <2>3, <2>4
<1>8. packed.nulls # <<>> => nulls = packed.nulls
  <2> SUFFICES ASSUME packed.nulls # <<>> PROVE nulls = packed.nulls
    OBVIOUS
  <2>1. packed.nulls \in [0 .. n - 1 -> BOOLEAN]
    BY DEF Packable
  <2>2. ASSUME NEW i \in 0 .. n - 1
        PROVE  (i % ByteBits \in bytes[17 + (i \div ByteBits)]) = packed.nulls[i]
    <3> DEFINE j == 1 + (i \div ByteBits)
    <3>1. j \in 1 .. bits /\ (i % ByteBits \in BitmapOf(packed)[j] <=> packed.nulls[i])
      BY BitmapIs
    <3>2. 16 + j = 17 + (i \div ByteBits)
      <4>1. i \div ByteBits \in Int
        BY SizesAreNumbers, Division
      <4> QED
        BY <4>1
    <3> HIDE DEF j
    <3>3. bytes[16 + j] = BitmapOf(packed)[j]
      <4>1. Has(bytes, 16, BitmapOf(packed)) /\ Len(BitmapOf(packed)) = bits
        BY <1>1, BitmapIs DEF PackedParts
      <4> QED
        BY <3>1, <4>1 DEF Has
    <3>4. packed.nulls[i] \in BOOLEAN
      BY <2>1
    <3> QED
      BY <3>1, <3>2, <3>3, <3>4
  <2>3. packed.nulls = [i \in 0 .. n - 1 |-> packed.nulls[i]]
    BY <2>1
  <2>4. nulls = [i \in 0 .. n - 1 |-> packed.nulls[i]]
    BY <2>2, Zenon
  <2> QED
    BY <2>3, <2>4, Zenon
<1>9. (IF bits = 0 THEN <<>> ELSE nulls) = packed.nulls
  BY <1>2, <1>8
<1>10. ~(Len(bytes) < 16) /\ ~(16 + bits > Len(bytes)) /\ ~(size > 0 /\ offset + size > Len(bytes))
  <2> HIDE DEF size, bits, offset
  <2> QED
    BY <1>1, <1>2
<1>11. packed = [length |-> n, width |-> packed.width, nulls |-> packed.nulls,
                 bytes |-> packed.bytes]
  BY DEF Packable
<1> HIDE DEF size, bits, n
<1>12. Deserialize(bytes) = {[length |-> n, width |-> packed.width,
                              nulls |-> IF bits = 0 THEN <<>> ELSE nulls, bytes |-> values]}
  BY <1>3, <1>4, <1>5, <1>6, <1>10 DEF Deserialize
<1> QED
  BY <1>7, <1>9, <1>11, <1>12 DEF bytes

\* The function of no arguments is the empty sequence.
LEMMA NothingIsEmpty ==
  ASSUME NEW n \in Int, n < 0, NEW S, NEW f \in [0 .. n -> S]
  PROVE  f = <<>>
<1>1. 0 .. n = {}
  OBVIOUS
<1>2. f \in [{} -> S]
  BY <1>1
<1>3. <<>> \in Seq(S) /\ DOMAIN (<<>>) = 1 .. 0
  OBVIOUS
<1>4. <<>> \in [{} -> S]
  BY <1>3
<1> QED
  BY <1>2, <1>4

\* What Pack makes of words and of the nulls of as many slots.
LEMMA PackIsPackable ==
  ASSUME NEW words \in Seq(SUBSET Int), Len(words) \in 0 .. MaxLength,
         NEW width \in 0 .. WordBits,
         NEW nulls, nulls = <<>> \/ nulls \in [0 .. Len(words) - 1 -> BOOLEAN]
  PROVE  /\ Packable(Pack(words, nulls, width))
         /\ Pack(words, nulls, width).length = Len(words)
         /\ Pack(words, nulls, width).width = width
         /\ Pack(words, nulls, width).nulls = nulls
<1> DEFINE n == Len(words)
           byte(k) == UNION {WrittenTo(k, i, words[i + 1], width) : i \in 0 .. n - 1}
           bytes == [k \in 0 .. CeilDiv(n * width, ByteBits) - 1 |-> byte(k)]
           packed == Pack(words, nulls, width)
<1>1. packed = [length |-> n, width |-> width, nulls |-> nulls, bytes |-> bytes]
  BY DEF Pack
<1>2. \A k \in Int : byte(k) \in SUBSET (0 .. ByteBits - 1)
  <2> TAKE k \in Int
  <2>1. ASSUME NEW i \in 0 .. n - 1
        PROVE  WrittenTo(k, i, words[i + 1], width) \in SUBSET (0 .. ByteBits - 1)
    <3>1. i \in Nat /\ words[i + 1] \in SUBSET Int
      OBVIOUS
    <3> QED
      BY <3>1, WritesBytes
  <2> QED
    BY <2>1
<1> HIDE DEF byte
<1>3. /\ packed.length = n /\ packed.width = width /\ packed.nulls = nulls
      /\ packed.bytes = bytes
  BY <1>1
<1>4. packed = [length |-> packed.length, width |-> packed.width, nulls |-> packed.nulls,
                bytes |-> packed.bytes]
  BY <1>1, <1>3
<1>5. n > 0 \/ nulls = <<>>
  <2>1. CASE n > 0
    BY <2>1
  <2>2. CASE ~(n > 0)
    <3>1. n - 1 \in Int /\ n - 1 < 0
      BY <2>2
    <3>2. nulls \in [0 .. n - 1 -> BOOLEAN] => nulls = <<>>
      BY <3>1, NothingIsEmpty
    <3> QED
      BY <3>2
  <2> QED
    BY <2>1, <2>2
<1>6. packed.bytes \in [0 .. SizeOfPacked(packed) - 1 -> SUBSET (0 .. ByteBits - 1)]
  BY <1>2, <1>3 DEF SizeOfPacked
<1> HIDE DEF packed, bytes
<1>7. Packable(packed)
  BY <1>3, <1>4, <1>5, <1>6 DEF Packable
<1> QED
  BY <1>3, <1>7 DEF packed

\* The nulls of a slice, and the words made of it.
LEMMA SliceIsPackable ==
  ASSUME NEW a, Length(a) \in 0 .. MaxLength, NEW f, NEW width \in 0 .. WordBits
  PROVE  /\ Words(a, f) \in Seq(SUBSET Int) /\ Len(Words(a, f)) = Length(a)
         /\ Packable(PackZeros(a))
         /\ Packable(Pack(Words(a, f), <<>>, width))
         /\ ByteSlice(a) =>
              Packable(Pack(Words(a, f), NullBits(a), width))
<1> DEFINE words == Words(a, f)
           zeros == [i \in 1 .. Length(a) |-> {}]
<1>1. words \in Seq(SUBSET Int) /\ Len(words) = Length(a)
  <2>1. \A i \in 1 .. Length(a) : Bits(f[i - 1]) \in SUBSET Int
    BY SizesAreNumbers DEF Bits
  <2> QED
    BY <2>1 DEF Words
<1>2. zeros \in Seq(SUBSET Int) /\ Len(zeros) = Length(a)
  OBVIOUS
<1>3. Packable(PackZeros(a))
  <2>1. AllNull(a) \in [0 .. Len(zeros) - 1 -> BOOLEAN]
    BY <1>2 DEF AllNull, Index
  <2>2. 0 \in 0 .. WordBits
    BY SizesAreNumbers
  <2> HIDE DEF zeros
  <2>3. Packable(Pack(zeros, AllNull(a), 0))
    BY <1>2, <2>1, <2>2, PackIsPackable
  <2> QED
    BY <2>3 DEF PackZeros, zeros
<1> HIDE DEF words
<1>4. Packable(Pack(words, <<>>, width))
  BY <1>1, PackIsPackable
<1>5. ASSUME ByteSlice(a)
      PROVE  Packable(Pack(words, NullBits(a), width))
  <2>1. NullBits(a) = <<>> \/ NullBits(a) \in [0 .. Len(words) - 1 -> BOOLEAN]
    <3> SUFFICES ASSUME NullBits(a) # <<>>
                 PROVE  NullBits(a) \in [0 .. Length(a) - 1 -> BOOLEAN]
      BY <1>1
    <3> DEFINE first == a.offset - (a.offset % ByteBits)
    <3>1. NullBits(a) = [i \in Index(a) |-> a.slots[first + i + 1].valid]
      BY DEF NullBits
    <3>2. first = a.offset
      BY <1>5 DEF ByteSlice
    <3>3. \A i \in Index(a) : a.slots[first + i + 1].valid \in BOOLEAN
      BY <1>5, <3>2 DEF SlotAt, ByteSlice
    <3>4. NullBits(a) \in [Index(a) -> BOOLEAN]
      BY <3>1, <3>3
    <3> QED
      BY <3>4 DEF Index
  <2> QED
    BY <1>1, <2>1, PackIsPackable
<1> QED
  BY <1>1, <1>3, <1>4, <1>5 DEF words

-----------------------------------------------------------------------------
(* Integers and linear models.                                             *)

\* What follows an aligned part is found where the part is said to end.
LEMMA AlignedThen ==
  ASSUME NEW s \in Buffers, NEW t \in Buffers
  PROVE  /\ Aligned(s) \o t \in Buffers
         /\ Len(Aligned(s) \o t) = Align8(Len(s)) + Len(t)
         /\ Align8(Len(s)) \in Nat /\ Len(s) <= Align8(Len(s)) /\ Len(s) \in Nat /\ Len(t) \in Nat
         /\ Has(Aligned(s) \o t, 0, s)
         /\ From(Aligned(s) \o t, Align8(Len(s))) = t
<1> DEFINE top == Align8(Len(s))
           gap == Zeros(top - Len(s))
           h == Aligned(s)
           w == h \o t
<1>1. /\ top \in Nat /\ Len(s) <= top /\ top - Len(s) \in Nat
      /\ h = s \o gap /\ h \in Buffers /\ Len(h) = top
  BY AlignedIs
<1>2. gap \in Buffers
  BY <1>1, PartsAre
<1> HIDE DEF gap, h, top
<1>3. h \o t \in Buffers /\ Len(h \o t) = Len(h) + Len(t) /\ Len(t) \in Nat
  BY <1>1, Appended
<1>4. Has(w, 0, h \o t)
  BY <1>3, HasItself
<1>5. From(h \o t, Len(h)) = t
  BY <1>1, FromIs
<1>6. w = h \o t
  OBVIOUS
<1> HIDE DEF w
<1>7. Has(w, 0, h)
  BY <1>1, <1>3, <1>4, <1>6, HasParts
<1>8. Has(w, 0, s)
  <2>1. Has(w, 0, s \o gap)
    BY <1>1, <1>7
  <2> QED
    BY <1>2, <1>3, <1>6, <2>1, HasParts
<1>9. Len(s) \in Nat
  BY DEF Buffers
<1> QED
  BY <1>1, <1>3, <1>5, <1>6, <1>8, <1>9 DEF w, h, top

\* Concatenations are grouped at will, and a part at the front is taken off.
LEMMA Regrouped ==
  ASSUME NEW r \in Buffers, NEW s \in Buffers, NEW t \in Buffers
  PROVE  /\ (r \o s) \o t = r \o (s \o t)
         /\ SubSeq(s \o t, 1, Len(s)) = s
<1>1. /\ s \o t \in Buffers /\ Len(s \o t) = Len(s) + Len(t)
      /\ r \o s \in Buffers /\ Len(r \o s) = Len(r) + Len(s)
      /\ Len(r) \in Nat /\ Len(s) \in Nat /\ Len(t) \in Nat
  BY Appended
<1>2. /\ (r \o s) \o t \in Buffers /\ Len((r \o s) \o t) = Len(r) + (Len(s) + Len(t))
      /\ r \o (s \o t) \in Buffers /\ Len(r \o (s \o t)) = Len(r) + (Len(s) + Len(t))
  <2>1. (r \o s) \o t \in Buffers /\ Len((r \o s) \o t) = Len(r \o s) + Len(t)
    BY <1>1, Appended
  <2>2. r \o (s \o t) \in Buffers /\ Len(r \o (s \o t)) = Len(r) + Len(s \o t)
    BY <1>1, Appended
  <2> QED
    BY <1>1, <2>1, <2>2
<1>3. \A k \in 1 .. Len(r) + (Len(s) + Len(t)) : ((r \o s) \o t)[k] = (r \o (s \o t))[k]
  BY <1>1 DEF Buffers
<1>4. (r \o s) \o t = r \o (s \o t)
  <2> DEFINE u == (r \o s) \o t
             v == r \o (s \o t)
             n == Len(r) + (Len(s) + Len(t))
  <2>1. /\ u \in Seq(SUBSET Int) /\ v \in Seq(SUBSET Int) /\ Len(u) = n /\ Len(v) = n
        /\ \A k \in 1 .. n : u[k] = v[k]
    BY <1>2, <1>3 DEF Buffers
  <2> HIDE DEF u, v, n
  <2>2. u = v
    BY <2>1
  <2> QED
    BY <2>2 DEF u, v
<1>5. SubSeq(s \o t, 1, Len(s)) = s
  <2> DEFINE u == s \o t
             v == SubSeq(u, 1, Len(s))
  <2>1. /\ u \in Seq(SUBSET Int) /\ s \in Seq(SUBSET Int) /\ Len(u) = Len(s) + Len(t)
        /\ \A k \in 1 .. Len(s) : u[k] = s[k]
    BY <1>1, Concatenated DEF Buffers
  <2> HIDE DEF u
  <2>2. v \in Seq(SUBSET Int) /\ Len(v) = Len(s) /\ \A k \in 1 .. Len(s) : v[k] = u[k]
    BY <1>1, <2>1
  <2> HIDE DEF v
  <2>3. v = s
    BY <1>1, <2>1, <2>2
  <2> QED
    BY <2>3 DEF v, u
<1> QED
  BY <1>4, <1>5

\* A type of whole bytes.
WholeType(t) == IntegerType(t) /\ SizeOf(t) \in Nat \ {0} /\ SizeOf(t) * ByteBits = t.bits

\* An encoded array of such a type.
IntegerLiquid(liquid, t) ==
  /\ liquid = [reference |-> liquid.reference, packed |-> liquid.packed]
  /\ ValueOf(liquid.reference, t) /\ Packable(liquid.packed)

\* What is read of an encoded array's bytes is that array.
THEOREM PrimitiveBytesRestore ==
  ASSUME NEW t, WholeType(t), NEW liquid, IntegerLiquid(liquid, t), NEW physical \in Physicals
  PROVE  /\ PrimitiveToBytes(liquid, t, physical) \in Buffers
         /\ ReadHeader(PrimitiveToBytes(liquid, t, physical))
              = {[logical |-> LogicalId("Integer"), physical |-> PhysicalId(physical)]}
         /\ PrimitiveFromBytes(PrimitiveToBytes(liquid, t, physical), t) = {liquid}
<1> DEFINE size == SizeOf(t)
           head == Header("Integer", physical)
           ref  == Field(liquid.reference, size)
           s    == head \o ref
           tail == Serialize(liquid.packed)
           bytes == Aligned(s) \o tail
<1>1. size \in Nat /\ IntegerType(t) /\ size * ByteBits = t.bits
  BY DEF WholeType
<1>2. ValueOf(liquid.reference, t) /\ Packable(liquid.packed)
      /\ liquid = [reference |-> liquid.reference, packed |-> liquid.packed]
  BY DEF IntegerLiquid
<1>3. PrimitiveToBytes(liquid, t, physical) = bytes
  BY DEF PrimitiveToBytes
<1>4. head \in Buffers /\ Len(head) = 16 /\ ref \in Buffers /\ Len(ref) = size
      /\ tail \in Buffers
  BY <1>1, <1>2, HeaderIs, PartsAre, SerializedIs
<1>5. Deserialize(tail) = {liquid.packed}
  BY <1>2, PackedBytesRestore
<1> HIDE DEF size, head, ref, tail
<1>6. s \in Buffers /\ Len(s) = 16 + size
  <2>1. head \o ref \in Buffers /\ Len(head \o ref) = Len(head) + Len(ref)
    BY <1>4, Appended
  <2> QED
    BY <1>4, <2>1
<1> HIDE DEF s
<1>7. /\ bytes \in Buffers /\ Len(bytes) = Align8(Len(s)) + Len(tail)
      /\ Align8(Len(s)) \in Nat /\ Len(s) <= Align8(Len(s)) /\ Len(tail) \in Nat
      /\ Has(bytes, 0, s) /\ From(bytes, Align8(Len(s))) = tail
  BY <1>4, <1>6, AlignedThen
<1> HIDE DEF bytes
<1>8. Has(bytes, 0, head) /\ Has(bytes, 16, ref)
  <2>1. Has(bytes, 0, head \o ref)
    BY <1>7 DEF s
  <2>2. Has(bytes, 0, head) /\ Has(bytes, 0 + Len(head), ref)
    BY <1>4, <1>7, <2>1, HasParts
  <2> QED
    BY <1>4, <2>2
<1>9. "Integer" \in Logicals
  BY DEF Logicals, LiquidDataTypes
<1>10. /\ ReadHeader(bytes)
            = {[logical |-> LogicalId("Integer"), physical |-> PhysicalId(physical)]}
       /\ IsOfType(bytes, "Integer")
  BY <1>7, <1>8, <1>9, HeaderIsRead DEF head
<1>11. Native(FieldAt(bytes, 16, size), t) = liquid.reference
  BY <1>1, <1>2, <1>8, ValueIsFound DEF ref
<1>12. ~(16 + size > Len(bytes))
  BY <1>1, <1>6, <1>7
<1>13. From(bytes, Align8(16 + size)) = tail
  BY <1>6, <1>7
<1>14. PrimitiveFromBytes(bytes, t)
         = {[reference |-> Native(FieldAt(bytes, 16, size), t), packed |-> packed] :
              packed \in Deserialize(From(bytes, Align8(16 + size)))}
  BY <1>10, <1>12 DEF PrimitiveFromBytes, size
<1>15. PrimitiveFromBytes(bytes, t) = {liquid}
  BY <1>2, <1>5, <1>11, <1>13, <1>14
<1> QED
  BY <1>3, <1>7, <1>10, <1>15

\* Only the header names the physical type: another one put in its place makes
\* the bytes those of an array of that type.
LEMMA PhysicalIsReplaced ==
  ASSUME NEW t, WholeType(t), NEW liquid, IntegerLiquid(liquid, t),
         NEW p \in Physicals, NEW q \in Physicals
  PROVE  WithPhysical(PrimitiveToBytes(liquid, t, p), q) = PrimitiveToBytes(liquid, t, q)
<1> DEFINE size == SizeOf(t)
           ref  == Field(liquid.reference, size)
           head(x) == Header("Integer", x)
           gap  == Zeros(Align8(16 + size) - (16 + size))
           tail == Serialize(liquid.packed)
           bytes(x) == ((head(x) \o ref) \o gap) \o tail
<1>1. size \in Nat /\ Packable(liquid.packed)
  BY DEF WholeType, IntegerLiquid
<1>2. ref \in Buffers /\ Len(ref) = size /\ tail \in Buffers
  BY <1>1, PartsAre, SerializedIs
<1>3. ASSUME NEW x
      PROVE  /\ head(x) \in Buffers /\ Len(head(x)) = 16
             /\ PrimitiveToBytes(liquid, t, x) = bytes(x)
             /\ gap \in Buffers
  <2> DEFINE h == head(x)
             s == h \o ref
  <2>1. h \in Buffers /\ Len(h) = 16
    BY HeaderIs
  <2>2. PrimitiveToBytes(liquid, t, x) = Aligned(s) \o tail
    BY DEF PrimitiveToBytes
  <2> HIDE DEF h, ref, tail, size
  <2>3. s \in Buffers /\ Len(s) = 16 + size
    <3>1. h \o ref \in Buffers /\ Len(h \o ref) = Len(h) + Len(ref)
      BY <1>2, <2>1, Appended
    <3> QED
      BY <1>2, <2>1, <3>1
  <2> HIDE DEF s
  <2>4. Aligned(s) = s \o Zeros(Align8(Len(s)) - Len(s)) /\ Align8(Len(s)) - Len(s) \in Nat
    BY <2>3, AlignedIs
  <2>5. gap \in Buffers
    BY <2>3, <2>4, PartsAre
  <2>6. Aligned(s) = s \o gap
    BY <2>3, <2>4
  <2>7. Aligned(s) \o tail = bytes(x)
    BY <2>6 DEF s, h
  <2> QED
    BY <2>1, <2>2, <2>5, <2>7 DEF h
<1> DEFINE m == Field(Magic, 4)
           v == Field(Version, 2)
           l == Field(LogicalId("Integer"), 2)
           id(x) == Field(PhysicalId(x), 2)
           z == Zeros(6)
           front == (m \o v) \o l
           back  == ((z \o ref) \o gap) \o tail
<1>4. /\ m \in Buffers /\ Len(m) = 4 /\ v \in Buffers /\ Len(v) = 2
      /\ l \in Buffers /\ Len(l) = 2 /\ z \in Buffers
      /\ id(p) \in Buffers /\ Len(id(p)) = 2 /\ id(q) \in Buffers /\ Len(id(q)) = 2
  BY PartsAre
<1>5. \A x : head(x) = (front \o id(x)) \o z
  BY DEF Header
<1>6. front \in Buffers /\ Len(front) = 8
  <2> HIDE DEF m, v, l
  <2>1. m \o v \in Buffers /\ Len(m \o v) = Len(m) + Len(v)
    BY <1>4, Appended
  <2>2. (m \o v) \o l \in Buffers /\ Len((m \o v) \o l) = Len(m \o v) + Len(l)
    BY <1>4, <2>1, Appended
  <2> QED
    BY <1>4, <2>1, <2>2
<1>7. gap \in Buffers
  BY <1>3
<1> HIDE DEF front, ref, gap, tail, z, id, head
<1>8. ASSUME NEW x \in {p, q}
      PROVE  bytes(x) = (front \o id(x)) \o back
  <2>1. head(x) = (front \o id(x)) \o z /\ id(x) \in Buffers
    BY <1>4, <1>5
  <2> DEFINE u == front \o id(x)
  <2>2. u \in Buffers
    BY <1>6, <2>1, Appended
  <2>3. bytes(x) = (((u \o z) \o ref) \o gap) \o tail
    BY <2>1
  <2> HIDE DEF u
  <2>4. z \o ref \in Buffers /\ (z \o ref) \o gap \in Buffers
    <3>1. z \o ref \in Buffers
      BY <1>2, <1>4, Appended
    <3> QED
      BY <1>7, <3>1, Appended
  <2>5. (u \o z) \o ref = u \o (z \o ref)
    <3>1. \A r, s, b \in Buffers : (r \o s) \o b = r \o (s \o b)
      BY Regrouped
    <3>2. u \in Buffers /\ z \in Buffers /\ ref \in Buffers
      BY <1>2, <1>4, <2>2
    <3> QED
      BY <3>1, <3>2, Zenon
  <2>6. (u \o (z \o ref)) \o gap = u \o ((z \o ref) \o gap)
    BY <1>7, <2>2, <2>4, Regrouped
  <2>7. (u \o ((z \o ref) \o gap)) \o tail = u \o (((z \o ref) \o gap) \o tail)
    BY <1>2, <2>2, <2>4, Regrouped
  <2>8. bytes(x) = u \o back
    BY <2>3, <2>5, <2>6, <2>7
  <2> QED
    BY <2>8 DEF u
<1>9. back \in Buffers
  <2>1. z \o ref \in Buffers
    BY <1>2, <1>4, Appended
  <2>2. (z \o ref) \o gap \in Buffers
    BY <1>7, <2>1, Appended
  <2> QED
    BY <1>2, <2>2, Appended
<1> HIDE DEF back, bytes
<1>10. /\ SubSeq((front \o id(p)) \o back, 1, 8) = front
       /\ From((front \o id(p)) \o back, 10) = back
  <2> DEFINE u == front \o id(p)
  <2>1. u \in Buffers /\ Len(u) = 10
    <3>1. front \o id(p) \in Buffers /\ Len(front \o id(p)) = Len(front) + Len(id(p))
      BY <1>4, <1>6, Appended
    <3> QED
      BY <1>4, <1>6, <3>1
  <2>2. From(u \o back, Len(u)) = back
    <3> HIDE DEF u
    <3> QED
      BY <1>9, <2>1, FromIs
  <2>3. SubSeq(u \o back, 1, 8) = front
    <3>1. u \o back = front \o (id(p) \o back)
      <4>1. \A r, s, b \in Buffers : (r \o s) \o b = r \o (s \o b)
        BY Regrouped
      <4>2. front \in Buffers /\ id(p) \in Buffers /\ back \in Buffers
        BY <1>4, <1>6, <1>9
      <4> QED
        BY <4>1, <4>2, Zenon
    <3>2. id(p) \o back \in Buffers
      BY <1>4, <1>9, Appended
    <3>3. SubSeq(front \o (id(p) \o back), 1, Len(front)) = front
      BY <1>6, <3>2, Regrouped
    <3> QED
      BY <1>6, <3>1, <3>3
  <2> QED
    BY <2>1, <2>2, <2>3
<1>11. WithPhysical(bytes(p), q) = (front \o id(q)) \o back
  BY <1>8, <1>10 DEF WithPhysical, id
<1>12. PrimitiveToBytes(liquid, t, p) = bytes(p) /\ PrimitiveToBytes(liquid, t, q) = bytes(q)
  BY <1>3
<1>13. bytes(q) = (front \o id(q)) \o back
  BY <1>8
<1> QED
  BY <1>11, <1>12, <1>13

\* A line and encoded residuals.
LinearLiquid(liquid) ==
  /\ liquid = [line |-> [slope |-> liquid.line.slope, intercept |-> liquid.line.intercept],
               residuals |-> liquid.residuals]
  /\ liquid.line.slope \in Int /\ liquid.line.intercept \in Int
  /\ IntegerLiquid(liquid.residuals, Int64)

\* int64_t has whole bytes.
LEMMA ResidualsAreWhole == WholeType(Int64)
<1>1. WordBytes \in Nat \ {0} /\ ByteBits \in Nat \ {0} /\ WordBits = WordBytes * ByteBits
  BY SizesAreNumbers
<1>2. Int64.bits = WordBits
  BY DEF Int64
<1>3. SizeOf(Int64) = WordBytes
  BY <1>1, <1>2, MultipleDivided DEF SizeOf
<1>4. IntegerType(Int64)
  BY ResidualType
<1> QED
  BY <1>1, <1>2, <1>3, <1>4 DEF WholeType

\* What is read of a linear model's bytes is that model.
THEOREM LinearBytesOfModelRestore ==
  ASSUME NEW liquid, LinearLiquid(liquid), NEW physical \in Physicals
  PROVE  /\ LinearToBytes(liquid, physical) \in Buffers
         /\ ReadHeader(LinearToBytes(liquid, physical))
              = {[logical |-> LogicalId("LinearInteger"), physical |-> PhysicalId(physical)]}
         /\ LinearFromBytes(LinearToBytes(liquid, physical)) = {liquid}
<1> DEFINE head  == Header("LinearInteger", physical)
           f1    == Float(liquid.line.intercept, 8)
           f2    == Float(liquid.line.slope, 8)
           s     == f1 \o f2
           line  == Aligned(s)
           front == head \o line
           tail  == PrimitiveToBytes(liquid.residuals, Int64, "Int64")
           bytes == front \o tail
<1>1. /\ liquid.line.slope \in Int /\ liquid.line.intercept \in Int
      /\ IntegerLiquid(liquid.residuals, Int64)
  BY DEF LinearLiquid
<1>2. LinearToBytes(liquid, physical) = bytes
  BY DEF LinearToBytes
<1>3. "Int64" \in Physicals
  BY DEF Physicals, PhysicalTypes
<1>4. /\ tail \in Buffers
      /\ PrimitiveFromBytes(tail, Int64) = {liquid.residuals}
  BY <1>1, <1>3, ResidualsAreWhole, PrimitiveBytesRestore
<1>5. head \in Buffers /\ Len(head) = 16
  BY HeaderIs
<1>6. /\ f1 \in Buffers /\ Len(f1) = 8 /\ f2 \in Buffers /\ Len(f2) = 8
      /\ \A b, o : Has(b, o, f1) => FloatAt(b, o) = liquid.line.intercept
      /\ \A b, o : Has(b, o, f2) => FloatAt(b, o) = liquid.line.slope
  <2>1. ASSUME NEW v \in Int
        PROVE  /\ Float(v, 8) \in Buffers /\ Len(Float(v, 8)) = 8
               /\ \A b, o : Has(b, o, Float(v, 8)) => FloatAt(b, o) = v
    <3>1. 8 \in Nat \ {0}
      OBVIOUS
    <3> QED
      BY <3>1, FloatIs
  <2> QED
    BY <1>1, <2>1
<1> HIDE DEF head, f1, f2, tail
<1>7. s \in Buffers /\ Len(s) = 16
  <2>1. f1 \o f2 \in Buffers /\ Len(f1 \o f2) = Len(f1) + Len(f2)
    BY <1>6, Appended
  <2> QED
    BY <1>6, <2>1
<1> HIDE DEF s
<1>8. Align8(16) = 16 /\ Align8(32) = 32
  BY DEF Align8, CeilDiv
<1>9. /\ line \in Buffers /\ Len(line) = 16
      /\ \A b \in Buffers, o \in Nat : Has(b, o, line) => Has(b, o, s)
  <2> DEFINE gap == Zeros(Align8(Len(s)) - Len(s))
  <2>1. /\ line \in Buffers /\ Len(line) = Align8(Len(s)) /\ line = s \o gap
        /\ Align8(Len(s)) - Len(s) \in Nat
    BY <1>7, AlignedIs
  <2>2. gap \in Buffers
    BY <2>1, PartsAre
  <2> HIDE DEF line, gap
  <2>3. ASSUME NEW b \in Buffers, NEW o \in Nat, Has(b, o, line)
        PROVE  Has(b, o, s)
    <3>1. Has(b, o, s \o gap)
      BY <2>1, <2>3
    <3> QED
      BY <1>7, <2>2, <3>1, HasParts
  <2> QED
    BY <1>7, <1>8, <2>1, <2>3
<1> HIDE DEF line
<1>10. front \in Buffers /\ Len(front) = 32
  <2>1. head \o line \in Buffers /\ Len(head \o line) = Len(head) + Len(line)
    BY <1>5, <1>9, Appended
  <2> QED
    BY <1>5, <1>9, <2>1
<1>11. bytes \in Buffers /\ From(bytes, 32) = tail
  <2> HIDE DEF front
  <2>1. front \o tail \in Buffers
    BY <1>4, <1>10, Appended
  <2>2. From(front \o tail, Len(front)) = tail
    BY <1>4, <1>10, FromIs
  <2> QED
    BY <1>10, <2>1, <2>2
<1>12. Has(bytes, 0, head) /\ Has(bytes, 16, f1) /\ Has(bytes, 24, f2)
  <2>1. Has(bytes, 0, front \o tail)
    BY <1>11, HasItself
  <2> HIDE DEF bytes, front
  <2>2. Has(bytes, 0, front)
    BY <1>4, <1>10, <1>11, <2>1, HasParts
  <2>3. Has(bytes, 0, head \o line)
    BY <2>2 DEF front
  <2>4. Has(bytes, 0, head) /\ Has(bytes, 0 + Len(head), line)
    BY <1>5, <1>9, <1>11, <2>3, HasParts
  <2>5. Has(bytes, 16, line)
    BY <1>5, <2>4
  <2>6. Has(bytes, 16, f1 \o f2)
    BY <1>9, <1>11, <2>5 DEF s
  <2>7. Has(bytes, 16, f1) /\ Has(bytes, 16 + Len(f1), f2)
    BY <1>6, <1>11, <2>6, HasParts
  <2> QED
    BY <1>6, <2>4, <2>7
<1> HIDE DEF bytes
<1>13. "LinearInteger" \in Logicals
  BY DEF Logicals, LiquidDataTypes
<1>14. /\ ReadHeader(bytes)
            = {[logical |-> LogicalId("LinearInteger"), physical |-> PhysicalId(physical)]}
       /\ IsOfType(bytes, "LinearInteger")
  BY <1>11, <1>12, <1>13, HeaderIsRead DEF head
<1>15. FloatAt(bytes, 16) = liquid.line.intercept /\ FloatAt(bytes, 24) = liquid.line.slope
  BY <1>6, <1>12
<1>16. LinearFromBytes(bytes)
         = {[line |-> [slope |-> FloatAt(bytes, 24), intercept |-> FloatAt(bytes, 16)],
             residuals |-> residuals] : residuals \in PrimitiveFromBytes(From(bytes, 32), Int64)}
  BY <1>8, <1>14 DEF LinearFromBytes
<1>17. LinearFromBytes(bytes) = {liquid}
  BY <1>4, <1>11, <1>15, <1>16 DEF LinearLiquid
<1> QED
  BY <1>2, <1>11, <1>14, <1>17

-----------------------------------------------------------------------------
(* Sequences in a row.                                                     *)

\* Sequences are equal if their elements are.
LEMMA SameSequence ==
  ASSUME NEW S, NEW s \in Seq(S), NEW t \in Seq(S), NEW n, Len(s) = n, Len(t) = n,
         \A k \in 1 .. n : s[k] = t[k]
  PROVE  s = t
  OBVIOUS

\* Sequences of any elements, in a row or cut off.
LEMMA SequenceParts ==
  ASSUME NEW S, NEW s \in Seq(S), NEW t \in Seq(S)
  PROVE  /\ s \o t \in Seq(S) /\ Len(s \o t) = Len(s) + Len(t)
         /\ Len(s) \in Nat /\ Len(t) \in Nat
         /\ \A k \in 1 .. Len(s) : (s \o t)[k] = s[k]
         /\ \A k \in 1 .. Len(t) : (s \o t)[Len(s) + k] = t[k]
         /\ \A n \in 0 .. Len(s) : /\ SubSeq(s, 1, n) \in Seq(S) /\ Len(SubSeq(s, 1, n)) = n
                                  /\ \A k \in 1 .. n : SubSeq(s, 1, n)[k] = s[k]
  OBVIOUS

\* Two sequences in a row stand where the first does.
LEMMA Extended ==
  ASSUME NEW S, NEW v \in Seq(S), NEW s \in Seq(S), NEW r, Len(r) \in Nat,
         Has(r, 0, v), Has(r, Len(v), s)
  PROVE  Has(r, 0, v \o s)
<1>1. Len(v) \in Nat /\ Len(s) \in Nat /\ Len(v \o s) = Len(v) + Len(s)
  BY SequenceParts
<1>2. ASSUME NEW k \in 1 .. Len(v) + Len(s) PROVE r[0 + k] = (v \o s)[k]
  <2>1. CASE k <= Len(v)
    <3>1. k \in 1 .. Len(v)
      BY <1>1, <2>1
    <3>2. (v \o s)[k] = v[k]
      BY <3>1, SequenceParts
    <3> QED
      BY <3>1, <3>2 DEF Has
  <2>2. CASE k > Len(v)
    <3> DEFINE j == k - Len(v)
    <3>1. j \in 1 .. Len(s) /\ k = Len(v) + j
      BY <1>1, <2>2
    <3> HIDE DEF j
    <3>2. (v \o s)[Len(v) + j] = s[j]
      BY <3>1, SequenceParts
    <3>3. r[Len(v) + j] = s[j]
      BY <3>1 DEF Has
    <3> QED
      BY <1>1, <3>1, <3>2, <3>3
  <2> QED
    BY <1>1, <2>1, <2>2
<1>3. 0 + Len(v \o s) <= Len(r)
  BY <1>1 DEF Has
<1> QED
  BY <1>1, <1>2, <1>3 DEF Has

\* FlattenSeq of sequences that end at e is what has each of them there.
LEMMA Flattened ==
  ASSUME NEW S, NEW n \in Nat, NEW seqs \in [1 .. n -> Seq(S)], NEW e \in [0 .. n -> Nat],
         NEW r \in Seq(S), e[0] = 0, e[n] = Len(r),
         \A j \in 1 .. n : e[j] = e[j - 1] + Len(seqs[j]) /\ Has(r, e[j - 1], seqs[j])
  PROVE  Seqs!FlattenSeq(seqs) = r
<1> DEFINE step(g) == [i \in 1 .. n |-> IF i = 1 THEN seqs[i] ELSE g[i - 1] \o seqs[i]]
           f == CHOOSE g : g = step(g)
           upTo == [i \in 1 .. n |-> SubSeq(r, 1, e[i])]
           bad == {i \in Nat : i \in 1 .. n /\ f[i] # upTo[i]}
<1>1. Len(seqs) = n
  OBVIOUS
<1>2. CASE n = 0
  <2>1. Len(seqs) = 0 /\ Len(r) = 0
    BY <1>1, <1>2
  <2>2. seqs = <<>> /\ r = <<>>
    <3>1. seqs = [i \in 1 .. 0 |-> seqs[i]] /\ seqs = <<>>
      BY <1>2
    <3>2. \A k \in 1 .. 0 : r[k] = (<<>>)[k]
      OBVIOUS
    <3>3. <<>> \in Seq(S) /\ Len(<<>>) = 0
      OBVIOUS
    <3>4. r = <<>>
      BY <2>1, <3>2, <3>3, SameSequence
    <3> QED
      BY <3>1, <3>4
  <2> QED
    BY <2>1, <2>2 DEF Seqs!FlattenSeq
<1>3. CASE n # 0
  <2>1. Seqs!FlattenSeq(seqs) = f[n]
    BY <1>1, <1>3 DEF Seqs!FlattenSeq
  <2>2. \A i \in 1 .. n : upTo[i] \in Seq(S) /\ Len(upTo[i]) = e[i]
                          /\ \A k \in 1 .. e[i] : upTo[i][k] = r[k]
    <3> TAKE i \in 1 .. n
    <3> DEFINE m == e[i]
    <3>1. m \in 0 .. Len(r)
      <4>1. e[i] = e[i - 1] + Len(seqs[i]) /\ Has(r, e[i - 1], seqs[i])
        OBVIOUS
      <4>2. e[i] \in Nat /\ Len(r) \in Nat
        OBVIOUS
      <4> QED
        BY <4>1, <4>2 DEF Has
    <3>2. upTo[i] = SubSeq(r, 1, m)
      OBVIOUS
    <3> HIDE DEF m, upTo
    <3>3. /\ SubSeq(r, 1, m) \in Seq(S) /\ Len(SubSeq(r, 1, m)) = m
          /\ \A k \in 1 .. m : SubSeq(r, 1, m)[k] = r[k]
      BY <3>1, SequenceParts
    <3> QED
      BY <3>2, <3>3 DEF m
  <2> HIDE DEF upTo
  <2>3. ASSUME NEW i \in 1 .. n
        PROVE  upTo[i] = IF i = 1 THEN seqs[i] ELSE upTo[i - 1] \o seqs[i]
    <3> DEFINE s == seqs[i]
               u == upTo[i]
    <3>1. /\ s \in Seq(S) /\ e[i] = e[i - 1] + Len(s) /\ e[i - 1] \in Nat /\ Len(s) \in Nat
          /\ Has(r, e[i - 1], s)
      OBVIOUS
    <3>2. u \in Seq(S) /\ Len(u) = e[i] /\ \A k \in 1 .. e[i] : u[k] = r[k]
      BY <2>2
    <3> HIDE DEF s, u
    <3>3. CASE i = 1
      <4>1. e[i - 1] = 0
        BY <3>3
      <4>2. Len(u) = Len(s) /\ \A k \in 1 .. Len(s) : u[k] = s[k]
        BY <3>1, <3>2, <4>1 DEF Has
      <4>3. u = s
        BY <3>1, <3>2, <4>2, SameSequence
      <4> QED
        BY <3>3, <4>3 DEF u, s
    <3>4. CASE i # 1
      <4> DEFINE v == upTo[i - 1]
                 w == v \o s
      <4>1. i - 1 \in 1 .. n
        BY <3>4
      <4>2. v \in Seq(S) /\ Len(v) = e[i - 1] /\ \A k \in 1 .. e[i - 1] : v[k] = r[k]
        BY <2>2, <4>1
      <4> HIDE DEF v
      <4>3. Len(r) \in Nat /\ Has(r, 0, v) /\ Has(r, Len(v), s)
        BY <3>1, <4>2 DEF Has
      <4>4. Has(r, 0, w)
        BY <3>1, <4>2, <4>3, Extended
      <4>5. w \in Seq(S) /\ Len(w) = Len(v) + Len(s)
        <5>1. \A x, y \in Seq(S) : x \o y \in Seq(S) /\ Len(x \o y) = Len(x) + Len(y)
          OBVIOUS
        <5>2. v \in Seq(S) /\ s \in Seq(S)
          BY <3>1, <4>2
        <5> QED
          BY <5>1, <5>2, Zenon
      <4> HIDE DEF w
      <4>6. Len(w) = Len(u) /\ \A k \in 1 .. Len(u) : u[k] = w[k]
        <5>1. Len(w) = e[i]
          BY <3>1, <4>2, <4>5
        <5>2. Len(w) = Len(u)
          BY <3>2, <5>1
        <5>3. ASSUME NEW k \in 1 .. Len(u) PROVE u[k] = w[k]
          <6>1. k \in 1 .. e[i] /\ k \in 1 .. Len(w) /\ 0 + k = k
            BY <3>2, <5>1
          <6>2. u[k] = r[k]
            BY <3>2, <6>1
          <6>3. r[0 + k] = w[k]
            BY <4>4, <6>1 DEF Has
          <6> QED
            BY <6>1, <6>2, <6>3
        <5> QED
          BY <5>2, <5>3
      <4>7. u = w
        BY <3>2, <4>5, <4>6, SameSequence
      <4> QED
        BY <3>4, <4>7 DEF u, w, v, s
    <3> QED
      BY <3>3, <3>4
  <2>4. upTo = step(upTo)
    <3>1. upTo = [i \in 1 .. n |-> upTo[i]]
      BY DEF upTo
    <3> QED
      BY <2>3, <3>1
  <2>5. f = step(f)
    BY <2>4
  <2> HIDE DEF f
  <2>6. \A i \in 1 .. n : f[i] = IF i = 1 THEN seqs[i] ELSE f[i - 1] \o seqs[i]
    BY <2>5
  <2>7. ASSUME bad # {} PROVE FALSE
    <3>1. PICK i \in bad : \A j \in bad : i <= j
      BY <2>7, LeastElement
    <3>2. i \in 1 .. n /\ f[i] # upTo[i]
      BY <3>1
    <3>3. CASE i = 1
      BY <2>3, <2>6, <3>2, <3>3
    <3>4. CASE i # 1
      <4>1. i - 1 \in 1 .. n /\ i - 1 \in Nat /\ ~(i <= i - 1)
        BY <3>2, <3>4
      <4>2. i - 1 \notin bad
        <5> HIDE DEF bad
        <5> QED
          BY <3>1, <4>1
      <4>3. f[i - 1] = upTo[i - 1]
        BY <4>1, <4>2
      <4> QED
        BY <2>3, <2>6, <3>2, <3>4, <4>3
    <3> QED
      BY <3>3, <3>4
  <2>8. f[n] = upTo[n]
    <3>1. n \in 1 .. n /\ n \in Nat
      BY <1>3
    <3>2. n \notin bad
      BY <2>7
    <3> QED
      BY <3>1, <3>2
  <2>9. upTo[n] = r
    <3>1. n \in 1 .. n
      BY <1>3
    <3>2. upTo[n] \in Seq(S) /\ Len(upTo[n]) = Len(r) /\ \A k \in 1 .. Len(r) : upTo[n][k] = r[k]
      BY <2>2, <3>1
    <3> QED
      BY <3>2, SameSequence
  <2> QED
    BY <2>1, <2>8, <2>9
<1> QED
  BY <1>2, <1>3

\* Sequences of one size.
OfSize(S, size) == {s \in Seq(S) : Len(s) = size}

\* In a row they are found at multiples of their size.
Spread(flat, S, seqs, n, size) ==
  /\ flat \in Seq(S)
  /\ n * size \in Nat /\ Len(flat) = n * size
  /\ \A j \in 1 .. n : /\ (j - 1) * size \in Nat /\ (j - 1) * size + size <= n * size
                       /\ \A k \in 1 .. size : flat[(j - 1) * size + k] = seqs[j][k]

\* They are found at its multiples.
LEMMA FlattenedAtMultiples ==
  ASSUME NEW S, NEW n \in Nat, NEW size \in Nat \ {0}, NEW seqs \in [1 .. n -> Seq(S)],
         \A j \in 1 .. n : Len(seqs[j]) = size
  PROVE  Spread(Seqs!FlattenSeq(seqs), S, seqs, n, size)
<1> DEFINE top == n * size
           r == [i \in 1 .. top |-> seqs[1 + ((i - 1) \div size)][1 + ((i - 1) % size)]]
           e == [j \in 0 .. n |-> j * size]
<1>1. top \in Nat
  OBVIOUS
<1>2. ASSUME NEW j \in 1 .. n
      PROVE  /\ (j - 1) * size \in Nat /\ (j - 1) * size + size <= top
             /\ j * size = (j - 1) * size + size
  <2>1. j - 1 \in Int /\ n \in Int /\ j - 1 < n /\ size \in Nat
    OBVIOUS
  <2>2. (j - 1) * size + size <= n * size
    BY <2>1, BlockOf
  <2> QED
    BY <2>2
<1>3. ASSUME NEW j \in 1 .. n, NEW k \in 1 .. size
      PROVE  (j - 1) * size + k \in 1 .. top /\ r[(j - 1) * size + k] = seqs[j][k]
  <2> DEFINE b == (j - 1) * size
             i == b + k
             q == (i - 1) \div size
             x == (i - 1) % size
  <2>1. b \in Nat /\ b + size <= top
    BY <1>2
  <2> HIDE DEF b, top
  <2>2. i \in 1 .. top /\ i - 1 \in Int
    BY <1>1, <2>1
  <2>3. r[i] = seqs[1 + q][1 + x]
    BY <2>2
  <2>4. q \in Int /\ x \in 0 .. size - 1 /\ i - 1 = q * size + x
    BY <2>2, Division
  <2>5. i - 1 = b + (k - 1)
    BY <2>1
  <2> HIDE DEF q, x, i, r
  <2>6. q * size + x = (j - 1) * size + (k - 1)
    BY <2>4, <2>5 DEF b
  <2>7. q = j - 1 /\ x = k - 1
    <3>1. j - 1 \in Int /\ k - 1 \in 0 .. size - 1 /\ size \in Nat
      OBVIOUS
    <3> QED
      BY <2>4, <2>6, <3>1, OneBlock
  <2>8. 1 + q = j /\ 1 + x = k
    BY <2>7
  <2> QED
    BY <2>2, <2>3, <2>8 DEF i, b
<1>4. r \in Seq(S) /\ Len(r) = top
  <2>1. \A i \in 1 .. top : seqs[1 + ((i - 1) \div size)][1 + ((i - 1) % size)] \in S
    <3> TAKE i \in 1 .. top
    <3> DEFINE q == (i - 1) \div size
               x == (i - 1) % size
    <3>1. i - 1 \in Nat
      BY <1>1
    <3>2. q \in Int /\ x \in 0 .. size - 1 /\ i - 1 = q * size + x /\ q \in Nat
      <4>1. i - 1 \in Int
        BY <3>1
      <4>2. q \in Int /\ x \in 0 .. size - 1 /\ i - 1 = q * size + x
        BY <4>1, Division
      <4>3. q \in Nat
        BY <3>1, QuotientIsNat
      <4> QED
        BY <4>2, <4>3
    <3> HIDE DEF q, x
    <3>3. q < n
      <4>1. CASE n <= q
        <5>1. n * size <= q * size /\ q * size \in Int
          BY <3>2, <4>1, Grows
        <5> DEFINE y == q * size
        <5>2. y \in Int /\ top <= y /\ i - 1 = y + x
          BY <3>2, <5>1
        <5> HIDE DEF y, top
        <5> QED
          BY <1>1, <3>2, <5>2
      <4> QED
        BY <3>2, <4>1
    <3>4. 1 + q \in 1 .. n /\ 1 + x \in 1 .. size
      BY <3>2, <3>3
    <3> QED
      BY <3>4 DEF q, x
  <2> HIDE DEF top
  <2> QED
    BY <1>1, <2>1
<1> HIDE DEF r, top
<1>5. e \in [0 .. n -> Nat]
  OBVIOUS
<1>6. e[0] = 0 /\ e[n] = Len(r)
  BY <1>4 DEF top
<1>7. \A j \in 1 .. n : e[j] = e[j - 1] + Len(seqs[j]) /\ Has(r, e[j - 1], seqs[j])
  <2> TAKE j \in 1 .. n
  <2>1. e[j] = j * size /\ e[j - 1] = (j - 1) * size
    OBVIOUS
  <2> HIDE DEF e
  <2> QED
    BY <1>2, <1>3, <1>4, <2>1 DEF Has
<1> HIDE DEF e
<1>8. Seqs!FlattenSeq(seqs) = r
  BY <1>4, <1>5, <1>6, <1>7, Flattened
<1> QED
  BY <1>1, <1>2, <1>3, <1>4, <1>8 DEF top, Spread

\* The same of sequences in such a set.
LEMMA FlattenedEvenly ==
  ASSUME NEW S, NEW n \in Nat, NEW size \in Nat \ {0},
         NEW seqs \in [1 .. n -> OfSize(S, size)]
  PROVE  Spread(Seqs!FlattenSeq(seqs), S, seqs, n, size)
<1>1. seqs \in [1 .. n -> Seq(S)]
  BY DEF OfSize
<1>2. \A j \in 1 .. n : Len(seqs[j]) = size
  BY DEF OfSize
<1> QED
  BY <1>1, <1>2, FlattenedAtMultiples

\* Ascending lists a set's numbers in order, each once.
LEMMA AscendingIs ==
  ASSUME NEW set \in SUBSET Int, IsFiniteSet(set), NEW n, n = Cardinality(set)
  PROVE  /\ n \in Nat /\ Ascending(set) \in [1 .. n -> set] /\ Len(Ascending(set)) = n
         /\ DOMAIN Ascending(set) = 1 .. n
         /\ \A x \in set : \E j \in 1 .. n : Ascending(set)[j] = x
         /\ \A j, k \in 1 .. n : j < k => Ascending(set)[j] < Ascending(set)[k]
<1> DEFINE upTo(x) == {m \in set : m <= x}
           rank == [x \in set |-> Cardinality(upTo(x))]
           r == Ascending(set)
<1>1. n \in Nat /\ IsFiniteSet(1 .. n) /\ Cardinality(1 .. n) = n
  <2>1. n \in Nat
    BY FS_CardinalityType
  <2>2. 1 \in Int /\ n \in Int
    BY <2>1
  <2>3. IsFiniteSet(1 .. n) /\ Cardinality(1 .. n) = IF 1 > n THEN 0 ELSE n - 1 + 1
    BY <2>2, FS_Interval
  <2> QED
    BY <2>1, <2>3
<1>2. ASSUME NEW x \in set
      PROVE  /\ IsFiniteSet(upTo(x)) /\ Cardinality(upTo(x)) \in 1 .. n
             /\ rank[x] = Cardinality(upTo(x))
  <2>1. upTo(x) \in SUBSET set /\ upTo(x) # {}
    OBVIOUS
  <2> HIDE DEF upTo
  <2>2. IsFiniteSet(upTo(x)) /\ Cardinality(upTo(x)) <= n
    BY <2>1, FS_Subset
  <2>3. Cardinality(upTo(x)) \in Nat /\ (Cardinality(upTo(x)) = 0 => upTo(x) = {})
    BY <2>2, FS_CardinalityType, FS_EmptySet
  <2> QED
    BY <1>1, <2>1, <2>2, <2>3
<1>3. ASSUME NEW x \in set, NEW y \in set, x < y
      PROVE  rank[x] < rank[y]
  <2>1. upTo(x) \cup {y} \in SUBSET upTo(y) /\ y \notin upTo(x)
    <3>1. x \in Int /\ y \in Int /\ \A m \in set : m \in Int /\ (m <= x => m <= y)
      <4>1. x \in Int /\ y \in Int /\ \A m \in set : m \in Int
        OBVIOUS
      <4> QED
        BY <1>3, <4>1
    <3>2. \A m \in upTo(x) : m \in upTo(y)
      BY <3>1
    <3>3. y \in upTo(y)
      BY <3>1
    <3>4. y \notin upTo(x)
      BY <1>3, <3>1
    <3> HIDE DEF upTo
    <3> QED
      BY <3>2, <3>3, <3>4
  <2> HIDE DEF upTo, rank
  <2>2. IsFiniteSet(upTo(x)) /\ IsFiniteSet(upTo(y))
    BY <1>2
  <2>3. Cardinality(upTo(x) \cup {y}) = Cardinality(upTo(x)) + 1
    BY <2>1, <2>2, FS_AddElement
  <2>4. Cardinality(upTo(x) \cup {y}) <= Cardinality(upTo(y))
    BY <2>1, <2>2, FS_Subset
  <2> QED
    BY <1>1, <1>2, <2>3, <2>4
<1>4. \A x, y \in set : rank[x] = rank[y] => x = y
  <2> TAKE x \in set, y \in set
  <2> HIDE DEF rank, upTo
  <2>1. rank[x] \in Int /\ rank[y] \in Int
    BY <1>1, <1>2
  <2>2. x < y \/ y < x \/ x = y
    OBVIOUS
  <2> QED
    BY <1>3, <2>1, <2>2
<1>5. rank \in [set -> 1 .. n]
  <2>1. \A x \in set : Cardinality(upTo(x)) \in 1 .. n
    BY <1>2
  <2> HIDE DEF upTo
  <2> QED
    BY <2>1
<1> HIDE DEF rank, upTo
<1>6. rank \in Injection(set, 1 .. n)
  BY <1>4, <1>5, Zenon DEF Injection, IsInjective
<1>7. rank \in Surjection(set, 1 .. n)
  BY <1>1, <1>6, FS_Injection
<1>8. \A j \in 1 .. n : \E x \in set : rank[x] = j
  BY <1>7 DEF Surjection
<1>9. r = [k \in 1 .. n |-> CHOOSE x \in set : Cardinality(upTo(x)) = k]
  BY DEF Ascending, upTo
<1>10. \A j \in 1 .. n : r[j] \in set /\ rank[r[j]] = j
  <2> TAKE j \in 1 .. n
  <2>1. \E x \in set : Cardinality(upTo(x)) = j
    BY <1>2, <1>8
  <2>2. r[j] \in set /\ Cardinality(upTo(r[j])) = j
    BY <1>9, <2>1
  <2> HIDE DEF r
  <2> QED
    BY <1>2, <2>2
<1>11. r \in [1 .. n -> set] /\ Len(r) = n /\ DOMAIN r = 1 .. n
  <2>1. \A j \in 1 .. n : (CHOOSE x \in set : Cardinality(upTo(x)) = j) \in set
    BY <1>9, <1>10
  <2>2. r \in [1 .. n -> set]
    BY <1>9, <2>1
  <2> HIDE DEF r
  <2> QED
    BY <1>1, <2>2
<1> HIDE DEF r
<1>12. \A x \in set : \E j \in 1 .. n : r[j] = x
  <2> TAKE x \in set
  <2>1. rank[x] \in 1 .. n
    BY <1>5
  <2>2. r[rank[x]] \in set /\ rank[r[rank[x]]] = rank[x]
    BY <1>10, <2>1
  <2> QED
    BY <1>4, <2>1, <2>2
<1>13. ASSUME NEW j \in 1 .. n, NEW k \in 1 .. n, j < k
       PROVE  r[j] < r[k]
  <2> DEFINE x == r[j]
             y == r[k]
  <2>1. x \in set /\ y \in set /\ rank[x] = j /\ rank[y] = k
    BY <1>10
  <2> HIDE DEF x, y
  <2>2. x < y \/ y < x \/ x = y
    BY <2>1
  <2>3. ~(y < x)
    <3>1. y < x => rank[y] < rank[x]
      BY <1>3, <2>1
    <3> QED
      BY <1>1, <1>13, <2>1, <3>1
  <2>4. x # y
    BY <1>1, <1>13, <2>1
  <2> QED
    BY <2>2, <2>3, <2>4 DEF x, y
<1> QED
  BY <1>1, <1>11, <1>12, <1>13 DEF r

\* Parts of one size in a row.
LEMMA EvenParts ==
  ASSUME NEW n \in Nat, NEW size \in Nat \ {0},
         NEW seqs \in [1 .. n -> OfSize(SUBSET Int, size)],
         NEW flat, flat = Seqs!FlattenSeq(seqs)
  PROVE  /\ flat \in Buffers /\ Len(flat) = size * n /\ size * n \in Nat
         /\ \A bytes \in Buffers, offset \in Nat : Has(bytes, offset, flat) =>
              \A j \in 1 .. n : /\ offset + size * (j - 1) \in Nat
                                /\ Has(bytes, offset + size * (j - 1), seqs[j])
<1>1. /\ flat \in Buffers /\ Len(flat) = n * size /\ n * size \in Nat
      /\ \A j \in 1 .. n : /\ (j - 1) * size \in Nat /\ (j - 1) * size + size <= n * size
                           /\ \A k \in 1 .. size : flat[(j - 1) * size + k] = seqs[j][k]
  <2> DEFINE f == Seqs!FlattenSeq(seqs)
  <2>2. /\ f \in Seq(SUBSET Int) /\ n * size \in Nat /\ Len(f) = n * size
        /\ \A j \in 1 .. n : /\ (j - 1) * size \in Nat /\ (j - 1) * size + size <= n * size
                             /\ \A k \in 1 .. size : f[(j - 1) * size + k] = seqs[j][k]
    <3>1. Spread(f, SUBSET Int, seqs, n, size)
      BY FlattenedEvenly
    <3> HIDE DEF f
    <3> QED
      BY <3>1 DEF Spread
  <2>3. flat = f
    OBVIOUS
  <2> HIDE DEF f
  <2> QED
    BY <2>2, <2>3 DEF Buffers
<1>2. ASSUME NEW bytes \in Buffers, NEW offset \in Nat, Has(bytes, offset, flat), NEW j \in 1 .. n
      PROVE  offset + size * (j - 1) \in Nat /\ Has(bytes, offset + size * (j - 1), seqs[j])
  <2> DEFINE b == size * (j - 1)
             top == n * size
             o == offset + b
  <2>1. Len(bytes) \in Nat /\ Len(flat) = top /\ offset + top <= Len(bytes) /\ top \in Nat
    BY <1>1, <1>2 DEF Has, Buffers
  <2>2. b \in Nat /\ b + size <= top /\ b = (j - 1) * size
    <3>1. size * (j - 1) = (j - 1) * size
      OBVIOUS
    <3>2. (j - 1) * size \in Nat /\ (j - 1) * size + size <= n * size
      BY <1>1
    <3> QED
      BY <3>1, <3>2
  <2>3. \A k \in 1 .. size : flat[b + k] = seqs[j][k]
    <3>1. \A k \in 1 .. size : flat[(j - 1) * size + k] = seqs[j][k]
      BY <1>1
    <3> QED
      BY <2>2, <3>1
  <2>4. Len(seqs[j]) = size
    BY DEF OfSize
  <2> HIDE DEF b, top
  <2>5. ASSUME NEW k \in 1 .. size PROVE bytes[(offset + b) + k] = seqs[j][k]
    <3>1. b + k \in 1 .. Len(flat) /\ offset + (b + k) = (offset + b) + k
      BY <2>1, <2>2
    <3>2. bytes[offset + (b + k)] = flat[b + k]
      BY <1>2, <3>1 DEF Has
    <3> QED
      BY <2>3, <3>1, <3>2
  <2>6. o \in Nat /\ Has(bytes, o, seqs[j])
    <3>1. o \in Nat /\ o + Len(seqs[j]) <= Len(bytes)
      BY <2>1, <2>2, <2>4
    <3>2. \A k \in 1 .. Len(seqs[j]) : bytes[o + k] = seqs[j][k]
      BY <2>4, <2>5
    <3> HIDE DEF o
    <3> QED
      BY <3>1, <3>2 DEF Has
  <2> QED
    BY <2>6 DEF o, b
<1>3. n * size = size * n
  OBVIOUS
<1> QED
  BY <1>1, <1>2, <1>3

\* Fields in a row.
LEMMA FieldsAre ==
  ASSUME NEW n \in Nat, NEW numbers, DOMAIN numbers = 1 .. n, NEW size \in Nat \ {0}
  PROVE  /\ FieldsOf(numbers, size) \in Buffers /\ Len(FieldsOf(numbers, size)) = size * n
         /\ size * n \in Nat
         /\ \A bytes \in Buffers, offset \in Nat : Has(bytes, offset, FieldsOf(numbers, size)) =>
              \A j \in 1 .. n : Has(bytes, offset + size * (j - 1), Field(numbers[j], size))
<1> DEFINE seqs == [j \in 1 .. n |-> Field(numbers[j], size)]
           flat == Seqs!FlattenSeq(seqs)
<1>1. FieldsOf(numbers, size) = flat
  BY DEF FieldsOf
<1>2. \A x : Field(x, size) \in Buffers /\ Len(Field(x, size)) = size
  BY PartsAre
<1>3. /\ seqs \in [1 .. n -> OfSize(SUBSET Int, size)]
      /\ \A j \in 1 .. n : seqs[j] = Field(numbers[j], size)
  BY <1>2 DEF OfSize, Buffers
<1> HIDE DEF seqs
<1>5. /\ flat \in Buffers /\ Len(flat) = size * n /\ size * n \in Nat
      /\ \A bytes \in Buffers, offset \in Nat : Has(bytes, offset, flat) =>
           \A j \in 1 .. n : Has(bytes, offset + size * (j - 1), seqs[j])
  BY <1>3, EvenParts
<1> HIDE DEF flat
<1> QED
  BY <1>1, <1>3, <1>5

\* Floats in a row.
LEMMA FloatsAre ==
  ASSUME NEW n \in Nat, NEW values \in [1 .. n -> Int], NEW size \in Nat \ {0}
  PROVE  /\ FloatsOf(values, size) \in Buffers /\ Len(FloatsOf(values, size)) = size * n
         /\ size * n \in Nat
         /\ \A bytes \in Buffers, offset \in Nat : Has(bytes, offset, FloatsOf(values, size)) =>
              \A j \in 1 .. n : FloatAt(bytes, offset + size * (j - 1)) = values[j]
<1> DEFINE seqs == [j \in 1 .. n |-> Float(values[j], size)]
           flat == Seqs!FlattenSeq(seqs)
<1>1. FloatsOf(values, size) = flat
  BY DEF FloatsOf
<1>2. \A x \in Int : /\ Float(x, size) \in Buffers /\ Len(Float(x, size)) = size
                     /\ \A b, o : Has(b, o, Float(x, size)) => FloatAt(b, o) = x
  BY FloatIs
<1>3. /\ seqs \in [1 .. n -> OfSize(SUBSET Int, size)]
      /\ \A j \in 1 .. n : seqs[j] = Float(values[j], size)
  BY <1>2 DEF OfSize, Buffers
<1> HIDE DEF seqs
<1>5. /\ flat \in Buffers /\ Len(flat) = size * n /\ size * n \in Nat
      /\ \A bytes \in Buffers, offset \in Nat : Has(bytes, offset, flat) =>
           \A j \in 1 .. n : Has(bytes, offset + size * (j - 1), seqs[j])
  BY <1>3, EvenParts
<1> HIDE DEF flat
<1>6. ASSUME NEW bytes \in Buffers, NEW offset \in Nat, Has(bytes, offset, flat), NEW j \in 1 .. n
      PROVE  FloatAt(bytes, offset + size * (j - 1)) = values[j]
  <2>1. Has(bytes, offset + size * (j - 1), seqs[j])
    BY <1>5, <1>6
  <2> QED
    BY <1>2, <1>3, <2>1
<1> QED
  BY <1>1, <1>5, <1>6

-----------------------------------------------------------------------------
(* Floats.                                                                 *)

\* An encoded array of floats, whose patches are slots with values of their own.
FloatLiquid(liquid) ==
  /\ liquid = [reference |-> liquid.reference, packed |-> liquid.packed,
               patches |-> liquid.patches, values |-> liquid.values]
  /\ ValueOf(liquid.reference, SignedInt) /\ Packable(liquid.packed)
  /\ liquid.patches \in SUBSET (0 .. MaxLength - 1)
  /\ liquid.values \in [liquid.patches -> Int]

\* Floats have whole bytes.
LEMMA FloatsAreWhole == WholeType(SignedInt) /\ SignedInt.signed /\ SignedInt.bits = FloatBits
<1> DEFINE size == FloatBits \div ByteBits
<1>1. /\ ByteBits \in Nat \ {0} /\ FloatBits \in Nat \ {0} /\ FloatBits % ByteBits = 0
      /\ FloatBits \in 1 .. WordBits
  BY SizesAreNumbers, FloatAssumption
<1>2. size \in Nat /\ FloatBits = size * ByteBits
  <2>1. size \in Int /\ FloatBits = size * ByteBits + (FloatBits % ByteBits)
    BY <1>1, Division
  <2>2. size \in Nat
    BY <1>1, QuotientIsNat
  <2> HIDE DEF size
  <2>3. size * ByteBits \in Int
    BY <1>1, <2>1
  <2> QED
    BY <1>1, <2>1, <2>2, <2>3
<1> HIDE DEF size
<1>3. size # 0
  BY <1>1, <1>2
<1>4. SignedInt.bits = FloatBits /\ SignedInt.signed /\ SizeOf(SignedInt) = size
  BY DEF SignedInt, SizeOf, size
<1> QED
  BY <1>1, <1>2, <1>3, <1>4 DEF WholeType, IntegerType

\* Numbers below MaxLength fit fields of eight bytes, which SignedAt casts as
\* Native does.
LEMMA LengthsFit ==
  \A n \in 0 .. MaxLength : n < 2^(8 * ByteBits)
<1>1. /\ ByteBits \in Nat \ {0} /\ WordBytes \in Nat \ {0} /\ MaxLength \in Nat
      /\ MaxLength * WordBytes < 2^(4 * ByteBits)
  BY SizesAreNumbers, LinearAssumption, FormatAssumption
<1>2. MaxLength <= MaxLength * WordBytes
  <2>1. 1 * MaxLength <= WordBytes * MaxLength
    BY <1>1, Grows
  <2>2. WordBytes * MaxLength = MaxLength * WordBytes
    BY <1>1
  <2> QED
    BY <1>1, <2>1, <2>2
<1>3. 8 * ByteBits \in Nat /\ 4 * ByteBits \in 0 .. 8 * ByteBits
  BY <1>1
<1>4. 2^(4 * ByteBits) <= 2^(8 * ByteBits) /\ 2^(8 * ByteBits) \in Nat
  BY <1>3, PowersGrow
<1>5. 2^(4 * ByteBits) \in Nat
  BY <1>1, PowersGrow
<1> DEFINE p == 2^(4 * ByteBits)
           q == 2^(8 * ByteBits)
           m == MaxLength * WordBytes
<1>6. m < p /\ MaxLength <= m /\ p <= q /\ p \in Nat /\ q \in Nat /\ m \in Nat
  BY <1>1, <1>2, <1>4, <1>5
<1> HIDE DEF p, q, m
<1>7. \A n \in 0 .. MaxLength : n < q
  BY <1>1, <1>6
<1> QED
  BY <1>7 DEF q

\* The patches' slots in order, with the value of each.
Listed(liquid, n, indices, values) ==
  /\ n \in 0 .. MaxLength /\ Len(indices) = n /\ DOMAIN indices = 1 .. n
  /\ values \in [1 .. n -> Int]
  /\ \A j \in 1 .. n : /\ indices[j] \in 0 .. MaxLength /\ indices[j] \in liquid.patches
                       /\ values[j] = liquid.values[indices[j]]
  /\ \A i \in liquid.patches : \E j \in 1 .. n : indices[j] = i

\* The values of the patches in that order.
PatchValues(liquid) ==
  [j \in DOMAIN Ascending(liquid.patches) |-> liquid.values[Ascending(liquid.patches)[j]]]

\* They are listed in the buffer.
LEMMA PatchesAre ==
  ASSUME NEW liquid, FloatLiquid(liquid)
  PROVE  Listed(liquid, Cardinality(liquid.patches), Ascending(liquid.patches),
                PatchValues(liquid))
<1> DEFINE n       == Cardinality(liquid.patches)
           indices == Ascending(liquid.patches)
           values  == PatchValues(liquid)
           slots   == 0 .. MaxLength - 1
<1>1. MaxLength \in Nat
  BY LinearAssumption
<1>2. liquid.patches \in SUBSET slots /\ liquid.values \in [liquid.patches -> Int]
  BY DEF FloatLiquid
<1>3. IsFiniteSet(slots) /\ Cardinality(slots) = MaxLength
  <2>1. 0 \in Int /\ MaxLength - 1 \in Int
    BY <1>1
  <2>2. /\ IsFiniteSet(0 .. MaxLength - 1)
        /\ Cardinality(0 .. MaxLength - 1)
             = IF 0 > MaxLength - 1 THEN 0 ELSE (MaxLength - 1) - 0 + 1
    BY <2>1, FS_Interval
  <2> QED
    BY <1>1, <2>2
<1>4. liquid.patches \in SUBSET Int /\ \A i \in liquid.patches : i \in 0 .. MaxLength
  BY <1>1, <1>2
<1> HIDE DEF slots
<1>5. IsFiniteSet(liquid.patches) /\ n <= MaxLength
  <2>1. /\ IsFiniteSet(liquid.patches)
        /\ Cardinality(liquid.patches) <= Cardinality(slots)
    BY <1>2, <1>3, FS_Subset
  <2> QED
    BY <1>3, <2>1
<1> HIDE DEF n
<1>6. /\ n \in Nat /\ indices \in [1 .. n -> liquid.patches] /\ Len(indices) = n
      /\ DOMAIN indices = 1 .. n
      /\ \A x \in liquid.patches : \E j \in 1 .. n : indices[j] = x
  BY <1>4, <1>5, AscendingIs DEF n
<1>7. values = [j \in DOMAIN indices |-> liquid.values[indices[j]]]
  BY DEF PatchValues
<1> HIDE DEF indices, values
<1>8. \A j \in 1 .. n : indices[j] \in liquid.patches /\ indices[j] \in 0 .. MaxLength
  BY <1>4, <1>6
<1>9. \A i \in liquid.patches : liquid.values[i] \in Int
  BY <1>2
<1>10. /\ values \in [1 .. n -> Int]
       /\ \A j \in 1 .. n : values[j] = liquid.values[indices[j]]
  BY <1>6, <1>7, <1>8, <1>9
<1>11. n \in 0 .. MaxLength
  BY <1>1, <1>5, <1>6
<1>12. Listed(liquid, n, indices, values)
  BY <1>6, <1>8, <1>10, <1>11 DEF Listed
<1> QED
  BY <1>12 DEF n, indices, values

\* The parts of a serialized array of floats, and where they are.
FloatSection(liquid, bytes, n, size) ==
  LET count   == Align8(16 + size) + 8
      indices == count + 8
      values  == indices + 8 * n
  IN  /\ count \in Nat /\ values \in Nat /\ size * n \in Nat
      /\ values + size * n <= Align8(values + size * n)
      /\ Align8(values + size * n) < Len(bytes) /\ Align8(values + size * n) \in Nat
      /\ Has(bytes, 16, Field(liquid.reference, size))
      /\ Has(bytes, count, Field(n, 8))
      /\ Has(bytes, indices, FieldsOf(Ascending(liquid.patches), 8))
      /\ Has(bytes, values,
             FloatsOf(PatchValues(liquid), size))
      /\ From(bytes, Align8(values + size * n)) = Serialize(liquid.packed)

\* Every part is where the next one is looked for.
LEMMA FloatBytesAre ==
  ASSUME NEW liquid, FloatLiquid(liquid), NEW physical \in Physicals,
         NEW n, n = Cardinality(liquid.patches)
  PROVE  /\ FloatToBytes(liquid, physical) \in Buffers
         /\ ReadHeader(FloatToBytes(liquid, physical))
              = {[logical |-> LogicalId("Float"), physical |-> PhysicalId(physical)]}
         /\ IsOfType(FloatToBytes(liquid, physical), "Float")
         /\ FloatSection(liquid, FloatToBytes(liquid, physical), n, SizeOf(SignedInt))
<1> DEFINE size == SizeOf(SignedInt)
           indices == Ascending(liquid.patches)
           values  == PatchValues(liquid)
           head == Header("Float", physical)
           ref  == Field(liquid.reference, size)
           h1   == head \o ref
           a1   == Aligned(h1)
           z    == Zeros(8)
           f    == Field(n, 8)
           fi   == FieldsOf(indices, 8)
           fv   == FloatsOf(values, size)
           s2   == a1 \o z
           s3   == s2 \o f
           s4   == s3 \o fi
           s5   == s4 \o fv
           tail == Serialize(liquid.packed)
           bytes == Aligned(s5) \o tail
           top  == Align8(16 + size)
           last == Align8(Len(s5))
<1> HIDE DEF indices, values
<1>1. /\ n \in 0 .. MaxLength /\ Len(indices) = n
      /\ DOMAIN indices = 1 .. n /\ values \in [1 .. n -> Int]
  <2>1. Listed(liquid, n, indices, values)
    BY PatchesAre DEF indices, values
  <2> QED
    BY <2>1 DEF Listed
<1>2. n \in Nat /\ size \in Nat \ {0} /\ Packable(liquid.packed)
  BY <1>1, LinearAssumption, FloatsAreWhole DEF WholeType, FloatLiquid
<1>3. FloatToBytes(liquid, physical) = bytes
  BY <1>1 DEF FloatToBytes, indices, values, PatchValues
<1>4. head \in Buffers /\ Len(head) = 16 /\ ref \in Buffers /\ Len(ref) = size
  BY <1>2, HeaderIs, PartsAre
<1>5. z \in Buffers /\ Len(z) = 8 /\ f \in Buffers /\ Len(f) = 8
  BY PartsAre
<1> HIDE DEF values, indices, size
<1>6. fi \in Buffers /\ Len(fi) = 8 * n
  BY <1>1, <1>2, FieldsAre
<1>7. fv \in Buffers /\ Len(fv) = size * n /\ size * n \in Nat
  BY <1>1, <1>2, FloatsAre
<1>8. tail \in Buffers /\ Len(tail) \in Nat /\ Len(tail) > 0
  <2>1. /\ tail \in Buffers
        /\ Len(tail) = ValuesOffset(SizeOfBitmap(liquid.packed)) + SizeOfPacked(liquid.packed)
        /\ ValuesOffset(SizeOfBitmap(liquid.packed)) \in Nat
        /\ 16 + SizeOfBitmap(liquid.packed) <= ValuesOffset(SizeOfBitmap(liquid.packed))
    BY <1>2, SerializedIs
  <2>2. SizeOfBitmap(liquid.packed) \in Nat /\ SizeOfPacked(liquid.packed) \in Nat
    BY <1>2, SizesFit
  <2> QED
    BY <2>1, <2>2
<1> HIDE DEF head, ref, z, f, fi, fv, tail
<1>9. h1 \in Buffers /\ Len(h1) = 16 + size
  <2>1. head \o ref \in Buffers /\ Len(head \o ref) = Len(head) + Len(ref)
    BY <1>4, Appended
  <2> QED
    BY <1>4, <2>1
<1> HIDE DEF h1
<1> DEFINE gap == Zeros(Align8(Len(h1)) - Len(h1))
<1>10. /\ a1 = h1 \o gap /\ gap \in Buffers /\ a1 \in Buffers /\ Len(a1) = top /\ top \in Nat
  <2>1. /\ Align8(Len(h1)) \in Nat /\ Align8(Len(h1)) - Len(h1) \in Nat
        /\ a1 = h1 \o gap /\ a1 \in Buffers /\ Len(a1) = Align8(Len(h1))
    BY <1>9, AlignedIs
  <2>2. gap \in Buffers
    BY <2>1, PartsAre
  <2> QED
    BY <1>9, <2>1, <2>2
<1> HIDE DEF a1, gap, top
<1>11. s2 \in Buffers /\ Len(s2) = top + 8
  <2>1. a1 \o z \in Buffers /\ Len(a1 \o z) = Len(a1) + Len(z)
    BY <1>5, <1>10, Appended
  <2> QED
    BY <1>5, <1>10, <2>1
<1> HIDE DEF s2
<1>12. s3 \in Buffers /\ Len(s3) = top + 8 + 8
  <2>1. s2 \o f \in Buffers /\ Len(s2 \o f) = Len(s2) + Len(f)
    BY <1>5, <1>11, Appended
  <2> QED
    BY <1>5, <1>10, <1>11, <2>1
<1> HIDE DEF s3
<1>13. s4 \in Buffers /\ Len(s4) = top + 8 + 8 + 8 * n
  <2>1. s3 \o fi \in Buffers /\ Len(s3 \o fi) = Len(s3) + Len(fi)
    BY <1>6, <1>12, Appended
  <2> QED
    BY <1>6, <1>10, <1>12, <2>1
<1> HIDE DEF s4
<1>14. s5 \in Buffers /\ Len(s5) = (top + 8 + 8 + 8 * n) + size * n
  <2>1. s4 \o fv \in Buffers /\ Len(s4 \o fv) = Len(s4) + Len(fv)
    BY <1>7, <1>13, Appended
  <2> QED
    BY <1>7, <1>10, <1>13, <2>1
<1> HIDE DEF s5
<1>15. /\ bytes \in Buffers /\ Len(bytes) = last + Len(tail)
       /\ last \in Nat /\ Len(s5) <= last /\ Len(s5) \in Nat
       /\ Has(bytes, 0, s5) /\ From(bytes, last) = tail
  BY <1>8, <1>14, AlignedThen
<1> HIDE DEF bytes, last
<1>16. Has(bytes, 0, s4) /\ Has(bytes, top + 8 + 8 + 8 * n, fv)
  <2>1. Has(bytes, 0, s4 \o fv)
    BY <1>15 DEF s5
  <2>2. Has(bytes, 0, s4) /\ Has(bytes, 0 + Len(s4), fv)
    BY <1>7, <1>13, <1>15, <2>1, HasParts
  <2>3. 0 + Len(s4) = top + 8 + 8 + 8 * n
    BY <1>2, <1>10, <1>13
  <2> QED
    BY <2>2, <2>3
<1>17. Has(bytes, 0, s3) /\ Has(bytes, top + 8 + 8, fi)
  <2>1. Has(bytes, 0, s3 \o fi)
    BY <1>16 DEF s4
  <2>2. Has(bytes, 0, s3) /\ Has(bytes, 0 + Len(s3), fi)
    BY <1>6, <1>12, <1>15, <2>1, HasParts
  <2>3. 0 + Len(s3) = top + 8 + 8
    BY <1>10, <1>12
  <2> QED
    BY <2>2, <2>3
<1>18. Has(bytes, 0, s2) /\ Has(bytes, top + 8, f)
  <2>1. Has(bytes, 0, s2 \o f)
    BY <1>17 DEF s3
  <2>2. Has(bytes, 0, s2) /\ Has(bytes, 0 + Len(s2), f)
    BY <1>5, <1>11, <1>15, <2>1, HasParts
  <2>3. 0 + Len(s2) = top + 8
    BY <1>10, <1>11
  <2> QED
    BY <2>2, <2>3
<1>19. Has(bytes, 0, a1)
  <2>1. Has(bytes, 0, a1 \o z)
    BY <1>18 DEF s2
  <2> QED
    BY <1>5, <1>10, <1>15, <2>1, HasParts
<1>20. Has(bytes, 0, h1)
  <2>1. Has(bytes, 0, h1 \o gap)
    BY <1>10, <1>19
  <2> QED
    BY <1>9, <1>10, <1>15, <2>1, HasParts
<1>21. Has(bytes, 0, head) /\ Has(bytes, 16, ref)
  <2>1. Has(bytes, 0, head \o ref)
    BY <1>20 DEF h1
  <2>2. Has(bytes, 0, head) /\ Has(bytes, 0 + Len(head), ref)
    BY <1>4, <1>15, <2>1, HasParts
  <2> QED
    BY <1>4, <2>2
<1>22. "Float" \in Logicals
  BY DEF Logicals, LiquidDataTypes
<1>23. /\ ReadHeader(bytes)
            = {[logical |-> LogicalId("Float"), physical |-> PhysicalId(physical)]}
       /\ IsOfType(bytes, "Float")
  BY <1>15, <1>21, <1>22, HeaderIsRead DEF head
<1> DEFINE at == top + 8 + 8 + 8 * n
           end == at + size * n
<1>24. /\ top + 8 \in Nat /\ at \in Nat /\ size * n \in Nat
       /\ end <= Align8(end) /\ Align8(end) < Len(bytes) /\ Align8(end) \in Nat
       /\ From(bytes, Align8(end)) = tail
  <2>1. Len(s5) = end /\ last = Align8(end)
    BY <1>14 DEF last
  <2>2. last < Len(bytes)
    BY <1>8, <1>15
  <2>3. top + 8 \in Nat /\ at \in Nat
    BY <1>2, <1>10
  <2> HIDE DEF end, at
  <2> QED
    BY <1>7, <1>15, <2>1, <2>2, <2>3
<1>25. FloatSection(liquid, bytes, n, size)
  BY <1>16, <1>17, <1>18, <1>21, <1>24 DEF FloatSection, ref, f, fi, fv, tail, indices, values, top
<1> QED
  BY <1>3, <1>15, <1>23, <1>25 DEF size

\* What is read of an encoded array's bytes is that array, patches included.
THEOREM FloatBytesRestore ==
  ASSUME NEW liquid, FloatLiquid(liquid), NEW physical \in Physicals
  PROVE  FloatFromBytes(FloatToBytes(liquid, physical)) = {liquid}
<1> DEFINE bytes  == FloatToBytes(liquid, physical)
           m      == Cardinality(liquid.patches)
           sorted == Ascending(liquid.patches)
           vals   == PatchValues(liquid)
           size   == SizeOf(SignedInt)
           count  == Align8(16 + size) + 8
           n      == FieldAt(bytes, count, 8)
           indices == count + 8
           values == indices + 8 * n
           next   == Align8(values + size * n)
           at     == [j \in 1 .. n |-> FieldAt(bytes, indices + 8 * (j - 1), 8)]
           patches == {at[j] : j \in 1 .. n}
           value(i) == FloatAt(bytes, values + size * ((CHOOSE j \in 1 .. n : at[j] = i) - 1))
<1>1. /\ bytes \in Buffers /\ IsOfType(bytes, "Float") /\ FloatSection(liquid, bytes, m, size)
  BY FloatBytesAre
<1> HIDE DEF bytes
<1>2. /\ m \in 0 .. MaxLength /\ DOMAIN sorted = 1 .. m /\ vals \in [1 .. m -> Int]
      /\ \A j \in 1 .. m : sorted[j] \in 0 .. MaxLength /\ sorted[j] \in liquid.patches
      /\ \A j \in 1 .. m : vals[j] = liquid.values[sorted[j]]
      /\ \A i \in liquid.patches : \E j \in 1 .. m : sorted[j] = i
  <2>1. Listed(liquid, m, sorted, vals)
    BY PatchesAre
  <2> HIDE DEF m, sorted, vals
  <2> QED
    BY <2>1 DEF Listed
<1>3. m \in Nat /\ size \in Nat \ {0}
  BY <1>2, LinearAssumption, FloatsAreWhole DEF WholeType
<1>4. count \in Nat /\ indices \in Nat
  BY <1>1 DEF FloatSection
<1>5. n = m
  <2>1. Has(bytes, count, Field(m, 8))
    BY <1>1 DEF FloatSection
  <2>2. m < 2^(8 * ByteBits)
    BY <1>2, LengthsFit
  <2> HIDE DEF m, count
  <2> QED
    BY <1>3, <2>1, <2>2, NumberIsFound
<1>6. /\ values \in Nat /\ size * n \in Nat /\ values + size * n <= next /\ next < Len(bytes)
      /\ next \in Nat
      /\ Has(bytes, indices, FieldsOf(sorted, 8)) /\ Has(bytes, values, FloatsOf(vals, size))
      /\ From(bytes, next) = Serialize(liquid.packed)
  <2> HIDE DEF n, m, size
  <2> QED
    BY <1>1, <1>5 DEF FloatSection
<1>7. Has(bytes, 16, Field(liquid.reference, size))
  BY <1>1 DEF FloatSection
<1>8. SignedAt(bytes, 16, size) = liquid.reference
  <2> DEFINE t == [bits |-> size * ByteBits, signed |-> TRUE]
  <2>1. IntegerType(SignedInt) /\ size * ByteBits = SignedInt.bits /\ SignedInt.signed
        /\ ValueOf(liquid.reference, SignedInt)
    BY FloatsAreWhole DEF WholeType, FloatLiquid
  <2>2. SignedInt = t
    BY <2>1 DEF SignedInt
  <2> HIDE DEF size
  <2>3. Native(FieldAt(bytes, 16, size), SignedInt) = liquid.reference
    BY <1>3, <1>7, <2>1, ValueIsFound
  <2> HIDE DEF t
  <2>4. SignedAt(bytes, 16, size) = Native(FieldAt(bytes, 16, size), t)
    BY DEF SignedAt, t
  <2> QED
    BY <2>2, <2>3, <2>4
<1> HIDE DEF m, sorted, size, count
<1>9. \A j \in 1 .. m : at[j] = sorted[j]
  <2> TAKE j \in 1 .. m
  <2> DEFINE o == indices + 8 * (j - 1)
  <2>1. Has(bytes, o, Field(sorted[j], 8))
    <3>1. 8 \in Nat \ {0}
      OBVIOUS
    <3> DEFINE k == indices
    <3>2. k \in Nat /\ Has(bytes, k, FieldsOf(sorted, 8))
      BY <1>4, <1>6
    <3> HIDE DEF k
    <3>3. \A l \in 1 .. m : Has(bytes, k + 8 * (l - 1), Field(sorted[l], 8))
      BY <1>1, <1>2, <1>3, <3>1, <3>2, FieldsAre
    <3> QED
      BY <3>3 DEF k
  <2>2. sorted[j] \in Nat /\ sorted[j] < 2^(8 * ByteBits)
    BY <1>2, LengthsFit
  <2>3. at[j] = FieldAt(bytes, o, 8)
    BY <1>5
  <2> HIDE DEF o, at
  <2>4. FieldAt(bytes, o, 8) = sorted[j]
    BY <2>1, <2>2, NumberIsFound
  <2> QED
    BY <2>3, <2>4
<1>10. patches = liquid.patches
  <2> HIDE DEF at, n
  <2>1. \A j \in 1 .. n : at[j] \in liquid.patches
    BY <1>2, <1>5, <1>9
  <2>2. \A i \in liquid.patches : \E j \in 1 .. n : at[j] = i
    BY <1>2, <1>5, <1>9
  <2>3. {at[j] : j \in 1 .. n} \in SUBSET liquid.patches
    BY <2>1
  <2>4. \A i \in liquid.patches : i \in {at[j] : j \in 1 .. n}
    BY <2>2
  <2> QED
    BY <2>3, <2>4
<1>11. ASSUME NEW i \in liquid.patches PROVE value(i) = liquid.values[i]
  <2> DEFINE j == CHOOSE k \in 1 .. n : at[k] = i
  <2>1. j \in 1 .. m /\ at[j] = i
    <3> HIDE DEF at, n
    <3>1. \E k \in 1 .. n : at[k] = i
      BY <1>2, <1>5, <1>9
    <3> QED
      BY <1>5, <3>1
  <2>2. value(i) = FloatAt(bytes, values + size * (j - 1))
    OBVIOUS
  <2> HIDE DEF j, value
  <2>3. sorted[j] = i
    BY <1>9, <2>1
  <2>4. FloatAt(bytes, values + size * (j - 1)) = vals[j]
    <3> DEFINE k == values
    <3>1. k \in Nat /\ Has(bytes, k, FloatsOf(vals, size))
      BY <1>6
    <3>2. vals \in [1 .. m -> Int]
      BY <1>2
    <3> HIDE DEF k, vals
    <3>3. \A b \in Buffers, o \in Nat : Has(b, o, FloatsOf(vals, size)) =>
            \A l \in 1 .. m : FloatAt(b, o + size * (l - 1)) = vals[l]
      BY <1>3, <3>2, FloatsAre
    <3>4. \A l \in 1 .. m : FloatAt(bytes, k + size * (l - 1)) = vals[l]
      BY <1>1, <3>1, <3>3
    <3> QED
      BY <2>1, <3>4 DEF k
  <2>5. vals[j] = liquid.values[sorted[j]]
    BY <1>2, <2>1
  <2> QED
    BY <2>2, <2>3, <2>4, <2>5
<1> HIDE DEF value
<1>12. [i \in patches |-> value(i)] = liquid.values
  <2>1. liquid.values = [i \in liquid.patches |-> liquid.values[i]]
    BY DEF FloatLiquid
  <2> HIDE DEF patches
  <2> QED
    BY <1>10, <1>11, <2>1
<1>13. Deserialize(From(bytes, next)) = {liquid.packed}
  BY <1>6, PackedBytesRestore DEF FloatLiquid
<1>14. ~(indices > Len(bytes)) /\ ~(values + size * n > Len(bytes)) /\ next < Len(bytes)
  <2>1. Len(bytes) \in Nat
    BY <1>1 DEF Buffers
  <2>2. indices <= values /\ n \in Nat
    <3> HIDE DEF n, count
    <3> QED
      BY <1>3, <1>4, <1>5
  <2> DEFINE w == size * n
  <2> HIDE DEF next, values, indices, w
  <2>3. w \in Nat /\ values \in Nat /\ indices \in Nat /\ values + w <= next /\ next < Len(bytes)
        /\ next \in Nat
    BY <1>4, <1>6 DEF w
  <2>4. ~(indices > Len(bytes)) /\ ~(values + w > Len(bytes)) /\ next < Len(bytes)
    BY <2>1, <2>2, <2>3
  <2> QED
    BY <2>4 DEF w
<1> HIDE DEF at
<1> DEFINE read == [i \in patches |-> value(i)]
           sections == IF next < Len(bytes) THEN Deserialize(From(bytes, next)) ELSE {EmptyPacked}
<1>15. FloatFromBytes(bytes)
         = {[reference |-> SignedAt(bytes, 16, size), packed |-> packed, patches |-> patches,
             values |-> read] : packed \in sections}
  BY <1>1, <1>14 DEF FloatFromBytes, size, count, at, value
<1> HIDE DEF read, patches
<1>16. sections = {liquid.packed}
  BY <1>13, <1>14
<1> HIDE DEF sections
<1>17. read = liquid.values
  BY <1>12 DEF read
<1>18. liquid = [reference |-> liquid.reference, packed |-> liquid.packed,
                 patches |-> liquid.patches, values |-> liquid.values]
  BY DEF FloatLiquid
<1>19. FloatFromBytes(bytes) = {liquid}
  BY <1>8, <1>10, <1>15, <1>16, <1>17, <1>18
<1> QED
  BY <1>19 DEF bytes

-----------------------------------------------------------------------------
(* What transcode_arrow_array writes.                                      *)

\* The types of numbers have whole bytes, those of timestamps are int64_t.
LEMMA NativesAreWhole ==
  \A p \in Physicals : WholeType(NativeOf(p))
<1> SUFFICES ASSUME NEW p \in Physicals PROVE WholeType(NativeOf(p))
  OBVIOUS
<1> DEFINE size == CASE p \in {"Int8", "UInt8"} -> 1
                     [] p \in {"Int16", "UInt16"} -> 2
                     [] p \in {"Int32", "UInt32", "Date32", "Float32"} -> 4
                     [] OTHER -> 8
           w == Smaller(size, WordBytes)
           t == NativeOf(p)
<1>1. WordBytes \in Nat \ {0} /\ ByteBits \in Nat \ {0} /\ WordBits = WordBytes * ByteBits
  BY SizesAreNumbers
<1>2. size \in {1, 2, 4, 8}
  OBVIOUS
<1>3. t.bits = ByteBits * w
  BY DEF NativeOf
<1> HIDE DEF size
<1>4. w \in 1 .. WordBytes
  BY <1>1, <1>2 DEF Smaller
<1> HIDE DEF w, t
<1>5. ByteBits * w = w * ByteBits
  BY <1>1, <1>4
<1>6. (w * ByteBits) \div ByteBits = w
  BY <1>1, <1>4, MultipleDivided
<1>7. SizeOf(t) = w /\ SizeOf(t) * ByteBits = t.bits
  BY <1>3, <1>5, <1>6 DEF SizeOf
<1>8. w * ByteBits \in 1 .. WordBits
  <2>1. 1 * ByteBits <= w * ByteBits /\ w * ByteBits <= WordBytes * ByteBits
    BY <1>1, <1>4, Grows
  <2> DEFINE x == w * ByteBits
             y == WordBytes * ByteBits
  <2>2. x \in Int /\ y \in Int /\ ByteBits <= x /\ x <= y
    BY <1>1, <1>4, <2>1
  <2> HIDE DEF x, y
  <2>3. x \in 1 .. y
    BY <1>1, <2>2
  <2> QED
    BY <1>1, <2>3 DEF x, y
<1>9. IntegerType(t)
  BY <1>3, <1>5, <1>8 DEF IntegerType
<1> QED
  BY <1>4, <1>7, <1>9 DEF WholeType, t

\* The widths that differences are packed with.
LEMMA WidthsFit ==
  ASSUME NEW t, IntegerType(t), NEW x \in Int
  PROVE  /\ GetBitWidth(Unsigned(x, t)) \in 0 .. WordBits
         /\ ComputeBitWidth(Unsigned(x, t)) \in 0 .. WordBits
         /\ Unsigned(x, t) < 2^ComputeBitWidth(Unsigned(x, t))
<1> DEFINE m == 2^t.bits
           n == Unsigned(x, t)
<1>1. m \in Nat \ {0} /\ m <= 2^WordBits
  BY RangeOfType
<1>2. WordBits \in Nat /\ 2^WordBits \in Int /\ 2^0 = 1
  BY SizesAreNumbers, PowersGrow
<1>3. n = x % m
  BY DEF Unsigned
<1> HIDE DEF m, n
<1>4. n \in 0 .. m - 1
  BY <1>1, <1>3, Division
<1>5. n \in Nat /\ n < 2^WordBits
  BY <1>1, <1>2, <1>4
<1>6. GetBitWidth(n) \in 1 .. WordBits /\ n < 2^GetBitWidth(n)
  BY <1>5, BitWidthSuffices
<1>7. CASE n = 0
  BY <1>2, <1>6, <1>7 DEF ComputeBitWidth, n
<1>8. CASE n # 0
  BY <1>2, <1>6, <1>8 DEF ComputeBitWidth, n
<1> QED
  BY <1>7, <1>8

\* LiquidPrimitiveArray's encoding of a slice has a place in a buffer.
LEMMA IntegersAreLiquid ==
  ASSUME NEW t, IntegerType(t), NEW a, IntegerSlice(a, t), Length(a) \in 0 .. MaxLength
  PROVE  IntegerLiquid(FromArrow(a, t), t)
<1> DEFINE min == Min(ValuesOf(a))
           max == Max(ValuesOf(a))
           offsets == [i \in Index(a) |-> Unsigned(SlotAt(a, i).value - min, t)]
           width == GetBitWidth(Unsigned(max - min, t))
           liquid == FromArrow(a, t)
<1>1. CASE ValidIn(a) = {}
  <2>1. liquid = [reference |-> 0, packed |-> PackZeros(a)]
    BY <1>1 DEF FromArrow
  <2>2. Packable(PackZeros(a))
    <3>1. 0 \in 0 .. WordBits
      BY SizesAreNumbers
    <3> QED
      BY <3>1, SliceIsPackable
  <2>3. ValueOf(0, t)
    BY RangeOfType DEF ValueOf
  <2> QED
    BY <2>1, <2>2, <2>3 DEF IntegerLiquid
<1>2. CASE ValidIn(a) # {}
  <2>1. ValuesOf(a) # {} /\ \A x \in ValuesOf(a) : ValueOf(x, t)
    BY <1>2 DEF ValuesOf, IntegerSlice
  <2>2. ValueOf(min, t) /\ ValueOf(max, t)
    BY <2>1, ExtremesOfType
  <2>3. liquid = [reference |-> min, packed |-> Pack(Words(a, offsets), NullBits(a), width)]
    BY <1>2 DEF FromArrow
  <2> HIDE DEF min, max
  <2>4. max - min \in Int
    BY <2>2, RangeOfType DEF ValueOf
  <2>5. width \in 0 .. WordBits
    BY <2>4, WidthsFit
  <2> HIDE DEF width, offsets
  <2>6. Packable(Pack(Words(a, offsets), NullBits(a), width))
    BY <2>5, SliceIsPackable DEF IntegerSlice
  <2> QED
    BY <2>2, <2>3, <2>6 DEF IntegerLiquid
<1> QED
  BY <1>1, <1>2

\* Slots with values that are no whole steps.
Halves(a) ==
  {i \in Index(a) : DecodeSingle(EncodeSingle(SlotAt(a, i).value)) # SlotAt(a, i).value}

\* Such a slice has values everywhere.
Numerical(a) == \A i \in Index(a) : SlotAt(a, i).value \in Int

\* So has LiquidFloatArray's.
LEMMA FloatsAreLiquid ==
  ASSUME NEW a, FloatSlice(a), ValidIn(a) # {} => Numerical(a), Length(a) \in 0 .. MaxLength
  PROVE  FloatLiquid(FloatFromArrow(a))
<1> DEFINE liquid == FloatFromArrow(a)
           patches == Halves(a)
           exact == Index(a) \ patches
           fill == EncodeSingle(SlotAt(a, Min(exact)).value)
           encoded == [i \in Index(a) |-> IF i \in patches /\ exact # {} THEN fill
                                          ELSE EncodeSingle(SlotAt(a, i).value)]
           all == {encoded[i] : i \in Index(a)}
           offsets == [i \in Index(a) |-> Unsigned(encoded[i] - Min(all), SignedInt)]
           width == GetBitWidth(Unsigned(Max(all) - Min(all), SignedInt))
           values == [i \in patches |-> SlotAt(a, i).value]
<1>1. IntegerType(SignedInt)
  BY FloatAssumption DEF IntegerType, SignedInt
<1>2. CASE ValidIn(a) = {}
  <2>1. liquid = [reference |-> 0, packed |-> PackZeros(a), patches |-> {}, values |-> <<>>]
    BY <1>2 DEF FloatFromArrow
  <2>2. Packable(PackZeros(a))
    <3>1. 0 \in 0 .. WordBits
      BY SizesAreNumbers
    <3> QED
      BY <3>1, SliceIsPackable
  <2>3. ValueOf(0, SignedInt)
    BY <1>1, RangeOfType DEF ValueOf
  <2>4. <<>> \in [{} -> Int]
    <3>1. <<>> \in Seq(Int) /\ DOMAIN (<<>>) = {}
      OBVIOUS
    <3> QED
      BY <3>1
  <2> HIDE DEF liquid
  <2>5. /\ liquid.reference = 0 /\ liquid.packed = PackZeros(a) /\ liquid.patches = {}
        /\ liquid.values = <<>>
    BY <2>1
  <2>6. FloatLiquid(liquid)
    BY <2>1, <2>2, <2>3, <2>4, <2>5 DEF FloatLiquid
  <2> QED
    BY <2>6 DEF liquid
<1>3. CASE ValidIn(a) # {}
  <2>1. /\ Length(a) \in Nat /\ Index(a) = 0 .. Length(a) - 1 /\ ValidIn(a) \in SUBSET Index(a)
        /\ \A i \in Index(a) : ValueOf(EncodeSingle(SlotAt(a, i).value), SignedInt)
    BY <1>3, SliceIs DEF FloatSlice
  <2>2. liquid = [reference |-> Min(all), packed |-> Pack(Words(a, offsets), NullBits(a), width),
                  patches |-> patches, values |-> values]
    BY <1>3 DEF FloatFromArrow, Halves
  <2>3. patches \in SUBSET Index(a)
    BY DEF Halves
  <2> HIDE DEF patches
  <2>4. exact # {} => ValueOf(fill, SignedInt)
    <3>1. 0 \in Int /\ Length(a) - 1 \in Int /\ exact \in SUBSET (0 .. Length(a) - 1)
      BY <2>1
    <3>2. exact \subseteq Index(a)
      OBVIOUS
    <3> HIDE DEF exact
    <3>3. exact # {} => Min(exact) \in exact
      BY <3>1, ExtremesExist
    <3> QED
      BY <2>1, <3>2, <3>3
  <2>5. \A i \in Index(a) : ValueOf(encoded[i], SignedInt)
    <3> HIDE DEF exact, fill
    <3> QED
      BY <2>1, <2>4
  <2> HIDE DEF encoded
  <2>6. ValueOf(Min(all), SignedInt) /\ ValueOf(Max(all), SignedInt)
    <3>1. all # {} /\ \A x \in all : ValueOf(x, SignedInt)
      BY <1>3, <2>1, <2>5
    <3> HIDE DEF all
    <3> QED
      BY <1>1, <3>1, ExtremesOfType
  <2> DEFINE min == Min(all)
             max == Max(all)
  <2>7. width \in 0 .. WordBits
    <3> HIDE DEF min, max
    <3>1. max - min \in Int
      BY <1>1, <2>6, RangeOfType DEF ValueOf, min, max
    <3>2. GetBitWidth(Unsigned(max - min, SignedInt)) \in 0 .. WordBits
      BY <1>1, <3>1, WidthsFit
    <3> QED
      BY <3>2 DEF min, max
  <2> HIDE DEF width, offsets, all, min, max
  <2>8. Packable(Pack(Words(a, offsets), NullBits(a), width))
    BY <2>7, SliceIsPackable DEF FloatSlice
  <2>9. values \in [patches -> Int]
    BY <1>3, <2>3 DEF Numerical
  <2>10. patches \in SUBSET (0 .. MaxLength - 1)
    <3>1. MaxLength \in Nat /\ \A i \in Index(a) : i \in 0 .. MaxLength - 1
      BY <2>1, LinearAssumption
    <3> QED
      BY <2>3, <3>1
  <2> HIDE DEF liquid, values
  <2>11. FloatLiquid(liquid)
    BY <2>2, <2>6, <2>8, <2>9, <2>10 DEF FloatLiquid
  <2> QED
    BY <2>11 DEF liquid
<1> QED
  BY <1>2, <1>3

\* The values themselves, masked if they are unsigned, are residuals.
LEMMA PlainResidualsFit ==
  ASSUME NEW t, IntegerType(t), NEW a, LinearSlice(a, t), NEW i \in ValidIn(a)
  PROVE  ValueOf(PlainResiduals(a, t)[i], Int64)
<1> DEFINE v == SlotAt(a, i).value
           r == PlainResiduals(a, t)[i]
<1>1. PICK h \in Nat \ {0} : MinOf(Int64) = -h /\ MaxOf(Int64) = h - 1
  BY ResidualType
<1>2. v \in Int /\ ValueOf(v, t) /\ i \in Index(a)
  BY LinearSliceIs DEF LinearSlice
<1>3. r = IF t.signed THEN v ELSE v % h
  <2>1. MaxOf(Int64) + 1 = h
    BY <1>1
  <2> QED
    BY <1>2, <2>1 DEF PlainResiduals
<1> HIDE DEF v, r
<1>4. CASE t.signed /\ t.bits < WordBits
  <2>1. ValueOf(0, t)
    BY RangeOfType DEF ValueOf
  <2>2. v - 0 \in MinOf(Int64) .. MaxOf(Int64)
    BY <1>2, <1>4, <2>1, NarrowResiduals
  <2>3. v - 0 = v
    BY <1>2
  <2>4. ValueOf(v, Int64)
    BY <2>2, <2>3 DEF ValueOf
  <2> QED
    BY <1>3, <1>4, <2>4 DEF r
<1>5. CASE t.signed /\ t.bits = WordBits
  <2>1. MinOf(t) = MinOf(Int64) /\ MaxOf(t) = MaxOf(Int64)
    BY <1>5 DEF MinOf, MaxOf, Int64
  <2>2. ValueOf(v, Int64)
    BY <1>2, <2>1 DEF ValueOf
  <2> QED
    BY <1>3, <1>5, <2>2 DEF r
<1>6. CASE ~t.signed
  <2>1. v % h \in 0 .. h - 1
    BY <1>1, <1>2, Division
  <2>2. ValueOf(v % h, Int64)
    <3> DEFINE x == v % h
    <3>1. x \in 0 .. h - 1
      BY <2>1
    <3> HIDE DEF x
    <3>2. ValueOf(x, Int64)
      BY <1>1, <3>1 DEF ValueOf
    <3> QED
      BY <3>2 DEF x
  <2> QED
    BY <1>3, <1>6, <2>2 DEF r
<1>7. t.bits < WordBits \/ t.bits = WordBits
  BY SizesAreNumbers DEF IntegerType
<1> QED
  BY <1>4, <1>5, <1>6, <1>7

\* So has the linear model of a slice of integers a place in a buffer.
LEMMA LinearsAreLiquid ==
  ASSUME NEW t, IntegerType(t), NEW a, LinearSlice(a, t), Length(a) \in 0 .. MaxLength
  PROVE  LinearLiquid(LinearFromArrow(a, t))
<1> DEFINE V == ValidIn(a)
           line == IF V = {} THEN Flat ELSE FitLinf(a)
           res == Residuals(a, line, t)
           plain == PlainResiduals(a, t)
           kept == LinearFromArrow(a, t)
<1>1. ASSUME NEW l, l.slope \in Int, l.intercept \in Int,
             l = [slope |-> l.slope, intercept |-> l.intercept],
             NEW f, \A i \in V : ValueOf(f[i], Int64)
      PROVE  LinearLiquid(LinearOf(a, l, f))
  <2> DEFINE r == Rebuilt(a, f)
             e == FromArrow(r, Int64)
             x == LinearOf(a, l, f)
  <2>1. IntegerSlice(r, Int64) /\ Length(r) = Length(a)
    <3>1. IntegerSlice(r, Int64)
      BY <1>1, RebuiltIs
    <3>2. Length(r) = Length(a)
      BY DEF Rebuilt, Array, Length
    <3> QED
      BY <3>1, <3>2
  <2>2. IntegerLiquid(e, Int64)
    <3> HIDE DEF r
    <3> QED
      BY <2>1, ResidualType, IntegersAreLiquid
  <2>3. x = [line |-> l, residuals |-> e]
    BY DEF LinearOf
  <2> HIDE DEF x, e
  <2>4. x.line = l /\ x.residuals = e
    BY <2>3
  <2>5. LinearLiquid(x)
    BY <1>1, <2>2, <2>3, <2>4 DEF LinearLiquid
  <2> QED
    BY <2>5 DEF x
<1>2. kept = IF Useful(a, line, t) THEN LinearOf(a, line, res) ELSE LinearOf(a, Flat, plain)
  BY DEF LinearFromArrow, KeepIfUseful
<1>3. \A i \in V : i \in Int /\ i \in Index(a) /\ ValueOf(SlotAt(a, i).value, t)
                   /\ SlotAt(a, i).value \in Int
  BY LinearSliceIs DEF LinearSlice
<1>4. MinOf(t) \in Int /\ MaxOf(t) \in Int
  BY RangeOfType
<1>5. CASE Useful(a, line, t)
  <2>1. V # {} /\ line = FitLinf(a)
    BY <1>5 DEF Useful
  <2>2. /\ line.slope \in Int /\ line.intercept \in Int
        /\ line = [slope |-> line.slope, intercept |-> line.intercept]
    BY <2>1, LineFits DEF FitLinf, LineOf
  <2>3. \A i \in V : ValueOf(res[i], Int64)
    <3> TAKE i \in V
    <3>1. ValueOf(Predict(line, i, t), t)
      BY <1>3, <2>2, PredictIsValue
    <3>2. Predict(line, i, t) \in Int
      BY <1>4, <3>1 DEF ValueOf
    <3>3. res[i] = Clamp(SlotAt(a, i).value - Predict(line, i, t), Int64)
      BY <1>3 DEF Residuals
    <3>4. SlotAt(a, i).value - Predict(line, i, t) \in Int
      BY <1>3, <3>2
    <3> QED
      BY <3>3, <3>4, ResidualType, ClampIsNear
  <2> HIDE DEF line, res
  <2> QED
    BY <1>1, <1>2, <1>5, <2>2, <2>3
<1>6. CASE ~Useful(a, line, t)
  <2>1. \A i \in V : ValueOf(plain[i], Int64)
    BY <1>3, PlainResidualsFit
  <2>2. /\ Flat.slope \in Int /\ Flat.intercept \in Int
        /\ Flat = [slope |-> Flat.slope, intercept |-> Flat.intercept]
    BY DEF Flat
  <2> HIDE DEF line, plain
  <2> QED
    BY <1>1, <1>2, <1>6, <2>1, <2>2
<1> QED
  BY <1>5, <1>6

\* The bytes are decoded as what their header says they are.
LEMMA HeaderDecides ==
  ASSUME NEW logical \in Logicals, NEW physical \in Physicals, NEW bytes,
         ReadHeader(bytes) = {[logical |-> LogicalId(logical), physical |-> PhysicalId(physical)]}
  PROVE  DecodeLiquidArray(bytes) = DecodeAs(bytes, logical, physical)
<1> DEFINE h == [logical |-> LogicalId(logical), physical |-> PhysicalId(physical)]
           decode(x) == DecodeAs(bytes, LiquidDataTypes[x.logical], PhysicalTypes[x.physical + 1])
<1>1. DecodeLiquidArray(bytes) = UNION {decode(x) : x \in {h}}
  BY DEF DecodeLiquidArray
<1>2. LiquidDataTypes[h.logical] = logical /\ PhysicalTypes[h.physical + 1] = physical
  BY IdsAreNumbers
<1>3. decode(h) = DecodeAs(bytes, logical, physical)
  BY <1>2
<1> HIDE DEF decode, h
<1>4. UNION {decode(x) : x \in {h}} = decode(h)
  OBVIOUS
<1> QED
  BY <1>1, <1>3, <1>4

\* An encoded array of integers is read from its bytes.
LEMMA IntegerBytesDecode ==
  ASSUME NEW p \in Physicals, p \notin FloatTypes, NEW liquid, IntegerLiquid(liquid, NativeOf(p))
  PROVE  DecodeLiquidArray(PrimitiveToBytes(liquid, NativeOf(p), p))
           = {DecodedAs(ArrowType(p), ToArrow(liquid, NativeOf(p)))}
<1> DEFINE t == NativeOf(p)
           bytes == PrimitiveToBytes(liquid, t, p)
<1>1. WholeType(t)
  BY NativesAreWhole
<1>2. IntegerLiquid(liquid, t)
  OBVIOUS
<1>3. "Integer" \in Logicals
  BY DEF Logicals, LiquidDataTypes
<1> HIDE DEF t
<1>4. /\ ReadHeader(bytes) = {[logical |-> LogicalId("Integer"), physical |-> PhysicalId(p)]}
      /\ PrimitiveFromBytes(bytes, t) = {liquid}
  BY <1>1, <1>2, PrimitiveBytesRestore
<1> HIDE DEF bytes
<1>5. DecodeLiquidArray(bytes) = DecodeAs(bytes, "Integer", p)
  BY <1>3, <1>4, HeaderDecides
<1>6. DecodeAs(bytes, "Integer", p) = DecodeInteger(bytes, p)
  BY DEF DecodeAs
<1>7. DecodeInteger(bytes, p) = {DecodedAs(ArrowType(p), ToArrow(liquid, t))}
  BY <1>4 DEF DecodeInteger, t
<1> QED
  BY <1>5, <1>6, <1>7 DEF bytes, t

\* So is one of floats.
LEMMA FloatBytesDecode ==
  ASSUME NEW p \in Physicals, p \in FloatTypes, NEW liquid, FloatLiquid(liquid)
  PROVE  DecodeLiquidArray(FloatToBytes(liquid, p))
           = {DecodedAs(ArrowType(p), FloatToArrow(liquid))}
<1> DEFINE bytes == FloatToBytes(liquid, p)
<1>1. "Float" \in Logicals
  BY DEF Logicals, LiquidDataTypes
<1>2. ReadHeader(bytes) = {[logical |-> LogicalId("Float"), physical |-> PhysicalId(p)]}
  BY FloatBytesAre
<1>3. FloatFromBytes(bytes) = {liquid}
  BY FloatBytesRestore
<1> HIDE DEF bytes
<1>4. DecodeLiquidArray(bytes) = DecodeAs(bytes, "Float", p)
  BY <1>1, <1>2, HeaderDecides
<1>5. DecodeAs(bytes, "Float", p) = DecodeFloat(bytes, p)
  BY DEF DecodeAs
<1>6. DecodeFloat(bytes, p) = {DecodedAs(ArrowType(p), FloatToArrow(liquid))}
  BY <1>3 DEF DecodeFloat
<1> QED
  BY <1>4, <1>5, <1>6 DEF bytes

\* So is a linear model.
LEMMA LinearBytesDecode ==
  ASSUME NEW p \in Physicals, p \notin FloatTypes, p \notin Timestamps,
         NEW liquid, LinearLiquid(liquid)
  PROVE  DecodeLiquidArray(LinearToBytes(liquid, p))
           = {DecodedAs(ArrowType(p), LinearToArrow(liquid, NativeOf(p)))}
<1> DEFINE bytes == LinearToBytes(liquid, p)
<1>1. "LinearInteger" \in Logicals
  BY DEF Logicals, LiquidDataTypes
<1>2. /\ ReadHeader(bytes) = {[logical |-> LogicalId("LinearInteger"), physical |-> PhysicalId(p)]}
      /\ LinearFromBytes(bytes) = {liquid}
  BY LinearBytesOfModelRestore
<1> HIDE DEF bytes
<1>3. DecodeLiquidArray(bytes) = DecodeAs(bytes, "LinearInteger", p)
  BY <1>1, <1>2, HeaderDecides
<1>4. DecodeAs(bytes, "LinearInteger", p) = DecodeLinear(bytes, p)
  BY DEF DecodeAs
<1>5. DecodeLinear(bytes, p) = {DecodedAs(ArrowType(p), LinearToArrow(liquid, NativeOf(p)))}
  BY <1>2 DEF DecodeLinear
<1> QED
  BY <1>3, <1>4, <1>5 DEF bytes

\* A column of numbers has no compressor, and is no longer than its bound.
NumbersFit ==
  ColumnFits /\ (IsInteger \/ IsFloat => compressor = {} /\ Len(column) \in 0 .. MaxLength)

\* Only columns of strings and decimals are loaded in batches.
LEMMA NumbersStayFit ==
  /\ Init => NumbersFit
  /\ NumbersFit /\ [Next]_vars => NumbersFit'
<1>1. Init => NumbersFit
  <2>1. MaxLength \in Nat
    BY LinearAssumption
  <2> QED
    BY <2>1, ColumnStaysFit DEF Init, NumbersFit
<1>2. ASSUME NumbersFit, NEW slot \in Slots, AppendSlot(slot) PROVE NumbersFit'
  <2>1. ColumnFits'
    BY <1>2, ColumnStaysFit DEF NumbersFit, Next
  <2>2. Len(column) < Bound /\ column' = Append(column, slot) /\ type' = type
        /\ compressor' = compressor
    BY <1>2 DEF AppendSlot
  <2>3. IsInteger' = IsInteger /\ IsFloat' = IsFloat
    BY <2>2 DEF IsInteger, IsFloat
  <2>4. ASSUME IsInteger \/ IsFloat
        PROVE  compressor' = {} /\ Len(column') \in 0 .. MaxLength
    <3>1. compressor = {} /\ Len(column) \in 0 .. MaxLength /\ MaxLength \in Nat
      BY <1>2, <2>4, LinearAssumption DEF NumbersFit
    <3>2. Bound = MaxLength
      BY <2>4, <3>1 DEF Bound, IsInteger, IsFloat, IsString, IsDecimal
    <3>3. Len(column') = Len(column) + 1
      <4> DEFINE R == [valid : BOOLEAN, value : AllValues]
      <4>1. column \in Seq(R)
        BY <1>2 DEF NumbersFit, ColumnFits, ColumnOK
      <4> HIDE DEF R
      <4> QED
        BY <2>2, <4>1
    <3> QED
      BY <2>2, <3>1, <3>2, <3>3
  <2> QED
    BY <2>1, <2>3, <2>4 DEF NumbersFit
<1>3. ASSUME NumbersFit, NextBatch PROVE NumbersFit'
  <2>1. ColumnFits'
    BY <1>3, ColumnStaysFit DEF NumbersFit, Next
  <2>2. type'.kind \in {"string", "decimal"}
    BY <1>3 DEF NextBatch
  <2>3. ~(IsInteger \/ IsFloat)'
    BY <2>2 DEF IsInteger, IsFloat
  <2> QED
    BY <2>1, <2>3 DEF NumbersFit
<1>4. ASSUME NumbersFit, UNCHANGED vars PROVE NumbersFit'
  <2>1. ColumnFits'
    BY <1>4, ColumnStaysFit DEF NumbersFit, Next
  <2> QED
    BY <1>4, <2>1 DEF NumbersFit, vars, IsInteger, IsFloat
<1> QED
  BY <1>1, <1>2, <1>3, <1>4 DEF Next

\* Its slices are as long.
LEMMA SlicesAreShort ==
  ASSUME NumbersFit, IsInteger \/ IsFloat, NEW a \in ByteSlices
  PROVE  Length(a) \in 0 .. MaxLength
<1>1. ColumnOK /\ Len(column) \in 0 .. MaxLength
  BY DEF NumbersFit, ColumnFits
<1>2. PICK n \in {0, ByteBits} : a = SliceAfter(n)
  BY DEF ByteSlices
<1>3. n \in Nat
  BY <1>2, SizesAreNumbers
<1>4. Length(a) = Len(column)
  BY <1>1, <1>2, <1>3, SlicesOfColumn
<1> QED
  BY <1>1, <1>4

\* All slots of a slice of floats have a value, whose cast does not overflow.
LEMMA FloatValues ==
  ASSUME ColumnFits, IsFloat, NEW a \in ByteSlices
  PROVE  /\ Numerical(a)
         /\ \A i \in Index(a) : ValueOf(EncodeSingle(SlotAt(a, i).value), SignedInt)
<1>1. ByteSlice(a) /\ \A i \in Index(a) : Fitting(SlotAt(a, i))
  BY ByteSlicesOfColumn
<1> DEFINE lo == 2 * MinOf(SignedInt) - 1
           hi == 2 * MaxOf(SignedInt) + 1
<1>2. /\ MinOf(SignedInt) \in Int /\ MaxOf(SignedInt) \in Int
      /\ MinOf(SignedInt) <= 0 /\ 0 <= MaxOf(SignedInt)
  <2>1. IntegerType(SignedInt)
    BY FloatAssumption DEF IntegerType, SignedInt
  <2> QED
    BY <2>1, RangeOfType
<1>3. ValuesIn(type) = Floats
  BY DEF ValuesIn, IsFloat
<1>4. \A v \in Floats : v \in lo .. hi
  <2> TAKE v \in Floats
  <2>1. v \in Int /\ MinOf(SignedInt) <= EncodeSingle(v) /\ EncodeSingle(v) <= MaxOf(SignedInt)
    BY <1>2, FloatsAssumption
  <2> QED
    BY <1>2, <2>1 DEF EncodeSingle
<1>5. Max(Floats) \in Floats
  <2>1. lo \in Int /\ hi \in Int /\ Floats \in SUBSET (lo .. hi) /\ Floats # {}
    BY <1>2, <1>4, FloatsAssumption
  <2> HIDE DEF lo, hi
  <2> QED
    BY <2>1, ExtremesExist
<1>6. \A i \in Index(a) : SlotAt(a, i).value \in Floats \cup {0}
  <2>1. Fillers(type) = {0, Max(Floats)}
    BY <1>3 DEF Fillers, Filler, IsFloat
  <2> QED
    BY <1>1, <1>3, <1>5, <2>1 DEF Fitting
<1>7. EncodeSingle(0) = 0
  BY DEF EncodeSingle
<1>8. \A v \in Floats \cup {0} : v \in Int /\ ValueOf(EncodeSingle(v), SignedInt)
  BY <1>2, <1>7, FloatsAssumption DEF ValueOf
<1> QED
  BY <1>6, <1>8 DEF Numerical

\* A slice of the column, or a column without such slices' offset.
LEMMA IntegerSlices ==
  ASSUME ColumnFits, IsInteger, NEW t \in ArrowTypes, NEW a \in ByteSlices
  PROVE  /\ IntegerType(NativeType) /\ IntegerSlice(a, NativeType)
         /\ NativeOf(t.id) = NativeType /\ t.id \notin FloatTypes
         /\ t.id \in Timestamps => NativeOf("Int64") = NativeType
<1>1. IntegerType(type) /\ IntegerSlice(a, type)
  BY IntegerColumns
<1>2. NativeOf(t.id) = NativeType /\ (t.id \in FloatTypes <=> IsFloat)
  BY TypesOfNumbers
<1>3. ~IsFloat
  BY DEF IsInteger, IsFloat
<1> QED
  BY <1>1, <1>2, <1>3
  DEF IntegerType, IntegerSlice, NativeType, ValueOf, MinOf, MaxOf, NativeOf, Timestamps

\* What transcode_arrow_array writes of a column of integers is its encoding's
\* bytes, those of a timestamp renamed.
LEMMA IntegersAreTranscoded ==
  ASSUME NumbersFit, IsInteger, NEW t \in ArrowTypes, NEW a \in ByteSlices
  PROVE  TranscodeArrowArray(t, a) = PrimitiveToBytes(FromArrow(a, NativeType), NativeType, t.id)
<1> DEFINE liquid == FromArrow(a, NativeType)
<1>1. /\ t = ArrowType(t.id) /\ t.id \in Physicals
      /\ t.id \notin StringTypes /\ t.id \notin Decimals
  BY TypesOfNumbers
<1>2. /\ IntegerType(NativeType) /\ IntegerSlice(a, NativeType)
      /\ NativeOf(t.id) = NativeType /\ t.id \notin FloatTypes
      /\ t.id \in Timestamps => NativeOf("Int64") = NativeType
  BY IntegerSlices DEF NumbersFit
<1>3. Supported(t) /\ Logical(t, a) = "Integer"
  BY <1>1, <1>2 DEF Supported, Logical, ArrowType
<1>4. CASE t.id \notin Timestamps
  BY <1>2, <1>3, <1>4 DEF TranscodeArrowArray, Encode
<1>5. CASE t.id \in Timestamps
  <2>1. TranscodeArrowArray(t, a)
          = WithPhysical(PrimitiveToBytes(liquid, NativeType, "Int64"), t.id)
    BY <1>2, <1>3, <1>5 DEF TranscodeArrowArray, Encode
  <2>2. WholeType(NativeType)
    BY <1>1, <1>2, NativesAreWhole
  <2>3. IntegerLiquid(liquid, NativeType)
    BY <1>2, SlicesAreShort, IntegersAreLiquid
  <2>4. "Int64" \in Physicals
    BY DEF Physicals, PhysicalTypes
  <2> QED
    BY <1>1, <2>1, <2>2, <2>3, <2>4, PhysicalIsReplaced
<1> QED
  BY <1>4, <1>5

\* A column of integers or floats is read from the bytes transcode_arrow_array
\* writes of it as an array of the column's own type, with its nulls and values.
LEMMA TranscodedNumbersDecode ==
  ASSUME NumbersFit, IsInteger \/ IsFloat, NEW t \in ArrowTypes, NEW a \in ByteSlices
  PROVE  DecodesTo(TranscodeArrowArray(t, a), t, a)
<1>1. /\ t = ArrowType(t.id) /\ t.id \in Physicals /\ (t.id \in FloatTypes <=> IsFloat)
      /\ t.id \notin StringTypes /\ t.id \notin Decimals
  BY TypesOfNumbers
<1>2. Length(a) \in 0 .. MaxLength /\ ColumnFits
  BY SlicesAreShort DEF NumbersFit
<1>3. CASE IsInteger
  <2> DEFINE liquid == FromArrow(a, NativeType)
             slots == ToArrow(liquid, NativeType)
  <2>1. /\ IntegerType(NativeType) /\ IntegerSlice(a, NativeType)
        /\ NativeOf(t.id) = NativeType /\ t.id \notin FloatTypes
    BY <1>2, <1>3, IntegerSlices
  <2>2. IntegerLiquid(liquid, NativeType)
    BY <1>2, <2>1, IntegersAreLiquid
  <2>3. Restores(slots, a)
    BY <2>1, FrameOfReferenceRestores
  <2>4. TranscodeArrowArray(t, a) = PrimitiveToBytes(liquid, NativeType, t.id)
    BY <1>3, IntegersAreTranscoded
  <2> HIDE DEF liquid
  <2>5. DecodeLiquidArray(TranscodeArrowArray(t, a)) = {DecodedAs(t, slots)}
    BY <1>1, <2>1, <2>2, <2>4, IntegerBytesDecode
  <2> HIDE DEF slots
  <2> QED
    BY <2>3, <2>5 DEF DecodesTo, DecodedAs
<1>4. CASE IsFloat
  <2> DEFINE liquid == FloatFromArrow(a)
             slots == FloatToArrow(liquid)
  <2>1. FloatSlice(a) /\ Numerical(a)
    BY <1>2, <1>4, FloatColumns, FloatValues
  <2>2. FloatLiquid(liquid)
    BY <1>2, <2>1, FloatsAreLiquid
  <2>3. Restores(slots, a)
    BY <2>1, FloatsRestore
  <2>4. TranscodeArrowArray(t, a) = FloatToBytes(liquid, t.id)
    <3>1. Supported(t) /\ Logical(t, a) = "Float" /\ t.id \notin Timestamps
      BY <1>1, <1>4 DEF Supported, Logical, ArrowType, FloatTypes, Timestamps
    <3> QED
      BY <3>1 DEF TranscodeArrowArray, Encode
  <2> HIDE DEF liquid
  <2>5. DecodeLiquidArray(TranscodeArrowArray(t, a)) = {DecodedAs(t, slots)}
    BY <1>1, <1>4, <2>2, <2>4, FloatBytesDecode
  <2> HIDE DEF slots
  <2> QED
    BY <2>3, <2>5 DEF DecodesTo, DecodedAs
<1> QED
  BY <1>3, <1>4

\* What transcode_arrow_array writes of a column of integers or floats, and the
\* bytes of an integer column's linear model, are read back.
THEOREM NumbersRestoreFromBytes == Spec => [](IsInteger \/ IsFloat => BytesRestore)
<1>1. ASSUME NumbersFit, IsInteger \/ IsFloat, NEW t \in ArrowTypes, NEW a \in ByteSlices
      PROVE  DecodesTo(TranscodeArrowArray(t, a), PlainType(t), a)
  <2>1. PlainType(t) = t
    BY <1>1 DEF PlainType, IsInteger, IsFloat, IsString
  <2> QED
    BY <1>1, <2>1, TranscodedNumbersDecode
<1>2. ASSUME NumbersFit, IsInteger, NEW t \in ArrowTypes, t.id \notin Timestamps
      PROVE  LinearBytesRestore(t, LinearFromArrow(Array(column, 0), NativeType))
  <2> DEFINE a == Array(column, 0)
             liquid == LinearFromArrow(a, NativeType)
  <2>1. ColumnFits /\ ColumnOK
    BY <1>2 DEF NumbersFit, ColumnFits
  <2>2. a \in ByteSlices /\ a \in AllSlices
    BY <2>1, ColumnIsSlice
  <2>3. IntegerType(type) /\ LinearSlice(a, type)
    BY <1>2, <2>1, <2>2, LinearColumns
  <2>4. IntegerType(NativeType) /\ LinearSlice(a, NativeType)
    <3> HIDE DEF a
    <3> QED
      BY <2>3 DEF IntegerType, LinearSlice, NativeType, ValueOf, MinOf, MaxOf
  <2>5. Length(a) \in 0 .. MaxLength
    BY <1>2, <2>2, SlicesAreShort
  <2> HIDE DEF a
  <2>6. LinearLiquid(liquid)
    BY <2>4, <2>5, LinearsAreLiquid
  <2>7. /\ t = ArrowType(t.id) /\ t.id \in Physicals /\ t.id \notin FloatTypes
        /\ NativeOf(t.id) = NativeType
    BY <1>2, TypesOfNumbers DEF IsInteger, IsFloat
  <2> HIDE DEF liquid
  <2>8. DecodeLiquidArray(LinearToBytes(liquid, t.id))
          = {DecodedAs(t, LinearToArrow(liquid, NativeType))}
    BY <1>2, <2>6, <2>7, LinearBytesDecode
  <2>9. LinearBytesRestore(t, liquid)
    BY <2>8 DEF LinearBytesRestore
  <2> QED
    BY <2>9 DEF liquid, a
<1>3. NumbersFit => (IsInteger \/ IsFloat => BytesRestore)
  BY <1>1, <1>2 DEF BytesRestore
<1> QED
  BY <1>3, NumbersStayFit, PTL DEF Spec

-----------------------------------------------------------------------------
(* What the encoders for raw buffers write.                                *)

\* Differences come back whatever the width they are packed with, if it is
\* enough for the greatest.
LEMMA DifferencesOfAnyWidth ==
  ASSUME NEW t, IntegerType(t), NEW a, Length(a) \in Nat,
         NEW V, NEW e, NEW min, NEW max, Bounded(a, V, e, min, max, t),
         NEW nulls, NEW width \in 0 .. WordBits, max - min < 2^width,
         NEW packed,
         packed = Pack(Words(a, [i \in Index(a) |-> Unsigned(e[i] - min, t)]), nulls, width)
  PROVE  /\ DOMAIN BulkUnpack(packed, t.bits) = Index(a)
         /\ packed.nulls = nulls
         /\ \A i \in V : Native(min + Number(BulkUnpack(packed, t.bits)[i]), t) = e[i]
<1> DEFINE offsets == [i \in Index(a) |-> Unsigned(e[i] - min, t)]
           temp == BulkUnpack(packed, t.bits)
           m == 2^t.bits
<1>1. /\ m \in Nat \ {0} /\ t.bits \in 0 .. WordBits
      /\ MinOf(t) \in Int /\ MaxOf(t) \in Int /\ MaxOf(t) - MinOf(t) < m
  BY RangeOfType
<1>2. V \subseteq Index(a) /\ \A i \in Index(a) : offsets[i] = Unsigned(e[i] - min, t)
  BY DEF Bounded
<1> HIDE DEF offsets, temp
<1>3. /\ DOMAIN temp = Index(a) /\ packed.nulls = nulls
      /\ \A i \in Index(a) : offsets[i] \in Nat /\ offsets[i] < 2^width /\ offsets[i] < m
           => Number(temp[i]) = offsets[i]
  BY <1>1, NumbersComeBack DEF offsets, temp
<1>4. 2^width \in Int
  BY PowersGrow
<1>5. ASSUME NEW i \in V PROVE Native(min + Number(temp[i]), t) = e[i]
  <2> DEFINE v == e[i]
             d == v - min
             n == min + Number(temp[i])
  <2>1. ValueOf(v, t) /\ ValueOf(min, t) /\ ValueOf(max, t) /\ min <= v /\ v <= max
    BY DEF Bounded
  <2>2. v \in Int /\ min \in Int /\ max \in Int
    BY <1>1, <2>1 DEF ValueOf
  <2> HIDE DEF v, m
  <2>3. d \in Nat /\ d < m /\ d < 2^width
    BY <1>1, <1>4, <2>1, <2>2 DEF ValueOf
  <2>4. Unsigned(d, t) = d
    <3> HIDE DEF d
    <3>1. d % m = d
      BY <1>1, <2>3
    <3> QED
      BY <3>1 DEF Unsigned, m
  <2>5. offsets[i] = d
    BY <1>2, <2>4 DEF v
  <2> HIDE DEF d
  <2>6. Number(temp[i]) = d
    BY <1>2, <1>3, <2>3, <2>5
  <2>7. n = v + 0 * m
    BY <1>1, <2>2, <2>6 DEF d
  <2> HIDE DEF n
  <2> QED
    BY <2>1, <2>2, <2>7, NativeRestores DEF v, m, n
<1> QED
  BY <1>3, <1>5 DEF temp

\* What is decoded restores a slice if its nulls and its numbers come back.
LEMMA NumbersRestore ==
  ASSUME NEW t, NEW a, ByteSlice(a), NEW liquid, liquid.packed.nulls = NullBits(a),
         DOMAIN BulkUnpack(liquid.packed, t.bits) = Index(a),
         \A i \in ValidIn(a) :
           Native(liquid.reference + Number(BulkUnpack(liquid.packed, t.bits)[i]), t)
             = SlotAt(a, i).value
  PROVE  Restores(ToArrow(liquid, t), a)
<1> DEFINE temp == BulkUnpack(liquid.packed, t.bits)
           decoded == ToArrow(liquid, t)
<1>1. /\ ValidIn(a) \in SUBSET Index(a)
      /\ \A i \in Index(a) : i \in ValidIn(a) <=> SlotAt(a, i).valid
      /\ \A i \in Index(a) : SlotAt(a, i).valid \in BOOLEAN
  BY SliceIs DEF ByteSlice
<1>2. decoded = [i \in DOMAIN temp |->
                   [valid |-> ~IsNull(liquid.packed, i),
                    value |-> Native(liquid.reference + Number(temp[i]), t)]]
  BY DEF ToArrow
<1>3. \A i \in Index(a) : IsNull(liquid.packed, i) <=> i \notin ValidIn(a)
  BY NullsAreKept
<1> HIDE DEF temp, decoded
<1>4. DOMAIN temp = Index(a)
  BY DEF temp
<1>5. ASSUME NEW i \in Index(a)
      PROVE  /\ decoded[i].valid = SlotAt(a, i).valid
             /\ decoded[i].valid => decoded[i].value = SlotAt(a, i).value
  <2>1. /\ decoded[i].valid = ~IsNull(liquid.packed, i)
        /\ decoded[i].value = Native(liquid.reference + Number(temp[i]), t)
    BY <1>2, <1>4
  <2>2. (decoded[i].valid <=> SlotAt(a, i).valid) /\ decoded[i].valid \in BOOLEAN
    BY <1>1, <1>3, <2>1
  <2>3. i \in ValidIn(a) => decoded[i].value = SlotAt(a, i).value
    BY <2>1 DEF temp
  <2> QED
    BY <1>1, <2>2, <2>3
<1>6. DOMAIN decoded = Index(a)
  BY <1>2, <1>4
<1> QED
  BY <1>5, <1>6 DEF Restores, decoded

\* What transcode_primitive encodes.
RawIntegers(a, t) ==
  LET valid == ValuesOf(a)
      reference == IF valid = {} THEN 0 ELSE Min(valid)
      range == IF valid = {} THEN MinOf(t) - MaxOf(t) ELSE Max(valid) - Min(valid)
  IN  [reference |-> reference,
       packed |-> Pack(Words(a, [i \in Index(a) |-> Unsigned(SlotAt(a, i).value - reference, t)]),
                       NullBits(a), ComputeBitWidth(Unsigned(range, t)))]

\* It has a place in a buffer and restores the slice.
LEMMA RawIntegersRestore ==
  ASSUME NEW t, IntegerType(t), NEW a, IntegerSlice(a, t), Length(a) \in 1 .. MaxLength,
         NEW p
  PROVE  /\ TranscodePrimitive(a, t, p) = PrimitiveToBytes(RawIntegers(a, t), t, p)
         /\ IntegerLiquid(RawIntegers(a, t), t)
         /\ Restores(ToArrow(RawIntegers(a, t), t), a)
<1> DEFINE valid == ValuesOf(a)
           reference == IF valid = {} THEN 0 ELSE Min(valid)
           range == IF valid = {} THEN MinOf(t) - MaxOf(t) ELSE Max(valid) - Min(valid)
           e == [i \in Index(a) |-> SlotAt(a, i).value]
           offsets == [i \in Index(a) |-> Unsigned(e[i] - reference, t)]
           width == ComputeBitWidth(Unsigned(range, t))
           packed == Pack(Words(a, offsets), NullBits(a), width)
           liquid == RawIntegers(a, t)
<1>1. /\ Length(a) \in Nat /\ Length(a) # 0 /\ Length(a) \in 0 .. MaxLength
      /\ ValidIn(a) \in SUBSET Index(a) /\ ByteSlice(a)
      /\ \A i \in ValidIn(a) : ValueOf(SlotAt(a, i).value, t)
      /\ MaxLength \in Nat
  BY SliceIs, LinearAssumption DEF IntegerSlice
<1>2. TranscodePrimitive(a, t, p) = PrimitiveToBytes(liquid, t, p)
  BY <1>1 DEF TranscodePrimitive, RawIntegers
<1>3. offsets = [i \in Index(a) |-> Unsigned(SlotAt(a, i).value - reference, t)]
  <2> HIDE DEF reference
  <2> QED
    OBVIOUS
<1>4. liquid = [reference |-> reference, packed |-> packed]
  BY <1>3 DEF RawIntegers
<1>5. MinOf(t) \in Int /\ MaxOf(t) \in Int /\ ValueOf(0, t)
  BY RangeOfType DEF ValueOf
<1>6. valid # {} => /\ ValueOf(Min(valid), t) /\ ValueOf(Max(valid), t)
                    /\ Min(valid) <= Max(valid)
                    /\ \A x \in valid : Min(valid) <= x /\ x <= Max(valid)
  <2>1. \A x \in valid : ValueOf(x, t)
    BY <1>1 DEF ValuesOf
  <2> HIDE DEF valid
  <2> QED
    BY <2>1, ExtremesOfType
<1> DEFINE low == Min(valid)
           high == Max(valid)
<1>7. ValueOf(reference, t) /\ range \in Int
  <2> HIDE DEF valid
  <2>1. valid # {} => low \in Int /\ high \in Int
    BY <1>5, <1>6 DEF ValueOf
  <2> HIDE DEF low, high
  <2>2. valid # {} => high - low \in Int
    BY <2>1
  <2> QED
    BY <1>5, <1>6, <2>2 DEF low, high
<1> HIDE DEF reference, range
<1>8. width \in 0 .. WordBits /\ Unsigned(range, t) < 2^width
  BY <1>7, WidthsFit
<1> HIDE DEF width
<1>9. IntegerLiquid(liquid, t)
  <2>1. Packable(packed)
    <3> HIDE DEF offsets
    <3> QED
      BY <1>1, <1>8, SliceIsPackable
  <2> HIDE DEF packed, liquid
  <2> QED
    BY <1>4, <1>7, <2>1 DEF IntegerLiquid
<1>10. /\ DOMAIN BulkUnpack(packed, t.bits) = Index(a) /\ packed.nulls = NullBits(a)
       /\ \A i \in ValidIn(a) :
            Native(reference + Number(BulkUnpack(packed, t.bits)[i]), t) = SlotAt(a, i).value
  <2>1. CASE ValidIn(a) = {}
    <3> HIDE DEF offsets
    <3>1. t.bits \in 0 .. WordBits
      BY RangeOfType
    <3>2. DOMAIN BulkUnpack(packed, t.bits) = Index(a) /\ packed.nulls = NullBits(a)
      BY <1>1, <1>8, <3>1, NumbersComeBack
    <3> QED
      BY <2>1, <3>2
  <2>2. CASE ValidIn(a) # {}
    <3>1. valid # {}
      BY <2>2 DEF ValuesOf
    <3>2. \A i \in ValidIn(a) : e[i] = SlotAt(a, i).value /\ e[i] \in valid
      BY <1>1 DEF ValuesOf
    <3> HIDE DEF valid, e, low, high
    <3>3. reference = low /\ range = high - low
      BY <3>1 DEF reference, range, low, high
    <3>4. /\ ValueOf(low, t) /\ ValueOf(high, t) /\ low <= high
          /\ \A x \in valid : low <= x /\ x <= high
      BY <1>6, <3>1 DEF low, high
    <3>5. Bounded(a, ValidIn(a), e, low, high, t)
      BY <1>1, <3>2, <3>4 DEF Bounded
    <3>6. high - low < 2^width
      <4> DEFINE m == 2^t.bits
      <4>1. m \in Nat \ {0} /\ MaxOf(t) - MinOf(t) < m
        BY RangeOfType
      <4> HIDE DEF m
      <4>2. high - low \in 0 .. m - 1
        BY <1>5, <3>4, <4>1 DEF ValueOf
      <4>3. (high - low) % m = high - low
        BY <4>1, <4>2
      <4>4. Unsigned(range, t) = high - low
        BY <3>3, <4>3 DEF Unsigned, m
      <4> QED
        BY <1>8, <4>4
    <3>7. packed = Pack(Words(a, [i \in Index(a) |-> Unsigned(e[i] - low, t)]), NullBits(a), width)
      BY <3>3
    <3> HIDE DEF packed
    <3>8. /\ DOMAIN BulkUnpack(packed, t.bits) = Index(a) /\ packed.nulls = NullBits(a)
          /\ \A i \in ValidIn(a) : Native(low + Number(BulkUnpack(packed, t.bits)[i]), t) = e[i]
      BY <1>1, <1>8, <3>5, <3>6, <3>7, DifferencesOfAnyWidth
    <3> QED
      BY <3>2, <3>3, <3>8
  <2> QED
    BY <2>1, <2>2
<1> HIDE DEF packed, liquid
<1>11. liquid.reference = reference /\ liquid.packed = packed
  BY <1>4
<1>12. Restores(ToArrow(liquid, t), a)
  BY <1>1, <1>10, <1>11, NumbersRestore
<1> QED
  BY <1>2, <1>9, <1>12 DEF liquid

\* What transcode_float encodes has a place in a buffer and restores the slice:
\* whole steps from their encoding, the other values from the patches.
LEMMA RawFloatsRestore ==
  ASSUME NEW a, ByteSlice(a), Length(a) \in 1 .. MaxLength, Numerical(a),
         \A i \in Index(a) : ValueOf(EncodeSingle(SlotAt(a, i).value), SignedInt)
  PROVE  FloatLiquid(EncodeFloats(a)) /\ Restores(FloatToArrow(EncodeFloats(a)), a)
<1> DEFINE t == SignedInt
           patches == Halves(a)
           exact == Index(a) \ patches
           first == IF exact = {} THEN 0 ELSE Min(exact)
           fill == EncodeSingle(SlotAt(a, first).value)
           encoded == [i \in Index(a) |-> IF i \in patches THEN fill
                                          ELSE EncodeSingle(SlotAt(a, i).value)]
           all == {encoded[i] : i \in Index(a)}
           min == Min(all)
           max == Max(all)
           offsets == [i \in Index(a) |-> Unsigned(encoded[i] - min, t)]
           width == ComputeBitWidth(Unsigned(max - min, t))
           packed == Pack(Words(a, offsets), NullBits(a), width)
           values == [i \in patches |-> SlotAt(a, i).value]
           liquid == EncodeFloats(a)
           temp == BulkUnpack(liquid.packed, FloatBits)
           number(i) == Native(liquid.reference + Number(temp[i]), t)
           decoded == FloatToArrow(liquid)
<1>1. /\ Length(a) \in Nat /\ Length(a) \in 0 .. MaxLength /\ MaxLength \in Nat
      /\ Index(a) = 0 .. Length(a) - 1 /\ 0 \in Index(a) /\ ValidIn(a) \in SUBSET Index(a)
      /\ \A i \in Index(a) : i \in ValidIn(a) <=> SlotAt(a, i).valid
      /\ \A i \in Index(a) : SlotAt(a, i).valid \in BOOLEAN
  BY SliceIs, LinearAssumption DEF ByteSlice
<1>2. IntegerType(t) /\ t.bits = FloatBits
  BY FloatAssumption DEF IntegerType, SignedInt
<1>3. liquid = [reference |-> min, packed |-> packed, patches |-> patches, values |-> values]
  BY DEF EncodeFloats, Halves
<1>4. /\ patches \in SUBSET Index(a)
      /\ \A i \in Index(a) \ patches :
           DecodeSingle(EncodeSingle(SlotAt(a, i).value)) = SlotAt(a, i).value
  BY DEF Halves
<1>5. first \in Index(a)
  <2>1. 0 \in Int /\ Length(a) - 1 \in Int /\ exact \in SUBSET (0 .. Length(a) - 1)
    BY <1>1
  <2>2. exact \subseteq Index(a)
    OBVIOUS
  <2> HIDE DEF exact
  <2>3. exact # {} => Min(exact) \in exact
    BY <2>1, ExtremesExist
  <2> QED
    BY <1>1, <2>2, <2>3
<1> HIDE DEF first, patches, exact
<1>6. \A i \in Index(a) : ValueOf(encoded[i], t)
  BY <1>5
<1>7. \A i \in Index(a) \ patches :
        /\ encoded[i] = EncodeSingle(SlotAt(a, i).value)
        /\ DecodeSingle(encoded[i]) = SlotAt(a, i).value
  BY <1>4
<1> HIDE DEF encoded
<1>8. /\ ValueOf(min, t) /\ ValueOf(max, t) /\ min <= max
      /\ \A i \in Index(a) : min <= encoded[i] /\ encoded[i] <= max
  <2>1. /\ all # {}
        /\ \A x \in all : ValueOf(x, t)
        /\ \A i \in Index(a) : encoded[i] \in all
    BY <1>1, <1>6
  <2> HIDE DEF all
  <2> QED
    BY <1>2, <2>1, ExtremesOfType
<1> HIDE DEF min, max
<1>9. MinOf(t) \in Int /\ MaxOf(t) \in Int /\ max - min \in Int
  <2>1. MinOf(t) \in Int /\ MaxOf(t) \in Int
    BY <1>2, RangeOfType
  <2> QED
    BY <1>8, <2>1 DEF ValueOf
<1>10. width \in 0 .. WordBits /\ max - min < 2^width
  <2>1. width \in 0 .. WordBits /\ Unsigned(max - min, t) < 2^width
    BY <1>2, <1>9, WidthsFit
  <2> DEFINE m == 2^t.bits
  <2>2. m \in Nat \ {0} /\ MaxOf(t) - MinOf(t) < m
    BY <1>2, RangeOfType
  <2>3. Unsigned(max - min, t) = (max - min) % m
    BY DEF Unsigned
  <2> HIDE DEF m, width
  <2>4. max - min \in 0 .. m - 1
    BY <1>8, <1>9, <2>2 DEF ValueOf
  <2>5. (max - min) % m = max - min
    BY <2>2, <2>4
  <2> QED
    BY <2>1, <2>3, <2>5
<1> HIDE DEF width
<1>11. FloatLiquid(liquid)
  <2>1. Packable(packed)
    <3> HIDE DEF offsets
    <3> QED
      BY <1>1, <1>10, SliceIsPackable
  <2>2. values \in [patches -> Int]
    BY <1>4 DEF Numerical
  <2>3. patches \in SUBSET (0 .. MaxLength - 1)
    <3>1. \A i \in Index(a) : i \in 0 .. MaxLength - 1
      BY <1>1
    <3> QED
      BY <1>4, <3>1
  <2> HIDE DEF packed, liquid, values
  <2> QED
    BY <1>3, <1>8, <2>1, <2>2, <2>3 DEF FloatLiquid
<1>12. liquid.reference = min /\ liquid.packed = packed /\ liquid.patches = patches
       /\ \A i \in patches : liquid.values[i] = SlotAt(a, i).value
  <2> HIDE DEF packed
  <2> QED
    BY <1>3
<1>13. /\ DOMAIN BulkUnpack(packed, t.bits) = Index(a) /\ packed.nulls = NullBits(a)
       /\ \A i \in Index(a) :
            Native(min + Number(BulkUnpack(packed, t.bits)[i]), t) = encoded[i]
  <2>1. Bounded(a, Index(a), encoded, min, max, t)
    BY <1>6, <1>8 DEF Bounded
  <2>2. packed = Pack(Words(a, [i \in Index(a) |-> Unsigned(encoded[i] - min, t)]), NullBits(a),
                      width)
    OBVIOUS
  <2> HIDE DEF packed, t
  <2>3. Length(a) \in Nat /\ IntegerType(t) /\ width \in 0 .. WordBits /\ max - min < 2^width
    BY <1>1, <1>2, <1>10
  <2> QED
    BY <2>1, <2>2, <2>3, DifferencesOfAnyWidth
<1>14. decoded = [i \in DOMAIN temp |->
                    [valid |-> ~IsNull(liquid.packed, i),
                     value |-> IF i \in liquid.patches THEN liquid.values[i]
                               ELSE DecodeSingle(number(i))]]
  BY DEF FloatToArrow
<1>15. \A i \in Index(a) : IsNull(packed, i) <=> i \notin ValidIn(a)
  BY <1>13, NullsAreKept
<1>16. DOMAIN temp = Index(a) /\ \A i \in Index(a) : number(i) = encoded[i]
  <2> HIDE DEF packed, liquid
  <2> QED
    BY <1>2, <1>12, <1>13
<1> HIDE DEF packed, liquid, temp, number, decoded
<1>17. ASSUME NEW i \in Index(a)
       PROVE  /\ decoded[i].valid = SlotAt(a, i).valid
              /\ decoded[i].valid => decoded[i].value = SlotAt(a, i).value
  <2>1. /\ decoded[i].valid = ~IsNull(liquid.packed, i)
        /\ decoded[i].value = IF i \in liquid.patches THEN liquid.values[i]
                              ELSE DecodeSingle(number(i))
    BY <1>14, <1>16
  <2>2. (decoded[i].valid <=> SlotAt(a, i).valid) /\ decoded[i].valid \in BOOLEAN
    BY <1>1, <1>12, <1>15, <2>1
  <2>3. decoded[i].value = SlotAt(a, i).value
    BY <1>7, <1>12, <1>16, <2>1
  <2> QED
    BY <1>1, <2>2, <2>3
<1>18. DOMAIN decoded = Index(a)
  BY <1>14, <1>16
<1> QED
  BY <1>11, <1>17, <1>18 DEF Restores, decoded, liquid

\* What the encoders for raw buffers write of a column of numbers that is not
\* empty decodes to an array of the column's type, with its nulls and values.
THEOREM RawNumbersRestore == Spec => []RawBuffersRestore
<1>1. ASSUME NumbersFit, column # <<>>, IsInteger \/ IsFloat, NEW t \in ArrowTypes
      PROVE  DecodesTo(IF IsFloat THEN TranscodeFloat(Array(column, 0), t.id)
                       ELSE TranscodePrimitive(Array(column, 0), NativeType, t.id),
                       t, Array(column, 0))
  <2> DEFINE a == Array(column, 0)
  <2>1. ColumnFits /\ ColumnOK
    BY <1>1 DEF NumbersFit, ColumnFits
  <2>2. a \in ByteSlices
    BY <2>1, ColumnIsSlice
  <2>3. Length(a) \in 1 .. MaxLength
    <3>1. Length(a) = Len(column)
      <4>1. Len(column) \in Nat
        BY <2>1 DEF ColumnOK
      <4> QED
        BY <4>1 DEF Array, Length
    <3>2. Len(column) # 0
      <4> DEFINE R == [valid : BOOLEAN, value : AllValues]
      <4>1. column \in Seq(R)
        BY <2>1 DEF ColumnOK
      <4> HIDE DEF R
      <4> QED
        BY <1>1, <4>1
    <3> QED
      BY <1>1, <3>1, <3>2 DEF NumbersFit
  <2>4. /\ t = ArrowType(t.id) /\ t.id \in Physicals /\ (t.id \in FloatTypes <=> IsFloat)
    BY <1>1, TypesOfNumbers
  <2> HIDE DEF a
  <2>5. CASE IsFloat
    <3> DEFINE liquid == EncodeFloats(a)
               slots == FloatToArrow(liquid)
    <3>1. ByteSlice(a)
      BY <2>1, <2>2, ByteSlicesOfColumn
    <3>2. FloatLiquid(liquid) /\ Restores(slots, a)
      BY <2>1, <2>2, <2>3, <2>5, <3>1, FloatValues, RawFloatsRestore
    <3>3. TranscodeFloat(a, t.id) = FloatToBytes(liquid, t.id)
      BY DEF TranscodeFloat
    <3> HIDE DEF liquid
    <3>4. DecodeLiquidArray(TranscodeFloat(a, t.id)) = {DecodedAs(t, slots)}
      BY <2>4, <2>5, <3>2, <3>3, FloatBytesDecode
    <3> HIDE DEF slots
    <3>5. DecodesTo(TranscodeFloat(a, t.id), t, a)
      BY <3>2, <3>4 DEF DecodesTo, DecodedAs
    <3> QED
      BY <2>5, <3>5 DEF a
  <2>6. CASE ~IsFloat
    <3> DEFINE liquid == RawIntegers(a, NativeType)
               slots == ToArrow(liquid, NativeType)
    <3>1. /\ IntegerType(NativeType) /\ IntegerSlice(a, NativeType)
          /\ NativeOf(t.id) = NativeType /\ t.id \notin FloatTypes
      BY <1>1, <2>1, <2>2, <2>6, IntegerSlices
    <3>2. /\ TranscodePrimitive(a, NativeType, t.id) = PrimitiveToBytes(liquid, NativeType, t.id)
          /\ IntegerLiquid(liquid, NativeType) /\ Restores(slots, a)
      BY <2>3, <3>1, RawIntegersRestore
    <3> HIDE DEF liquid
    <3>3. DecodeLiquidArray(TranscodePrimitive(a, NativeType, t.id)) = {DecodedAs(t, slots)}
      BY <2>4, <3>1, <3>2, IntegerBytesDecode
    <3> HIDE DEF slots
    <3>4. DecodesTo(TranscodePrimitive(a, NativeType, t.id), t, a)
      BY <3>2, <3>3 DEF DecodesTo, DecodedAs
    <3> QED
      BY <2>6, <3>4 DEF a
  <2> QED
    BY <2>5, <2>6
<1>2. NumbersFit => RawBuffersRestore
  BY <1>1 DEF RawBuffersRestore
<1> QED
  BY <1>2, NumbersStayFit, PTL DEF Spec

-----------------------------------------------------------------------------
(* Runs.                                                                   *)

\* A signed number is what its remainder is cast to, however wide its type.
LEMMA SignedRestores ==
  ASSUME NEW b \in Nat \ {0}, NEW h, h = 2^(b - 1), NEW v \in Int, -h <= v, v < h
  PROVE  Native(v % 2^b, [bits |-> b, signed |-> TRUE]) = v
<1> DEFINE t == [bits |-> b, signed |-> TRUE]
<1>1. PICK m : m = 2^b
  OBVIOUS
<1>2. h \in Nat \ {0} /\ m = 2 * h /\ m \in Nat \ {0}
  <2>1. b - 1 \in Nat /\ (b - 1) + 1 = b
    OBVIOUS
  <2>2. 2^((b - 1) + 1) = 2 * 2^(b - 1) /\ 2^(b - 1) \in Nat \ {0}
    BY <2>1, PowerDoubles, PowersGrow
  <2> QED
    BY <1>1, <2>1, <2>2
<1>3. PICK r : r = v % m
  OBVIOUS
<1>4. /\ r \in 0 .. m - 1
      /\ v >= 0 => r = v
      /\ v < 0 => r = v + m
  <2>1. CASE v >= 0
    <3>1. v \in 0 .. m - 1
      BY <1>2, <2>1
    <3> QED
      BY <1>2, <1>3, <2>1, <3>1
  <2>2. CASE v < 0
    <3>1. v + m \in 0 .. m - 1 /\ v = v + 0 * m
      BY <1>2, <2>2
    <3>2. v % m = v + m
      BY <1>2, <3>1, RemainderBelow
    <3> QED
      BY <1>3, <2>2, <3>1, <3>2
  <2> QED
    BY <2>1, <2>2
<1>5. t.bits = b /\ t.signed
  OBVIOUS
<1> HIDE DEF t
<1>6. MaxOf(t) = h - 1
  BY <1>5 DEF MaxOf
<1>7. Unsigned(r, t) = r
  <2>1. r % m = r
    BY <1>2, <1>4
  <2> QED
    BY <1>1, <1>5, <2>1 DEF Unsigned
<1>8. Native(r, t) = IF r > h - 1 THEN r - m ELSE r
  BY <1>1, <1>5, <1>6, <1>7 DEF Native
<1>9. Native(r, t) = v
  BY <1>2, <1>4, <1>8
<1> QED
  BY <1>1, <1>3, <1>9 DEF t

\* A number that `size` bytes hold with its sign.
InBytes(v, size) ==
  v \in Int /\ -(2^(size * ByteBits - 1)) <= v /\ v < 2^(size * ByteBits - 1)

\* Such a number is read back from its field.
LEMMA SignedIsFound ==
  ASSUME NEW size \in Nat \ {0}, NEW v, InBytes(v, size),
         NEW bytes, NEW offset, Has(bytes, offset, Field(v, size))
  PROVE  SignedAt(bytes, offset, size) = v
<1>1. PICK b, h : b = size * ByteBits /\ h = 2^(b - 1)
  OBVIOUS
<1>2. b \in Nat \ {0}
  <2>1. ByteBits \in Nat \ {0}
    BY SizesAreNumbers
  <2>2. \A x, y \in Nat \ {0} : x * y \in Nat \ {0}
    OBVIOUS
  <2> QED
    BY <1>1, <2>1, <2>2
<1>3. v \in Int /\ -h <= v /\ v < h
  BY <1>1 DEF InBytes
<1>4. FieldAt(bytes, offset, size) = v % 2^b
  BY <1>1, <1>3, FieldIsFound
<1>5. Native(v % 2^b, [bits |-> b, signed |-> TRUE]) = v
  BY <1>1, <1>2, <1>3, SignedRestores
<1> QED
  BY <1>1, <1>4, <1>5 DEF SignedAt

\* The slots at which runs of equal ones end.
EndsOf(slots) == {i \in DOMAIN slots : i = Len(slots) \/ slots[i] # slots[i + 1]}

\* Between neighbouring ends all slots are equal.
LEMMA SlotsOfRun ==
  ASSUME NEW R, NEW slots \in Seq(R), NEW from \in Nat, NEW to \in 1 .. Len(slots), from < to,
         \A p \in EndsOf(slots) : p <= from \/ to <= p,
         NEW k \in 1 .. to - from
  PROVE  slots[from + k] = slots[to]
<1> DEFINE bad == {d \in Nat : d < to - from /\ slots[to - d] # slots[to]}
<1>1. Len(slots) \in Nat /\ DOMAIN slots = 1 .. Len(slots)
  OBVIOUS
<1>2. ASSUME bad # {} PROVE FALSE
  <2>1. PICK d \in bad : \A c \in bad : d <= c
    BY <1>2, LeastElement
  <2>2. d \in Nat /\ d < to - from /\ slots[to - d] # slots[to]
    BY <2>1
  <2>3. d # 0
    BY <1>1, <2>2
  <2> DEFINE c == d - 1
             p == to - d
  <2>4. c \in Nat /\ c < d /\ c < to - from
    BY <2>2, <2>3
  <2>5. slots[to - c] = slots[to]
    <3>1. c \notin bad
      <4> HIDE DEF bad, c
      <4> QED
        BY <2>1, <2>2, <2>4
    <3> QED
      BY <2>4, <3>1
  <2>6. p \in 1 .. Len(slots) /\ p + 1 = to - c /\ from < p /\ p < to
    BY <1>1, <2>2, <2>3
  <2> HIDE DEF c
  <2>7. slots[p] # slots[p + 1]
    BY <2>2, <2>5, <2>6
  <2> HIDE DEF p
  <2>8. p \in EndsOf(slots)
    BY <1>1, <2>6, <2>7 DEF EndsOf
  <2> QED
    BY <1>1, <2>6, <2>8
<1> DEFINE d == to - (from + k)
<1>3. d \in Nat /\ d < to - from /\ to - d = from + k
  BY <1>1
<1>4. d \notin bad
  BY <1>2
<1> HIDE DEF d
<1> QED
  BY <1>3, <1>4

\* Run ends are read as they were written where the code takes them for what
\* they are, whatever lies behind them.
LEMMA EndsAreRead ==
  ASSUME NEW n \in Nat, NEW runs, DOMAIN runs = 1 .. n, Len(runs) = n, NEW size \in {4, 8},
         \A k \in 1 .. n : runs[k].end \in 0 .. MaxLength, NEW fill \in SUBSET (0 .. ByteBits - 1)
  PROVE  EndsRead(runs, size, size, fill) = [k \in 1 .. n |-> runs[k].end]
<1> DEFINE numbers == [k \in DOMAIN runs |-> runs[k].end]
           fields == FieldsOf(numbers, size)
           rest == [k \in 1 .. size * Len(runs) |-> fill]
           buffer == fields \o rest
<1>1. ByteBits \in Nat \ {0} /\ MaxLength \in Nat
  BY SizesAreNumbers, LinearAssumption
<1>2. /\ fields \in Buffers
      /\ \A b \in Buffers, o \in Nat : Has(b, o, fields) =>
           \A j \in 1 .. n : Has(b, o + size * (j - 1), Field(numbers[j], size))
  <2>1. DOMAIN numbers = 1 .. n /\ size \in Nat \ {0}
    OBVIOUS
  <2> HIDE DEF numbers
  <2> QED
    BY <2>1, FieldsAre
<1>3. rest \in Buffers
  <2>1. size * n \in Nat /\ fill \in SUBSET Int
    BY <1>1
  <2> QED
    BY <2>1 DEF Buffers
<1>4. EndsRead(runs, size, size, fill) = [k \in 1 .. n |-> SignedAt(buffer, size * (k - 1), size)]
  BY DEF EndsRead
<1> HIDE DEF fields, rest
<1>5. buffer \in Buffers /\ Has(buffer, 0, fields)
  <2>1. buffer \in Buffers
    BY <1>2, <1>3, Appended
  <2>2. Has(buffer, 0, fields \o rest)
    BY <2>1, HasItself
  <2> QED
    BY <1>2, <1>3, <2>1, <2>2, HasParts
<1> HIDE DEF buffer
<1>6. ASSUME NEW k \in 1 .. n PROVE SignedAt(buffer, size * (k - 1), size) = runs[k].end
  <2> DEFINE v == runs[k].end
             o == size * (k - 1)
  <2>1. v \in 0 .. MaxLength /\ numbers[k] = v /\ 0 + o = o
    OBVIOUS
  <2>2. Has(buffer, o, Field(v, size))
    BY <1>2, <1>5, <2>1
  <2> HIDE DEF v, o
  <2>3. InBytes(v, size)
    <3>1. 4 * ByteBits - 1 \in Nat /\ size * ByteBits - 1 \in Nat
          /\ 4 * ByteBits - 1 \in 0 .. size * ByteBits - 1
      BY <1>1
    <3>2. 2^(4 * ByteBits - 1) <= 2^(size * ByteBits - 1)
          /\ 2^(4 * ByteBits - 1) \in Nat /\ 2^(size * ByteBits - 1) \in Nat
      BY <3>1, PowersGrow
    <3> QED
      BY <1>1, <2>1, <3>2, RunEndsAssumption DEF InBytes
  <2>4. size \in Nat \ {0}
    OBVIOUS
  <2>5. SignedAt(buffer, o, size) = v
    BY <2>2, <2>3, <2>4, SignedIsFound
  <2> QED
    BY <2>5 DEF v, o
<1> QED
  BY <1>4, <1>6

\* The ends of the runs of slots.
RunEndsOf(slots) == [k \in DOMAIN RunsOf(slots) |-> RunsOf(slots)[k].end]

\* Slots without nulls are made of their runs again; the ends ascend.
LEMMA RunsExpand ==
  ASSUME NEW R, NEW slots \in Seq(R),
         \A k \in DOMAIN slots : slots[k] = [valid |-> TRUE, value |-> slots[k].value]
  PROVE  /\ Expanded(RunsOf(slots), RunEndsOf(slots)) = Array(slots, 0)
         /\ \E n \in Nat :
              /\ DOMAIN RunsOf(slots) = 1 .. n /\ Len(RunsOf(slots)) = n
              /\ \A k \in 1 .. n :
                   /\ RunEndsOf(slots)[k] \in 0 .. Len(slots)
                   /\ PrevEnd(RunEndsOf(slots), k) <= RunEndsOf(slots)[k]
<1> DEFINE E == EndsOf(slots)
           n == Cardinality(E)
           ends == Ascending(E)
           runs == [k \in DOMAIN ends |->
                      [end |-> ends[k], valid |-> slots[ends[k]].valid,
                       value |-> slots[ends[k]].value]]
           prevEnd(k) == PrevEnd(ends, k)
           seqs == [k \in DOMAIN runs |-> RunOf(runs[k], ends[k] - prevEnd(k))]
           e == [j \in 0 .. n |-> IF j = 0 THEN 0 ELSE ends[j]]
<1>1. Len(slots) \in Nat /\ DOMAIN slots = 1 .. Len(slots)
  OBVIOUS
<1>2. E \in SUBSET (1 .. Len(slots)) /\ IsFiniteSet(E)
  <2>1. E \in SUBSET (1 .. Len(slots))
    BY <1>1 DEF EndsOf
  <2>2. 1 \in Int /\ Len(slots) \in Int
    BY <1>1
  <2>3. IsFiniteSet(1 .. Len(slots))
    BY <2>2, FS_Interval
  <2> HIDE DEF E
  <2> QED
    BY <2>1, <2>3, FS_Subset
<1> HIDE DEF E, n
<1>3. /\ n \in Nat /\ ends \in [1 .. n -> E] /\ DOMAIN ends = 1 .. n
      /\ \A x \in E : \E j \in 1 .. n : ends[j] = x
      /\ \A j, k \in 1 .. n : j < k => ends[j] < ends[k]
  <2>1. E \in SUBSET Int
    BY <1>2
  <2> QED
    BY <1>2, <2>1, AscendingIs DEF n
<1>4. RunsOf(slots) = runs
  BY DEF RunsOf, EndsOf, E
<1>14. RunEndsOf(slots) = ends
  <2>1. ends = [k \in DOMAIN ends |-> ends[k]]
    BY <1>3
  <2>2. DOMAIN runs = DOMAIN ends /\ \A k \in DOMAIN ends : runs[k].end = ends[k]
    OBVIOUS
  <2> HIDE DEF runs, ends
  <2> QED
    BY <1>4, <2>1, <2>2 DEF RunEndsOf
<1>5. Expanded(RunsOf(slots), RunEndsOf(slots)) = Array(Seqs!FlattenSeq(seqs), 0)
  BY <1>4, <1>14 DEF Expanded
<1> HIDE DEF ends
<1>6. DOMAIN runs = 1 .. n /\ \A k \in 1 .. n : /\ runs[k].end = ends[k]
                                                /\ runs[k].value = slots[ends[k]].value
  BY <1>3
<1>7. DOMAIN seqs = 1 .. n
  BY <1>6
<1>8. /\ e \in [0 .. n -> Nat] /\ e[0] = 0
      /\ \A j \in 1 .. n : e[j] = ends[j] /\ ends[j] \in E /\ ends[j] \in 1 .. Len(slots)
  <2>1. \A j \in 1 .. n : ends[j] \in E /\ ends[j] \in 1 .. Len(slots) /\ ends[j] \in Nat
    <3> DEFINE top == Len(slots)
    <3>1. top \in Nat /\ E \in SUBSET (1 .. top)
      BY <1>1, <1>2
    <3> HIDE DEF top
    <3>2. \A j \in 1 .. n : ends[j] \in E
      BY <1>3
    <3>3. ASSUME NEW x \in E PROVE x \in 1 .. top /\ x \in Nat
      <4>1. x \in 1 .. top
        BY <3>1, Zenon
      <4> QED
        BY <3>1, <4>1
    <3> QED
      BY <3>2, <3>3 DEF top
  <2>2. \A j \in 1 .. n : j # 0 /\ j \in 0 .. n
    BY <1>3
  <2>3. 0 \in 0 .. n /\ \A j \in 0 .. n : j # 0 => j \in 1 .. n
    BY <1>3
  <2> QED
    BY <2>1, <2>2, <2>3
<1>9. \A k \in 1 .. n : prevEnd(k) = e[k - 1] /\ k - 1 \in 0 .. n
  <2> TAKE k \in 1 .. n
  <2>1. CASE k = 1
    BY <1>3, <2>1 DEF PrevEnd
  <2>2. CASE k # 1
    <3>1. k - 1 \in 1 .. n
      BY <1>3, <2>2
    <3> HIDE DEF e, runs
    <3> QED
      BY <1>3, <1>6, <1>8, <2>2, <3>1 DEF PrevEnd
  <2> QED
    BY <2>1, <2>2
<1> HIDE DEF runs, prevEnd, e
<1>10. ASSUME NEW j \in 1 .. n
       PROVE  /\ e[j - 1] < e[j]
              /\ \A p \in E : p <= e[j - 1] \/ e[j] <= p
  <2>1. e[j] = ends[j] /\ e[j] \in 1 .. Len(slots)
    BY <1>8
  <2>2. e[j - 1] = IF j = 1 THEN 0 ELSE ends[j - 1]
    BY <1>3, <1>9 DEF e
  <2>3. ASSUME NEW i \in 1 .. n PROVE ends[i] <= e[j - 1] \/ e[j] <= ends[i]
    <3>1. ends[i] \in Nat /\ ends[j] \in Nat
      BY <1>1, <1>8
    <3>2. CASE i = j
      BY <2>1, <3>1, <3>2
    <3>3. CASE j < i
      <4>1. ends[j] < ends[i]
        BY <1>3, <3>3
      <4> QED
        BY <2>1, <3>1, <4>1
    <3>4. CASE i < j
      <4>1. j # 1 /\ j - 1 \in 1 .. n /\ (i = j - 1 \/ i < j - 1)
        BY <1>3, <3>4
      <4>2. ends[i] <= ends[j - 1]
        <5>1. ends[j - 1] \in Nat
          BY <1>1, <1>8, <4>1
        <5>2. i < j - 1 => ends[i] < ends[j - 1]
          BY <1>3, <4>1
        <5> QED
          BY <3>1, <4>1, <5>1, <5>2
      <4> QED
        BY <2>2, <4>1, <4>2
    <3> QED
      BY <1>3, <3>2, <3>3, <3>4
  <2>4. e[j - 1] < e[j]
    <3>1. CASE j = 1
      BY <2>1, <2>2, <3>1
    <3>2. CASE j # 1
      <4>1. j - 1 \in 1 .. n /\ j - 1 < j
        BY <1>3, <3>2
      <4>2. ends[j - 1] < ends[j]
        BY <1>3, <4>1
      <4> QED
        BY <2>1, <2>2, <3>2, <4>2
    <3> QED
      BY <3>1, <3>2
  <2> QED
    BY <1>3, <2>3, <2>4
<1>11. ASSUME NEW j \in 1 .. n
       PROVE  /\ seqs[j] \in Seq(R) /\ e[j] = e[j - 1] + Len(seqs[j])
              /\ Has(slots, e[j - 1], seqs[j])
  <2> DEFINE from == e[j - 1]
             to == e[j]
             length == to - from
  <2>1. from \in Nat /\ to \in 1 .. Len(slots) /\ from < to
        /\ \A p \in EndsOf(slots) : p <= from \/ to <= p
    <3>1. j - 1 \in 0 .. n
      BY <1>9
    <3> QED
      BY <1>8, <1>10, <3>1 DEF E
  <2>2. seqs[j] = [i \in 1 .. length |-> [valid |-> TRUE, value |-> slots[to].value]]
    <3>1. seqs[j] = RunOf(runs[j], ends[j] - prevEnd(j))
      BY <1>7
    <3>2. ends[j] = to /\ runs[j].value = slots[to].value /\ prevEnd(j) = from
      BY <1>6, <1>8, <1>9
    <3> HIDE DEF seqs, from, to
    <3> QED
      BY <3>1, <3>2 DEF RunOf
  <2> HIDE DEF from, to, seqs
  <2>3. slots[to] \in R
    BY <2>1
  <2> DEFINE slot == [valid |-> TRUE, value |-> slots[to].value]
  <2>4. slots[to] = slot /\ slot \in R
    <3>1. to \in DOMAIN slots
      BY <1>1, <2>1
    <3> QED
      BY <2>3, <3>1
  <2>5. length \in Nat /\ to = from + length /\ from + length <= Len(slots)
    BY <1>1, <2>1
  <2>6. seqs[j] = [i \in 1 .. length |-> slot]
    BY <2>2
  <2> HIDE DEF slot, length
  <2>9. seqs[j] \in Seq(R) /\ Len(seqs[j]) = length
    BY <2>4, <2>5, <2>6
  <2>7. ASSUME NEW k \in 1 .. length PROVE slots[from + k] = seqs[j][k]
    <3>1. slots[from + k] = slots[to]
      BY <2>1, <2>7, SlotsOfRun DEF length
    <3> QED
      BY <2>4, <2>6, <3>1
  <2>8. Has(slots, from, seqs[j])
    BY <2>5, <2>7, <2>9 DEF Has
  <2> QED
    BY <2>5, <2>8, <2>9 DEF from, to, length
<1>12. e[n] = Len(slots)
  <2>1. CASE Len(slots) = 0
    <3>1. \A j \in 1 .. n : FALSE
      BY <1>8, <2>1
    <3>2. n = 0
      BY <1>3, <3>1
    <3> QED
      BY <1>8, <2>1, <3>2
  <2>2. CASE Len(slots) # 0
    <3>1. Len(slots) \in E
      BY <1>1, <2>2 DEF E, EndsOf
    <3>2. PICK j \in 1 .. n : ends[j] = Len(slots)
      BY <1>3, <3>1
    <3>3. n \in 1 .. n
      BY <1>3, <3>2
    <3>4. ends[n] \in 1 .. Len(slots) /\ e[n] = ends[n]
      BY <1>8, <3>3
    <3>5. j = n \/ ends[j] < ends[n]
      BY <1>3, <3>2, <3>3
    <3> QED
      BY <1>1, <3>2, <3>4, <3>5
  <2> QED
    BY <2>1, <2>2
<1>13. seqs \in [1 .. n -> Seq(R)]
  <2>1. \A j \in 1 .. n : seqs[j] \in Seq(R)
    BY <1>11
  <2>2. seqs = [j \in 1 .. n |-> seqs[j]]
    BY <1>7
  <2> HIDE DEF seqs
  <2> QED
    BY <2>1, <2>2
<1> HIDE DEF seqs
<1>15. \A j \in 1 .. n : e[j] = e[j - 1] + Len(seqs[j]) /\ Has(slots, e[j - 1], seqs[j])
  BY <1>11
<1>16. Seqs!FlattenSeq(seqs) = slots
  BY <1>3, <1>8, <1>12, <1>13, <1>15, Flattened
<1>17. ASSUME NEW k \in 1 .. n
       PROVE  ends[k] \in 0 .. Len(slots) /\ prevEnd(k) <= ends[k]
  <2>1. e[k] = ends[k] /\ ends[k] \in 1 .. Len(slots) /\ prevEnd(k) = e[k - 1] /\ k - 1 \in 0 .. n
    BY <1>8, <1>9
  <2>2. e[k - 1] \in Nat /\ e[k - 1] < e[k]
    BY <1>8, <1>10, <2>1
  <2> QED
    BY <1>1, <2>1, <2>2
<1>18. DOMAIN RunsOf(slots) = 1 .. n /\ Len(RunsOf(slots)) = n
  BY <1>3, <1>4, <1>6 DEF runs
<1> QED
  BY <1>3, <1>5, <1>14, <1>16, <1>17, <1>18 DEF prevEnd

\* A run-end encoded column of integers without nulls, with run ends as wide as
\* its values, is stored like the plain one, and restored.
THEOREM RunsRestore == Spec => []RunEndsRestore
<1>1. ASSUME NumbersFit, IsInteger, NullCount(Array(column, 0)) = 0, NEW t \in ArrowTypes,
             t.id \in {"Int32", "Int64"}
      PROVE  /\ TranscodeRuns(t, RunsOf(column), EndWidth(t)) # {}
             /\ \A liquid \in TranscodeRuns(t, RunsOf(column), EndWidth(t)) :
                  Restores(WrapperToArrow(liquid).slots, Array(column, 0))
  <2> DEFINE a == Array(column, 0)
             inner == FromArrow(a, NativeType)
             slots == ToArrow(inner, NativeType)
  <2>1. ColumnFits /\ ColumnOK
    BY <1>1 DEF NumbersFit, ColumnFits
  <2>2. a \in ByteSlices /\ ByteSlice(a)
    BY <2>1, ColumnIsSlice, ByteSlicesOfColumn
  <2> DEFINE runs == RunsOf(column)
             ends == RunEndsOf(column)
  <2>3. /\ Expanded(runs, ends) = a
        /\ \E n \in Nat :
             /\ DOMAIN runs = 1 .. n /\ Len(runs) = n
             /\ \A k \in 1 .. n : ends[k] \in 0 .. Len(column) /\ PrevEnd(ends, k) <= ends[k]
    <3>1. column \in Seq([valid : BOOLEAN, value : AllValues])
      BY <2>1 DEF ColumnOK
    <3>2. ValidIn(a) = Index(a)
      BY <1>1, <2>2, NothingIsNull
    <3>3. ASSUME NEW k \in DOMAIN column
          PROVE  column[k] = [valid |-> TRUE, value |-> column[k].value]
      <4>1. k \in 1 .. Len(column) /\ Len(column) \in Nat
        BY <3>1
      <4>2. k - 1 \in Index(a) /\ 0 + (k - 1) + 1 = k
        BY <4>1 DEF Index, Length, Array
      <4>3. SlotAt(a, k - 1).valid \in BOOLEAN /\ SlotAt(a, k - 1).valid
        BY <2>2, <3>2, <4>2 DEF ByteSlice, ValidIn
      <4>4. SlotAt(a, k - 1) = column[k]
        BY <4>2 DEF SlotAt, Array
      <4> DEFINE R == [valid : BOOLEAN, value : AllValues]
      <4>5. \A s \in R : s = [valid |-> s.valid, value |-> s.value]
        OBVIOUS
      <4> HIDE DEF R
      <4>6. column[k] \in R
        <5>1. column \in Seq(R)
          BY <3>1 DEF R
        <5> QED
          BY <4>1, <5>1
      <4>7. column[k] = [valid |-> column[k].valid, value |-> column[k].value]
        BY <4>5, <4>6
      <4>8. column[k].valid = TRUE
        BY <4>3, <4>4
      <4> QED
        BY <4>7, <4>8
    <3> QED
      BY <3>1, <3>3, RunsExpand
  <2> HIDE DEF a
  <2>4. TranscodeRuns(t, runs, EndWidth(t)) = TranscodeToLiquidArray(t, a, {})
    <3> DEFINE size == EndWidth(t)
               fills == SUBSET (0 .. ByteBits - 1)
               read == {EndsRead(runs, size, size, fill) : fill \in fills}
    <3>1. PICK n \in Nat :
            /\ DOMAIN runs = 1 .. n /\ Len(runs) = n
            /\ \A k \in 1 .. n : ends[k] \in 0 .. Len(column) /\ PrevEnd(ends, k) <= ends[k]
      BY <2>3
    <3>2. ends = [k \in 1 .. n |-> runs[k].end]
      BY <3>1 DEF RunEndsOf
    <3>3. size \in {4, 8}
      BY DEF EndWidth
    <3>4. Len(column) <= MaxLength /\ Len(column) \in Nat /\ MaxLength \in Nat
      BY <1>1, LinearAssumption DEF NumbersFit
    <3> HIDE DEF runs, ends
    <3>5. ASSUME NEW k \in 1 .. n
          PROVE  ends[k] = runs[k].end /\ runs[k].end \in 0 .. MaxLength
      <4>1. ends[k] = runs[k].end
        BY <3>2
      <4>2. ends[k] \in 0 .. Len(column)
        BY <3>1
      <4> HIDE DEF size, fills, read
      <4>3. ends[k] \in 0 .. MaxLength
        BY <3>4, <4>2
      <4> QED
        BY <4>1, <4>3
    <3>6. \A fill \in fills : EndsRead(runs, size, size, fill) = ends
      <4> HIDE DEF size
      <4> QED
        BY <3>1, <3>2, <3>3, <3>5, EndsAreRead
    <3>7. {} \in fills
      OBVIOUS
    <3> HIDE DEF size, fills
    <3>8. read = {ends}
      BY <3>6, <3>7
    <3>9. Expandable(ends)
      <4>1. ASSUME NEW k \in 1 .. n PROVE ends[k] \in PrevEnd(ends, k) .. MaxLength
        <5>1. PrevEnd(ends, k) \in Int
          BY <3>1, <3>4 DEF PrevEnd
        <5> QED
          BY <3>1, <3>4, <5>1
      <4>2. DOMAIN ends = 1 .. n
        BY <3>2
      <4> QED
        BY <4>1, <4>2 DEF Expandable
    <3>10. {x \in read : Expandable(x)} = {ends}
      BY <3>8, <3>9
    <3> DEFINE arrays == {Expanded(runs, x) : x \in {y \in read : Expandable(y)}}
    <3>11. TranscodeRuns(t, runs, EndWidth(t))
             = UNION {TranscodeToLiquidArray(t, array, {}) : array \in arrays}
      BY <1>1 DEF TranscodeRuns, size, fills
    <3> HIDE DEF read
    <3>12. arrays = {a}
      BY <2>3, <3>10 DEF runs, ends
    <3> HIDE DEF arrays
    <3> QED
      BY <3>11, <3>12
  <2>5. t = ArrowType(t.id) /\ t.id \in Physicals
    BY <1>1, TypesOfNumbers
  <2>6. /\ IntegerType(NativeType) /\ IntegerSlice(a, NativeType)
        /\ NativeOf(t.id) = NativeType
    BY <1>1, <2>1, <2>2, IntegerSlices
  <2>7. Logical(t, a) = "Integer" /\ Physical(t, a) = t.id /\ t.id \notin Timestamps
    BY <1>1 DEF Logical, Physical, StringTypes, BinaryTypes, Decimals, FloatTypes, Timestamps
  <2> DEFINE liquid == Wrapped(inner, "Integer", t.id, t)
  <2>8. TranscodeRuns(t, RunsOf(column), EndWidth(t)) = {liquid}
    <3>1. Supported(t)
      BY <1>1, <2>5 DEF Supported, ArrowType
    <3> QED
      BY <2>4, <2>6, <2>7, <3>1 DEF TranscodeToLiquidArray
  <2> HIDE DEF inner
  <2>9. InnerToArrow(liquid) = DecodedAs(ArrowType(t.id), slots)
    BY <2>6, <2>7 DEF InnerToArrow, Wrapped
  <2>10. liquid.original = t
    BY DEF Wrapped
  <2> HIDE DEF slots, liquid
  <2>11. WrapperToArrow(liquid).slots = slots
    BY <2>5, <2>9, <2>10 DEF WrapperToArrow, DecodedAs
  <2>12. Restores(slots, a)
    BY <2>6, FrameOfReferenceRestores DEF slots, inner
  <2> QED
    BY <2>8, <2>11, <2>12 DEF a
<1>2. ASSUME NumbersFit, IsInteger, NullCount(Array(column, 0)) = 0, NEW t \in ArrowTypes,
             t.id \in {"Int32", "Int64"}
      PROVE  {Restores(WrapperToArrow(liquid).slots, Array(column, 0)) :
                liquid \in TranscodeRuns(t, RunsOf(column), EndWidth(t))} = {TRUE}
  <2> DEFINE liquids == TranscodeRuns(t, RunsOf(column), EndWidth(t))
             Back(liquid) == Restores(WrapperToArrow(liquid).slots, Array(column, 0))
  <2>1. liquids # {}
    BY <1>1, <1>2
  <2>2. \A liquid \in liquids : Back(liquid)
    BY <1>1, <1>2
  <2>3. \A liquid \in liquids : Back(liquid) = TRUE
    BY <2>2 DEF Restores
  <2> HIDE DEF liquids, Back
  <2>4. {Back(liquid) : liquid \in liquids} = {TRUE}
    BY <2>1, <2>3
  <2> QED
    BY <2>4 DEF liquids, Back
<1>3. NumbersFit => RunEndsRestore
  BY <1>2 DEF RunEndsRestore
<1> QED
  BY <1>3, NumbersStayFit, PTL DEF Spec
=============================================================================
