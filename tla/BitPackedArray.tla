-------------------------- MODULE BitPackedArray --------------------------
(***************************************************************************)
(* BitPackedArray (bit_packed_array.h): unsigned integers stored one after *)
(* the other in a fixed number of bits each.  A word or a byte is the set  *)
(* of the positions of its one bits, so that `|` is union, `&` with a mask *)
(* is intersection and a shift moves the members.                          *)
(***************************************************************************)
EXTENDS Integers, Sequences, FiniteSets, FiniteSetsExt

CONSTANTS
  ByteBits,   \* bits of a byte (8)
  WordBytes,  \* bytes of a uint64_t (8)
  ChunkBytes  \* bytes the unrolled loops of bulk_unpack_to take at a time (32)

ASSUME SizesAssumption ==
  /\ ByteBits \in Nat \ {0}
  /\ WordBytes \in Nat \ {0}
  /\ ChunkBytes \in Nat \ {0}

WordBits == ByteBits * WordBytes
CeilDiv(a, b) == (a + b - 1) \div b
Smaller(a, b) == IF a <= b THEN a ELSE b

\* Between numbers and sets of bits.
Bits(n)   == {b \in 0 .. WordBits - 1 : (n \div 2^b) % 2 = 1}
Number(s) == MapThenSumSet(LAMBDA b : 2^b, s)

Low(s, n)        == s \cap (0 .. n - 1)
ShiftLeft(s, n)  == Low({b + n : b \in s}, WordBits)
ShiftRight(s, n) == {b - n : b \in {c \in s : c >= n}}
ByteOf(s, k)     == Low(ShiftRight(s, k * ByteBits), ByteBits)

-----------------------------------------------------------------------------
\* What pack() ORs into byte k for the element i: the low word shifted into
\* place, and the bits that fall off its end in the bytes after the eighth.
WrittenTo(k, i, value, width) ==
  LET bitIdx  == (i * width) % ByteBits
      b       == k - (i * width) \div ByteBits
      needed  == CeilDiv(bitIdx + width, ByteBits)
      val     == Low(value, width)
      spans   == bitIdx > 0 /\ bitIdx + width > WordBits
  IN  IF b \in 0 .. Smaller(WordBytes, needed) - 1
      THEN ByteOf(ShiftLeft(val, bitIdx), b)
      ELSE IF spans /\ b \in WordBytes .. needed - 1
      THEN ByteOf(ShiftRight(val, WordBits - bitIdx), b - WordBytes)
      ELSE {}

\* The constructor: `nulls` is the function of the valid bits, or <<>>.
Pack(values, nulls, width) ==
  LET n == Len(values)
  IN  [length |-> n, width |-> width, nulls |-> nulls,
       bytes |-> [k \in 0 .. CeilDiv(n * width, ByteBits) - 1 |->
                    UNION {WrittenTo(k, i, values[i + 1], width) : i \in 0 .. n - 1}]]

\* memcpy of at most n bytes from byte `first` on into a word.
LoadBytes(packed, first, n) ==
  LET available == Cardinality(DOMAIN packed.bytes) - first
  IN  UNION {{k * ByteBits + b : b \in packed.bytes[first + k]} :
             k \in 0 .. Smaller(n, available) - 1}

\* Mutant of Joined: the ninth byte is not read.
LowWord(packed, byteIdx, bitIdx) ==
  ShiftRight(LoadBytes(packed, byteIdx, WordBytes), bitIdx)

\* Low and high word joined: what an element that spans nine bytes needs.
Joined(packed, byteIdx, bitIdx) ==
  ShiftRight(LoadBytes(packed, byteIdx, WordBytes), bitIdx)
    \cup ShiftLeft(LoadBytes(packed, byteIdx + WordBytes, WordBytes), WordBits - bitIdx)

\* get(), scalar_get() and the loop of bulk_unpack_blocked_t.
Extract(packed, i) ==
  LET width   == packed.width
      byteIdx == (i * width) \div ByteBits
      bitIdx  == (i * width) % ByteBits
      raw == IF bitIdx + width <= WordBits
             THEN ShiftRight(LoadBytes(packed, byteIdx, WordBytes), bitIdx)
             ELSE Joined(packed, byteIdx, bitIdx)
  IN  Low(raw, width)

Get(packed, i) ==
  IF packed.width = 0 \/ i >= packed.length THEN {} ELSE Extract(packed, i)

\* The default case of bulk_unpack_scalar_blocked: near the end of the data
\* it joins two words although one would do.
ExtractWide(packed, i) ==
  LET width   == packed.width
      byteIdx == (i * width) \div ByteBits
      bitIdx  == (i * width) % ByteBits
      whole   == byteIdx + WordBytes <= Cardinality(DOMAIN packed.bytes)
      raw == IF bitIdx + width <= WordBits /\ whole
             THEN ShiftRight(LoadBytes(packed, byteIdx, WordBytes), bitIdx)
             ELSE Joined(packed, byteIdx, bitIdx)
  IN  Low(raw, width)

\* The unrolled loops for widths that divide a byte: whole chunks element by
\* element out of their byte, the rest as above.
ExtractUnrolled(packed, i) ==
  LET width == packed.width
      per   == ByteBits \div width
      chunk == ChunkBytes * per
  IN  IF i < (packed.length \div chunk) * chunk
      THEN Low(ShiftRight(packed.bytes[i \div per], (i % per) * width), width)
      ELSE Extract(packed, i)

\* Widths of one to four bytes are copied when the output has that width.
ExtractCopied(packed, i) ==
  LoadBytes(packed, i * (packed.width \div ByteBits), packed.width \div ByteBits)

\* bulk_unpack_to<T> with AVX2, T having `bits` bits.
BulkUnpack(packed, bits) ==
  LET width == packed.width
      kind  == IF width = 0 THEN "zero"
               ELSE IF width < ByteBits /\ ByteBits % width = 0 THEN "unrolled"
               ELSE IF width \in {ByteBits, 2 * ByteBits, 4 * ByteBits}
               THEN IF width = bits THEN "copied" ELSE "wide"
               ELSE IF width < WordBits \div 2 THEN "blocked" ELSE "wide"
  IN  [i \in 0 .. packed.length - 1 |->
         Low(CASE kind = "zero"     -> {}
               [] kind = "unrolled" -> ExtractUnrolled(packed, i)
               [] kind = "copied"   -> ExtractCopied(packed, i)
               [] kind = "blocked"  -> Extract(packed, i)
               [] kind = "wide"     -> ExtractWide(packed, i), bits)]

IsNull(packed, i) == packed.nulls # <<>> /\ ~packed.nulls[i]

\* Mutant of GetBitWidth: a power of two gets a bit too few.
BitWidthRoundedDown(n) == CHOOSE w \in 1 .. WordBits : n <= 2^w /\ (w = 1 \/ 2^(w - 1) < n)

\* get_bit_width: one bit even for zero.
GetBitWidth(n) == CHOOSE w \in 1 .. WordBits : n < 2^w /\ (w = 1 \/ 2^(w - 1) <= n)
=============================================================================
