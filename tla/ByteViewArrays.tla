--------------------------- MODULE ByteViewArrays ---------------------------
(***************************************************************************)
(* LiquidByteViewArray (liquid_byte_view_array.h): strings and binaries as *)
(* keys into a dictionary, whose entries share a prefix and are otherwise  *)
(* compressed with a symbol table.  Its dictionaries and CompactOffsets    *)
(* also serve LiquidFixedLenByteArray.                                     *)
(***************************************************************************)
EXTENDS SymbolTables

CONSTANT KeyBits   \* bits of a dictionary key (16)

\* A key fits in a word.
ASSUME KeyBitsAssumption == KeyBits \in 1 .. WordBits

-----------------------------------------------------------------------------
(* CompactOffsets: a line through the offsets, and what it misses them by. *)

\* The cast of a quotient to int32_t.
Truncated(a, b) == IF a < 0 THEN -((-a) \div b) ELSE a \div b

OffsetLine(offsets) ==
  LET n    == Len(offsets)
      sumX == MapThenSumSet(LAMBDA i : i - 1, 1 .. n)
      sumY == MapThenSumSet(LAMBDA i : offsets[i], 1 .. n)
      denominator == n * MapThenSumSet(LAMBDA i : (i - 1) * (i - 1), 1 .. n) - sumX * sumX
      slope == Truncated(n * MapThenSumSet(LAMBDA i : (i - 1) * offsets[i], 1 .. n) - sumX * sumY,
                         denominator)
  IN  IF denominator = 0 THEN [slope |-> 0, intercept |-> offsets[1]]
      ELSE [slope |-> slope, intercept |-> Truncated(sumY - slope * sumX, n)]

\* The bytes of a residual.
WidthFor(residuals) ==
  LET fits(w) == \A j \in DOMAIN residuals :
                   residuals[j] \in -(2^(w * ByteBits - 1)) .. 2^(w * ByteBits - 1) - 1
  IN  IF fits(1) THEN 1 ELSE IF fits(2) THEN 2 ELSE 4

Predicted(line, i) == line.slope * i + line.intercept

CompactOffsets(offsets) ==
  LET line == OffsetLine(offsets)
      residuals == [j \in DOMAIN offsets |-> offsets[j] - Predicted(line, j - 1)]
  IN  [line |-> line, residuals |-> residuals, width |-> WidthFor(residuals)]

\* get() of every index.
OffsetsOf(compact) ==
  [j \in DOMAIN compact.residuals |-> Predicted(compact.line, j - 1) + compact.residuals[j]]

CompactToBytes(compact) ==
  Field(compact.line.slope, 4) \o Field(compact.line.intercept, 4) \o Field(compact.width, 1)
    \o FieldsOf(compact.residuals, compact.width)

CompactFromBytes(bytes) ==
  LET size  == FieldAt(bytes, 8, 1)
      width == IF size \in {1, 2} THEN size ELSE 4
  IN  IF Len(bytes) < 9 THEN {}
      ELSE {[line |-> [slope |-> SignedAt(bytes, 0, 4), intercept |-> SignedAt(bytes, 4, 4)],
             residuals |-> [j \in 1 .. (Len(bytes) - 9) \div width |->
                              SignedAt(bytes, 9 + (j - 1) * width, width)],
             width |-> size]}

-----------------------------------------------------------------------------
(* Dictionaries.                                                           *)

\* Slots whose value is met there for the first time.
FirstsOf(array) ==
  {i \in ValidIn(array) :
     \A j \in ValidIn(array) : j < i => SlotAt(array, j).value # SlotAt(array, i).value}

DictionaryOf(array) ==
  LET firsts == Ascending(FirstsOf(array))
  IN  [k \in DOMAIN firsts |-> SlotAt(array, firsts[k]).value]

\* Keys are uint16_t: beyond 2^16 distinct values they wrap around.
KeysOf(array, dict) ==
  LET place(v) == CHOOSE k \in DOMAIN dict : dict[k] = v
  IN  [i \in Index(array) |->
         IF i \in ValidIn(array) THEN (place(SlotAt(array, i).value) - 1) % 2^KeyBits ELSE 0]

\* The bits of the largest key, in a key of `bits` bits.
KeyWidth(dict, bits) ==
  GetBitWidth(IF dict = <<>> THEN 0 ELSE (Len(dict) - 1) % 2^bits)

\* Strings, dictionaries and decimals copy the null bitmap from its start.
NullsFromStart(array) ==
  IF NullCount(array) = 0 THEN <<>> ELSE [i \in Index(array) |-> array.slots[i + 1].valid]

-----------------------------------------------------------------------------
(* Encoding.                                                               *)

SharedPrefix(dict) ==
  IF dict = <<>> THEN <<>> ELSE Seqs!LongestCommonPrefix({dict[d] : d \in DOMAIN dict})

SuffixesOf(dict, prefix) ==
  [d \in DOMAIN dict |-> SubSeq(dict[d], Len(prefix) + 1, Len(dict[d]))]

\* PrefixKey: seven bytes of a suffix, and its length if a byte can tell it.
PrefixKey(suffix) ==
  LET first == SubSeq(suffix, 1, Smaller(7, Len(suffix)))
  IN  ToBuffer(first) \o Zeros(7 - Len(first)) \o Field(Smaller(Len(suffix), ByteMax), 1)

\* check_all_ascii: the bit that says whether a slot is valid is looked for
\* as if the slice began with its buffer.
IsAscii(string) == \A k \in DOMAIN string : string[k] < 2^(ByteBits - 1)
CheckAllAscii(array) ==
  \A i \in Index(array) :
    (NullCount(Array(array.slots, 0)) = 0 \/ array.slots[i + 1].valid) =>
      IsAscii(SlotAt(array, i).value)

\* build_encoded_dict_impl: `given` holds the compressor, if there is one.
Assembled(prefix, suffixes, table, packed) ==
  LET compressed == CompressEach(table, suffixes)
  IN  [prefix       |-> prefix,
       table        |-> table,
       uncompressed |-> MapThenSumSet(LAMBDA d : Len(suffixes[d]), DOMAIN suffixes),
       data         |-> compressed.data,
       offsets      |-> CompactOffsets(compressed.offsets),
       prefixKeys   |-> Seqs!FlattenSeq([d \in DOMAIN suffixes |-> PrefixKey(suffixes[d])]),
       packed       |-> packed]

BuildEncodedDict(dict, packed, given) ==
  LET suffixes == SuffixesOf(dict, SharedPrefix(dict))
      table == IF given = {} THEN Train(Seqs!FlattenSeq(suffixes)) ELSE CHOOSE t \in given : TRUE
  IN  Assembled(SharedPrefix(dict), suffixes, table, packed)

\* from_arrow and from_arrow_with_compressor.
PackKeys(array, dict) ==
  Pack(Words(array, KeysOf(array, dict)), NullsFromStart(array), KeyWidth(dict, KeyBits))

WithFlags(liquid, binary, ascii) == [binary |-> binary, ascii |-> ascii, array |-> liquid]

ByteViewFromArrow(array, binary, given) ==
  WithFlags(BuildEncodedDict(DictionaryOf(array), PackKeys(array, DictionaryOf(array)), given),
            binary, ~binary /\ CheckAllAscii(array))

\* from_dict_array: the indices of an Arrow dictionary array are kept, with
\* their width, and its null entries become empty strings.
ByteViewFromDict(values, indices, indexBits, binary) ==
  LET dict == [d \in DOMAIN values |-> IF values[d].valid THEN values[d].value ELSE <<>>]
      keys == [i \in Index(indices) |-> IF i \in ValidIn(indices) THEN SlotAt(indices, i).value ELSE 0]
      nulls == [i \in Index(indices) |-> indices.slots[i + 1].valid]
      packed == Pack(Words(indices, keys),
                     IF NullCount(Array(indices.slots, 0)) = 0 THEN <<>> ELSE nulls,
                     KeyWidth(dict, indexBits))
  IN  WithFlags(BuildEncodedDict(dict, packed, {}),
                binary, ~binary /\ CheckAllAscii(Array(values, 0)))

-----------------------------------------------------------------------------
(* Decoding.                                                               *)

\* ensure_dict_cached: the entries, decompressed at the first read.
Entries(liquid) ==
  LET suffixes == DecompressEach(liquid.table, liquid.data, OffsetsOf(liquid.offsets))
  IN  [d \in DOMAIN suffixes |-> liquid.prefix \o suffixes[d]]

\* The keys are unpacked as uint16_t, whatever their width was.
UnpackedKeys(packed) ==
  LET keys == BulkUnpack(packed, KeyBits) IN [i \in DOMAIN keys |-> Number(keys[i])]

\* What a valid slot with a key beyond the dictionary holds is `none`.
Looked(packed, entries, none) ==
  LET keys == UnpackedKeys(packed)
  IN  [i \in DOMAIN keys |->
         [valid |-> ~IsNull(packed, i),
          value |-> IF ~IsNull(packed, i) /\ keys[i] < Len(entries)
                    THEN entries[keys[i] + 1] ELSE none]]

ByteViewToArrow(liquid) == Looked(liquid.array.packed, Entries(liquid.array), <<>>)

-----------------------------------------------------------------------------
(* to_bytes and from_bytes.                                                *)

ByteViewSections(liquid) ==
  <<FsstSection(liquid.table, liquid.uncompressed, liquid.data), Serialize(liquid.packed),
    CompactToBytes(liquid.offsets), liquid.prefixKeys, ToBuffer(liquid.prefix)>>

\* The header has the sizes of the sections, that of the prefix keys left out.
ByteViewHeader(sections, ascii) ==
  FieldsOf(<<Len(sections[2]), Len(sections[3]), Len(sections[5]), Len(sections[1]), 0>>, 4)
    \o Zeros(3) \o Field(IF ascii THEN 1 ELSE 0, 1)

Written(header, sections) ==
  Aligned(header) \o Seqs!FlattenSeq([s \in DOMAIN sections |-> Aligned(sections[s])])

ByteViewToBytes(liquid) ==
  LET sections == ByteViewSections(liquid.array)
  IN  Written(Header("ByteViewArray", IF liquid.binary THEN "UInt8" ELSE "Int8")
                \o ByteViewHeader(sections, liquid.ascii), sections)

\* The section of so many bytes from `offset` on, unless the buffer ends first.
SectionAt(bytes, offset, size) ==
  IF offset + size > Len(bytes) THEN {} ELSE {SubSeq(bytes, offset + 1, offset + size)}

\* There are as many prefix keys as entries: one less than offsets.
PrefixKeysSize(offsets) ==
  8 * (IF offsets.residuals = <<>> THEN 0 ELSE Len(offsets.residuals) - 1)

\* The sizes of the sections, of which the header does not know the fourth.
ByteViewSizes(bytes, prefixKeys) ==
  LET field(n) == FieldAt(bytes, 16 + 4 * n, 4)
  IN  <<field(3), field(0), field(1), prefixKeys, field(2)>>

SectionOf(bytes, prefixKeys, n) ==
  LET sizes(k) == ByteViewSizes(bytes, prefixKeys)[k]
  IN  SectionAt(bytes, 40 + MapThenSumSet(LAMBDA m : Align8(sizes(m)), 1 .. n - 1), sizes(n))

ReadSections(bytes, section, packed, offsets) ==
  {[prefix |-> FromBuffer(prefix), table |-> section.table, uncompressed |-> section.uncompressed,
    data |-> section.data, offsets |-> offsets, prefixKeys |-> prefixKeys, packed |-> packed] :
      prefix \in SectionOf(bytes, PrefixKeysSize(offsets), 5),
      prefixKeys \in SectionOf(bytes, PrefixKeysSize(offsets), 4)}

ByteViewFromBytes(bytes) ==
  IF ~IsOfType(bytes, "ByteViewArray") \/ Len(bytes) < 40 THEN {}
  ELSE {WithFlags(array, \E h \in ReadHeader(bytes) : h.physical = PhysicalId("UInt8"),
                  FieldAt(bytes, 39, 1) % 2 = 1) :
          array \in UNION {ReadSections(bytes, section, packed, offsets) :
             section \in UNION {ReadFsstSection(s) : s \in SectionOf(bytes, 0, 1)},
             packed  \in UNION {Deserialize(s) : s \in SectionOf(bytes, 0, 2)},
             offsets \in UNION {CompactFromBytes(s) : s \in SectionOf(bytes, 0, 3)}}}
=============================================================================
