---------------------------- MODULE Transcoder ----------------------------
(***************************************************************************)
(* The dispatch of transcoder_arrow.cpp from Arrow types to encodings and  *)
(* back, with the decimal encodings (liquid_decimal_array.h and            *)
(* liquid_fixed_len_byte_array.h) and LiquidArrayWrapper (liquid_array.h). *)
(*                                                                         *)
(* An Arrow type is [id, zoned, scale]: id names a physical type, one of   *)
(* the two decimals or a kind of strings or binaries, zoned says that a    *)
(* timestamp has a time zone.  The compressor that the batches of a column *)
(* share (compressor_states.h) is given as the set of it, empty before a   *)
(* first batch was encoded, or without LiquidCompressorStates.             *)
(***************************************************************************)
EXTENDS ByteViewArrays

\* Four bytes hold the end of an array's last run.
ASSUME RunEndsAssumption == MaxLength < 2^(4 * ByteBits - 1)

ArrowType(id) == [id |-> id, zoned |-> FALSE, scale |-> 0]

Physicals == {PhysicalTypes[n] : n \in DOMAIN PhysicalTypes}
Timestamps == {"TimestampSecond", "TimestampMillisecond",
               "TimestampMicrosecond", "TimestampNanosecond"}
FloatTypes == {"Float32", "Float64"}
Decimals == {"Decimal128", "Decimal256"}
BinaryTypes == {"Binary", "LargeBinary", "BinaryView"}
StringTypes == {"String", "LargeString", "StringView"} \cup BinaryTypes

\* The native type of a physical type; a word may have fewer than 8 bytes.
NativeOf(physical) ==
  LET size == CASE physical \in {"Int8", "UInt8"} -> 1
                [] physical \in {"Int16", "UInt16"} -> 2
                [] physical \in {"Int32", "UInt32", "Date32", "Float32"} -> 4
                [] OTHER -> 8
  IN  [bits |-> ByteBits * Smaller(size, WordBytes),
       signed |-> physical \notin {"UInt8", "UInt16", "UInt32", "UInt64"}]

UInt64 == NativeOf("UInt64")

\* An Arrow array that was decoded: its type and its slots.
DecodedAs(type, slots) == [type |-> type, slots |-> slots]

-----------------------------------------------------------------------------
(* LiquidDecimalArray: non-negative decimals of one word.                  *)

FitsU64(array) == \A v \in ValuesOf(array) : v \in 0 .. MaxOf(UInt64)

DecimalFromArrow(array, type) ==
  LET min == Min(ValuesOf(array))
      offsets == [i \in Index(array) |->
                    IF i \in ValidIn(array) THEN SlotAt(array, i).value - min ELSE 0]
      empty == ValidIn(array) = {}
  IN  [type |-> type,
       reference |-> IF empty THEN 0 ELSE min,
       packed |-> IF empty
                  THEN Pack([i \in 1 .. Length(array) |-> {}], NullsFromStart(array), 0)
                  ELSE Pack(Words(array, offsets), NullsFromStart(array),
                            GetBitWidth(Max(ValuesOf(array)) - min))]

DecimalToArrow(liquid) ==
  LET temp == BulkUnpack(liquid.packed, UInt64.bits)
  IN  DecodedAs(liquid.type,
              [i \in DOMAIN temp |->
                 [valid |-> ~IsNull(liquid.packed, i),
                  value |-> Unsigned(Number(temp[i]) + liquid.reference, UInt64)]])

\* The scale is signed; the precision, which goes the same way, is left out.
DecimalToBytes(liquid) ==
  Header("Decimal", "UInt64")
    \o Field(IF liquid.type.id = "Decimal128" THEN 0 ELSE 1, 1) \o Zeros(1)
    \o Field(liquid.type.scale, 1) \o Zeros(5)
    \o Field(liquid.reference, 8) \o Serialize(liquid.packed)

DecimalFromBytes(bytes) ==
  IF Len(bytes) < 32 \/ ~IsOfType(bytes, "Decimal") THEN {}
  ELSE {[type |-> [id |-> IF FieldAt(bytes, 16, 1) = 0 THEN "Decimal128" ELSE "Decimal256",
                   zoned |-> FALSE, scale |-> SignedAt(bytes, 18, 1)],
         reference |-> FieldAt(bytes, 24, 8), packed |-> packed] :
          packed \in Deserialize(From(bytes, 32))}

-----------------------------------------------------------------------------
(* LiquidFixedLenByteArray: keys into a dictionary of the distinct values, *)
(* whose bytes are compressed.                                             *)

ValueWidth(id) == IF id = "Decimal128" THEN 2 * WordBytes ELSE 4 * WordBytes

\* Mutant of FixedLenTable: a compressor without symbols is used like others.
FixedLenTableGiven(bytes, given) ==
  IF given = {} THEN Train(bytes) ELSE CHOOSE t \in given : TRUE

\* A compressor without symbols is trained, whether it was given or not.
FixedLenTable(bytes, given) ==
  IF \A t \in given : t.symbols = <<>> THEN Train(bytes) ELSE CHOOSE t \in given : TRUE

FixedLenOf(type, entries, packed, given) ==
  LET table == FixedLenTable(Seqs!FlattenSeq(entries), given)
      compressed == CompressEach(table, entries)
  IN  [type |-> type, table |-> table, packed |-> packed, data |-> compressed.data,
       uncompressed |-> Len(entries) * ValueWidth(type.id), offsets |-> compressed.offsets]

FixedLenFromDecimal(array, type, given) ==
  LET dict == DictionaryOf(array)
  IN  FixedLenOf(type, [d \in DOMAIN dict |-> FromBuffer(Field(dict[d], ValueWidth(type.id)))],
                 PackKeys(array, dict), given)

FixedLenEntries(liquid) == DecompressEach(liquid.table, liquid.data, liquid.offsets)

\* The number in the first `width` bytes, where zeros stand in for missing ones.
NumberIn(entry, width) == SignedAt(ToBuffer(entry) \o Zeros(width), 0, width)

FixedLenToArrow(liquid) ==
  LET width   == ValueWidth(liquid.type.id)
      entries == FixedLenEntries(liquid)
  IN  DecodedAs(liquid.type,
                Looked(liquid.packed, [d \in DOMAIN entries |-> NumberIn(entries[d], width)], 0))

\* The precision is left out, as for the decimals above.
FixedLenToBytes(liquid) ==
  LET keys   == Serialize(liquid.packed)
      values == FsstSection(liquid.table, liquid.uncompressed, liquid.data)
                  \o CompactToBytes(CompactOffsets(liquid.offsets))
  IN  Aligned(Header("FixedLenByteArray", "UInt16")
                \o Field(Len(keys), 4) \o Field(Len(values), 4)
                \o Field(IF liquid.type.id = "Decimal128" THEN 0 ELSE 1, 1) \o Zeros(1)
                \o Field(liquid.type.scale, 1) \o Zeros(1) \o keys)
        \o values

FixedLenFromBytes(bytes) ==
  LET keys   == FieldAt(bytes, 16, 4)
      values == FieldAt(bytes, 20, 4)
      type   == [id |-> IF FieldAt(bytes, 24, 1) = 0 THEN "Decimal128" ELSE "Decimal256",
                 zoned |-> FALSE, scale |-> SignedAt(bytes, 26, 1)]
      read(packed, section) ==
        {[type |-> type, table |-> section.table, packed |-> packed, data |-> section.data,
          uncompressed |-> section.uncompressed, offsets |-> offsets] :
            offsets \in IF section.rest = <<>> THEN {<<>>}
                        ELSE {OffsetsOf(compact) : compact \in CompactFromBytes(section.rest)}}
  IN  IF Len(bytes) < 28 \/ ~IsOfType(bytes, "FixedLenByteArray") THEN {}
      ELSE UNION {read(packed, section) :
             packed \in UNION {Deserialize(s) : s \in SectionAt(bytes, 28, keys)},
             section \in UNION {ReadFsstSection(s) :
                                  s \in SectionAt(bytes, Align8(28 + keys), values)}}

-----------------------------------------------------------------------------
(* Arrow to memory and back: what the store keeps.                         *)

\* Timestamps are reinterpreted as Int64.
Physical(type, array) ==
  IF type.id \in StringTypes THEN (IF type.id \in BinaryTypes THEN "UInt8" ELSE "Int8")
  ELSE IF type.id \notin Decimals THEN type.id
  ELSE IF FitsU64(array) THEN "UInt64" ELSE "UInt16"

Logical(type, array) ==
  IF type.id \in StringTypes THEN "ByteViewArray"
  ELSE IF type.id \in FloatTypes THEN "Float"
  ELSE IF type.id \notin Decimals THEN "Integer"
  ELSE IF FitsU64(array) THEN "Decimal" ELSE "FixedLenByteArray"

Supported(type) == type.id \in Physicals \cup Decimals \cup StringTypes /\ ~type.zoned

\* Views are cast to plain strings first, and then do not share a compressor.
Sharing(type, given) == IF type.id \in {"StringView", "BinaryView"} THEN {} ELSE given

\* transcode_to_liquid_array: none for a type that is not supported.
Wrapped(inner, logical, physical, type) ==
  [inner |-> inner, logical |-> logical, physical |-> physical, original |-> type]

TranscodeToLiquidArray(type, array, given) ==
  LET logical == Logical(type, array)
      inner == CASE logical = "Integer" -> FromArrow(array, NativeOf(type.id))
                 [] logical = "Float"   -> FloatFromArrow(array)
                 [] logical = "Decimal" -> DecimalFromArrow(array, type)
                 [] logical = "FixedLenByteArray" -> FixedLenFromDecimal(array, type, given)
                 [] logical = "ByteViewArray" ->
                      ByteViewFromArrow(array, type.id \in BinaryTypes, Sharing(type, given))
  IN  IF ~Supported(type) THEN {}
      ELSE {Wrapped(inner, logical, Physical(type, array), type)}

\* with_fsst_compressor_or_train: the compressor the batches after this one
\* are given.
CompressorAfter(type, array, given) ==
  IF given # {} THEN given
  ELSE CASE type.id \in {"String", "LargeString", "Binary", "LargeBinary"} ->
              {ByteViewFromArrow(array, FALSE, {}).array.table}
         [] type.id \in Decimals /\ ~FitsU64(array) ->
              {FixedLenFromDecimal(array, type, {}).table}
         [] OTHER -> {}

\* An Arrow dictionary array, [values, indices, indexBits], of strings or
\* binaries: its compressor is not shared either.
Dictionary == ArrowType("Dictionary")

TranscodeDictionary(arrow, binary) ==
  {Wrapped(ByteViewFromDict(arrow.values, arrow.indices, arrow.indexBits, binary),
           "ByteViewArray", IF binary THEN "UInt8" ELSE "Int8", Dictionary)}

\* What the inner array decodes to: timestamps as Int64.
InnerToArrow(liquid) ==
  LET id == IF liquid.physical \in Timestamps THEN "Int64" ELSE liquid.physical
  IN  CASE liquid.logical = "Integer" ->
             DecodedAs(ArrowType(id), ToArrow(liquid.inner, NativeOf(id)))
        [] liquid.logical = "Float"   -> DecodedAs(ArrowType(id), FloatToArrow(liquid.inner))
        [] liquid.logical = "Decimal" -> DecimalToArrow(liquid.inner)
        [] liquid.logical = "FixedLenByteArray" -> FixedLenToArrow(liquid.inner)
        [] liquid.logical = "ByteViewArray" ->
             DecodedAs(ArrowType(IF liquid.inner.binary THEN "Binary" ELSE "String"),
                       ByteViewToArrow(liquid.inner))

\* Strings in buffers of another layout than their type: not readable.
Unreadable == <<>>
Relabelled(type, slots) ==
  IF type.id \in Timestamps THEN DecodedAs(type, slots) ELSE DecodedAs(type, Unreadable)

\* Mutant of WrapperToArrow: the type is left as it is.
ToArrowUnwrapped(liquid) == InnerToArrow(liquid)

\* LiquidArrayWrapper::to_arrow: the original type for the same buffers, which
\* are those of an Int64 array, or strings with offsets of 32 bits.
WrapperToArrow(liquid) ==
  LET arrow == InnerToArrow(liquid)
  IN  IF arrow.type.id # liquid.original.id THEN Relabelled(liquid.original, arrow.slots)
      ELSE arrow

RunOf(run, length) == [i \in 1 .. length |-> [valid |-> TRUE, value |-> run.value]]

PrevEnd(ends, k) == IF k = 1 THEN 0 ELSE ends[k - 1]

\* Mutant of Expanded: prev_end stays zero.
ExpandedFromZero(runs, ends) ==
  Array(Seqs!FlattenSeq([k \in DOMAIN runs |-> RunOf(runs[k], ends[k])]), 0)

\* A run-end encoded array is expanded first: its runs, [end, valid, value],
\* from the first on, whatever its offset and whether they are null or not.
Expanded(runs, ends) ==
  Array(Seqs!FlattenSeq([k \in DOMAIN runs |-> RunOf(runs[k], ends[k] - PrevEnd(ends, k))]), 0)

\* The ends are taken to be as wide as the values, whatever their type is: a
\* buffer of ends of `size` bytes each is read in steps of `width`, and may be
\* read beyond its end, where all bytes are `fill`.
EndsRead(runs, size, width, fill) ==
  LET buffer == FieldsOf([k \in DOMAIN runs |-> runs[k].end], size)
                  \o [n \in 1 .. width * Len(runs) |-> fill]
  IN  [k \in DOMAIN runs |-> SignedAt(buffer, width * (k - 1), width)]

\* A vector of a negative length throws; those longer than MaxLength are left out.
Expandable(ends) ==
  \A k \in DOMAIN ends : ends[k] \in PrevEnd(ends, k) .. MaxLength

EndWidth(type) == IF type.id = "Int32" THEN 4 ELSE 8

\* The expanded array has the type of the values, 32 or 64 bits wide.
TranscodeRuns(type, runs, size) ==
  LET read == {EndsRead(runs, size, EndWidth(type), fill) : fill \in SUBSET (0 .. ByteBits - 1)}
      arrays == {Expanded(runs, ends) : ends \in {e \in read : Expandable(e)}}
  IN  IF type.id \notin {"Int32", "Int64"} THEN {}
      ELSE UNION {TranscodeToLiquidArray(type, array, {}) : array \in arrays}

-----------------------------------------------------------------------------
(* Arrow to bytes and back.                                                *)

\* The bytes of an encoding; a timestamp is an Int64 array.
Encode(type, array, id, logical) ==
  CASE logical = "Integer" -> PrimitiveToBytes(FromArrow(array, NativeOf(id)), NativeOf(id), id)
    [] logical = "Float"   -> FloatToBytes(FloatFromArrow(array), id)
    [] logical = "Decimal" -> DecimalToBytes(DecimalFromArrow(array, type))
    [] logical = "FixedLenByteArray" -> FixedLenToBytes(FixedLenFromDecimal(array, type, {}))
    [] logical = "ByteViewArray" ->
         ByteViewToBytes(ByteViewFromArrow(array, type.id \in BinaryTypes, {}))

\* Another physical type for the same bytes: the two at 8.
WithPhysical(bytes, physical) ==
  SubSeq(bytes, 1, 8) \o Field(PhysicalId(physical), 2) \o From(bytes, 10)

\* transcode_arrow_array, for all but dictionaries ...
TranscodeArrowArray(type, array) ==
  IF ~Supported(type) THEN <<>>
  ELSE IF type.id \in Timestamps
  THEN WithPhysical(Encode(type, array, "Int64", "Integer"), type.id)
  ELSE Encode(type, array, type.id, Logical(type, array))

\* ... and for dictionaries, whose indices must be as wide as the keys.
TranscodeDictionaryArray(arrow, binary) ==
  IF arrow.indexBits # KeyBits THEN <<>>
  ELSE ByteViewToBytes(ByteViewFromDict(arrow.values, arrow.indices, arrow.indexBits, binary))

\* The array in an integer's or a linear model's bytes.
DecodeInteger(bytes, physical) ==
  {DecodedAs(ArrowType(physical), ToArrow(liquid, NativeOf(physical))) :
     liquid \in PrimitiveFromBytes(bytes, NativeOf(physical))}

DecodeLinear(bytes, physical) ==
  {DecodedAs(ArrowType(physical), LinearToArrow(liquid, NativeOf(physical))) :
     liquid \in LinearFromBytes(bytes)}

DecodeByteView(bytes) ==
  {DecodedAs(ArrowType(IF liquid.binary THEN "Binary" ELSE "String"), ByteViewToArrow(liquid)) :
     liquid \in ByteViewFromBytes(bytes)}

DecodeFloat(bytes, physical) ==
  {DecodedAs(ArrowType(physical), FloatToArrow(liquid)) : liquid \in FloatFromBytes(bytes)}

DecodeAs(bytes, logical, physical) ==
  CASE logical = "Integer" /\ physical \notin FloatTypes -> DecodeInteger(bytes, physical)
    [] logical = "Float" /\ physical \in FloatTypes -> DecodeFloat(bytes, physical)
    [] logical = "Decimal" -> {DecimalToArrow(liquid) : liquid \in DecimalFromBytes(bytes)}
    [] logical = "FixedLenByteArray" ->
         {FixedLenToArrow(liquid) : liquid \in FixedLenFromBytes(bytes)}
    [] logical = "ByteViewArray" -> DecodeByteView(bytes)
    [] logical = "LinearInteger" /\ physical \notin FloatTypes \cup Timestamps ->
         DecodeLinear(bytes, physical)
    [] OTHER -> {}

\* decode_liquid_array: none if it throws or returns nullptr.
DecodeLiquidArray(bytes) ==
  UNION {DecodeAs(bytes, LiquidDataTypes[h.logical], PhysicalTypes[h.physical + 1]) :
           h \in ReadHeader(bytes)}
=============================================================================
