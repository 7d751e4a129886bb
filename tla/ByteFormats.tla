---------------------------- MODULE ByteFormats ----------------------------
(***************************************************************************)
(* The serialized forms of the encodings: the IPC header (ipc_header.h),   *)
(* BitPackedArray::serialize, to_bytes and from_bytes (liquid_arrays.h),   *)
(* and the encoders that write bytes at once (transcoder.h).               *)
(*                                                                         *)
(* A buffer is a sequence of bytes, a byte the set of its one bits.  What  *)
(* reads a buffer yields the set of its result: none if it throws.         *)
(***************************************************************************)
EXTENDS FloatArrays

Seqs == INSTANCE SequencesExt

\* The fields of a header and of a packed array hold what is written there: a
\* bit width fits one byte, the length and the bytes of an array four.
ASSUME FormatAssumption ==
  /\ ByteBits > 1 /\ WordBits < 2^ByteBits
  /\ MaxLength * WordBytes < 2^(4 * ByteBits)

Zeros(n) == [k \in 1 .. n |-> {}]

\* n in `size` bytes, the least significant first; two's complement if n < 0.
Field(n, size) ==
  [k \in 1 .. size |->
     {b \in 0 .. ByteBits - 1 : (n \div 2^((k - 1) * ByteBits + b)) % 2 = 1}]

\* The unsigned number in the `size` bytes from `offset` on.
FieldAt(bytes, offset, size) ==
  MapThenSumSet(LAMBDA k : Number(bytes[offset + k]) * 2^((k - 1) * ByteBits), 1 .. size)

SignedAt(bytes, offset, size) ==
  Native(FieldAt(bytes, offset, size), [bits |-> size * ByteBits, signed |-> TRUE])

\* Several fields of one size.
FieldsOf(numbers, size) == Seqs!FlattenSeq([j \in DOMAIN numbers |-> Field(numbers[j], size)])

\* A float or double of `size` bytes, which nobody takes apart: the first byte
\* stands for all of them.
Float(v, size)          == <<{v}>> \o Zeros(size - 1)
FloatsOf(values, size)  == Seqs!FlattenSeq([j \in DOMAIN values |-> Float(values[j], size)])
FloatAt(bytes, offset)  == CHOOSE v \in bytes[offset + 1] : TRUE

\* The numbers of a set in order: the k-th has k of them up to it.
Ascending(set) ==
  [k \in 1 .. Cardinality(set) |-> CHOOSE n \in set : Cardinality({m \in set : m <= n}) = k]

Align8(n) == CeilDiv(n, 8) * 8
Aligned(bytes) == bytes \o Zeros(Align8(Len(bytes)) - Len(bytes))
From(bytes, offset) == SubSeq(bytes, offset + 1, Len(bytes))

-----------------------------------------------------------------------------
(* LiquidIPCHeader: 16 bytes.                                              *)

LiquidDataTypes == <<"Integer", "Float", "FixedLenByteArray", "ByteViewArray",
                     "LinearInteger", "Decimal">>
PhysicalTypes == <<"Int8", "Int16", "Int32", "Int64", "UInt8", "UInt16", "UInt32", "UInt64",
                   "Float32", "Float64", "Date32", "Date64", "TimestampSecond",
                   "TimestampMillisecond", "TimestampMicrosecond", "TimestampNanosecond">>

Magic   == 77   \* the letters LQDA; any number does
Version == 1

LogicalId(logical)   == CHOOSE n \in DOMAIN LiquidDataTypes : LiquidDataTypes[n] = logical
PhysicalId(physical) == (CHOOSE n \in DOMAIN PhysicalTypes : PhysicalTypes[n] = physical) - 1

Header(logical, physical) ==
  Field(Magic, 4) \o Field(Version, 2) \o Field(LogicalId(logical), 2)
    \o Field(PhysicalId(physical), 2) \o Zeros(6)

\* The logical and the physical type: two numbers.
ReadHeader(bytes) ==
  IF Len(bytes) < 16 \/ FieldAt(bytes, 0, 4) # Magic \/ FieldAt(bytes, 4, 2) # Version
  THEN {}
  ELSE {[logical |-> FieldAt(bytes, 6, 2), physical |-> FieldAt(bytes, 8, 2)]}

IsOfType(bytes, logical) == \E h \in ReadHeader(bytes) : h.logical = LogicalId(logical)

-----------------------------------------------------------------------------
(* BitPackedArray: 16 bytes, the null bitmap, padding, the packed values.  *)

\* The null bitmap, if there is one.
BitmapOf(packed) ==
  IF packed.nulls = <<>> THEN <<>>
  ELSE [k \in 1 .. CeilDiv(packed.length, ByteBits) |->
          {b \in 0 .. ByteBits - 1 :
             LET i == (k - 1) * ByteBits + b IN i < packed.length /\ packed.nulls[i]}]

Serialize(packed) ==
  LET bitmap == BitmapOf(packed)
      size   == Cardinality(DOMAIN packed.bytes)
  IN  Aligned(Field(packed.length, 4) \o Field(packed.width, 1)
                \o Field(IF bitmap = <<>> THEN 0 ELSE 1, 1)
                \o Field(Len(bitmap), 4) \o Field(size, 4) \o Zeros(2) \o bitmap)
        \o [k \in 1 .. size |-> packed.bytes[k - 1]]

\* Mutant of ValuesOffset: the values follow the null bitmap at once.
UnalignedOffset(bitmapSize) == 16 + bitmapSize

ValuesOffset(bitmapSize) == Align8(16 + bitmapSize)

Deserialize(bytes) ==
  LET length     == FieldAt(bytes, 0, 4)
      bitmapSize == IF FieldAt(bytes, 5, 1) = 0 THEN 0 ELSE FieldAt(bytes, 6, 4)
      size       == FieldAt(bytes, 10, 4)
      offset     == ValuesOffset(bitmapSize)
  IN  IF \/ Len(bytes) < 16
         \/ 16 + bitmapSize > Len(bytes)
         \/ size > 0 /\ offset + size > Len(bytes)
      THEN {}
      ELSE {[length |-> length,
             width  |-> FieldAt(bytes, 4, 1),
             nulls  |-> IF bitmapSize = 0 THEN <<>>
                        ELSE [i \in 0 .. length - 1 |->
                                i % ByteBits \in bytes[17 + i \div ByteBits]],
             bytes  |-> [k \in 0 .. size - 1 |-> bytes[offset + k + 1]]]}

-----------------------------------------------------------------------------
(* LiquidPrimitiveArray, LiquidLinearIntegerArray, LiquidFloatArray.       *)

SizeOf(type) == type.bits \div ByteBits

PrimitiveToBytes(liquid, type, physical) ==
  Aligned(Header("Integer", physical) \o Field(liquid.reference, SizeOf(type)))
    \o Serialize(liquid.packed)

PrimitiveFromBytes(bytes, type) ==
  LET size == SizeOf(type)
  IN  IF ~IsOfType(bytes, "Integer") \/ 16 + size > Len(bytes) THEN {}
      ELSE {[reference |-> Native(FieldAt(bytes, 16, size), type), packed |-> packed] :
              packed \in Deserialize(From(bytes, Align8(16 + size)))}

LinearToBytes(liquid, physical) ==
  Header("LinearInteger", physical)
    \o Aligned(Float(liquid.line.intercept, 8) \o Float(liquid.line.slope, 8))
    \o PrimitiveToBytes(liquid.residuals, Int64, "Int64")

LinearFromBytes(bytes) ==
  IF ~IsOfType(bytes, "LinearInteger") THEN {}
  ELSE {[line |-> [slope |-> FloatAt(bytes, 24), intercept |-> FloatAt(bytes, 16)],
         residuals |-> residuals] :
          residuals \in PrimitiveFromBytes(From(bytes, Align8(32)), Int64)}

\* The eight bytes of the exponents, which the model fixes, are zero.
FloatToBytes(liquid, physical) ==
  LET indices == Ascending(liquid.patches)
      values  == [j \in DOMAIN indices |-> liquid.values[indices[j]]]
  IN  Aligned(Aligned(Header("Float", physical) \o Field(liquid.reference, SizeOf(SignedInt)))
                \o Zeros(8) \o Field(Len(indices), 8)
                \o FieldsOf(indices, 8) \o FloatsOf(values, SizeOf(SignedInt)))
        \o Serialize(liquid.packed)

EmptyPacked == Pack(<<>>, <<>>, 0)

FloatFromBytes(bytes) ==
  LET size    == SizeOf(SignedInt)
      count   == Align8(16 + size) + 8          \* where the number of patches is
      n       == FieldAt(bytes, count, 8)
      indices == count + 8
      values  == indices + 8 * n
      next    == Align8(values + size * n)
      at      == [j \in 1 .. n |-> FieldAt(bytes, indices + 8 * (j - 1), 8)]
      patches == {at[j] : j \in 1 .. n}
      value(i) == FloatAt(bytes, values + size * ((CHOOSE j \in 1 .. n : at[j] = i) - 1))
  IN  IF ~IsOfType(bytes, "Float") \/ indices > Len(bytes) \/ values + size * n > Len(bytes)
      THEN {}
      ELSE {[reference |-> SignedAt(bytes, 16, size), packed |-> packed, patches |-> patches,
             values |-> [i \in patches |-> value(i)]] :
              packed \in IF next < Len(bytes) THEN Deserialize(From(bytes, next))
                                              ELSE {EmptyPacked}}

-----------------------------------------------------------------------------
(* transcode_primitive and transcode_float: from raw values to bytes.  The *)
(* validity of a slot is its bit in null_bitmap, which is missing if there *)
(* are no nulls.                                                           *)

\* Mutant of ComputeBitWidth: a power of two gets a bit too few.
ComputeBitWidthShort(n) == IF n = 0 THEN 0 ELSE BitWidthRoundedDown(n)

\* compute_bit_width: no bits for zero.
ComputeBitWidth(n) == IF n = 0 THEN 0 ELSE GetBitWidth(n)

\* Without a valid slot max_val - min_val is that of the initial values.
TranscodePrimitive(array, type, physical) ==
  LET valid == ValuesOf(array)
      reference == IF valid = {} THEN 0 ELSE Min(valid)
      range == IF valid = {} THEN MinOf(type) - MaxOf(type) ELSE Max(valid) - Min(valid)
      offsets == [i \in Index(array) |-> Unsigned(SlotAt(array, i).value - reference, type)]
      packed == Pack(Words(array, offsets), NullBits(array),
                     ComputeBitWidth(Unsigned(range, type)))
  IN  IF Length(array) = 0 THEN Header("Integer", physical)
      ELSE PrimitiveToBytes([reference |-> reference, packed |-> packed], type, physical)

\* transcode_float: null slots are encoded, and patched, like the others.
EncodeFloats(array) ==
  LET value(i) == SlotAt(array, i).value
      patches == {i \in Index(array) : DecodeSingle(EncodeSingle(value(i))) # value(i)}
      exact   == Index(array) \ patches
      fill    == EncodeSingle(value(IF exact = {} THEN 0 ELSE Min(exact)))
      encoded == [i \in Index(array) |-> IF i \in patches THEN fill ELSE EncodeSingle(value(i))]
      all     == {encoded[i] : i \in Index(array)}
      offsets == [i \in Index(array) |-> Unsigned(encoded[i] - Min(all), SignedInt)]
  IN  [reference |-> Min(all),
       packed |-> Pack(Words(array, offsets), NullBits(array),
                       ComputeBitWidth(Unsigned(Max(all) - Min(all), SignedInt))),
       patches |-> patches,
       values |-> [i \in patches |-> value(i)]]

\* An empty column is undefined behaviour: the minimum of no values.
TranscodeFloat(array, physical) == FloatToBytes(EncodeFloats(array), physical)
=============================================================================
