----------------------------- MODULE Encodings -----------------------------
(***************************************************************************)
(* The encodings, checked column by column: a column of some type grows    *)
(* slot by slot, and in every state what the encoders make of it is        *)
(* decoded and compared.  Columns of strings and decimals are loaded batch *)
(* by batch, and share the compressor that the first of them has trained.  *)
(***************************************************************************)
EXTENDS VeloxVectors

CONSTANTS
  Types,      \* [kind, bits, signed], see the kinds below
  Floats,     \* the values, in half steps, a float column may hold
  Strings,    \* the values a column of strings or binaries may hold
  Literals,   \* the literals floats are compared with
  MaxStrings, \* bound: the slots of a column of strings or decimals
  MaxShared   \* bound: the slots of a batch for which there is a compressor

\* There are four kinds of types; integers are one to eight bytes wide.
ASSUME TypesAssumption ==
  \A t \in Types : /\ t.kind \in {"integer", "float", "decimal", "string"}
                   /\ t.kind = "integer" => t.bits \in 1 .. WordBits

\* Strings are sequences of bytes.
ASSUME StringsAssumption == Strings \subseteq Seq(0 .. ByteMax)

\* Predicates compare with floats.
ASSUME LiteralsAssumption == Literals \subseteq Int

\* There are floats, and no cast of one overflows.
ASSUME FloatsAssumption ==
  /\ Floats # {}
  /\ \A v \in Floats : v \in Int /\ EncodeSingle(v) \in MinOf(SignedInt) .. MaxOf(SignedInt)

VARIABLES
  type,       \* of the column's values
  column,     \* slots of the batch at hand
  compressor  \* LiquidCompressorStates of the column: none or one table

vars == <<type, column, compressor>>

\* The values near which arithmetic could go wrong.
Boundary(t) ==
  {MinOf(t), MinOf(t) + 1, -1, 0, 1, MaxOf(t)} \cap (MinOf(t) .. MaxOf(t))

\* Decimals around the two ends of an unsigned word.
DecimalBoundary == {-1, 0, 1, MaxOf(UInt64), MaxOf(UInt64) + 1}

ValuesIn(t) ==
  CASE t.kind = "integer" -> Boundary(t)
    [] t.kind = "float"   -> Floats
    [] t.kind = "decimal" -> DecimalBoundary
    [] t.kind = "string"  -> Strings

\* What a null slot may hold.
Filler(t) == IF t.kind = "string" THEN CHOOSE v \in Strings : ~IsAscii(v) ELSE Max(ValuesIn(t))
Fillers(t) == IF t.kind = "string" THEN {Filler(t)} ELSE {0, Filler(t)}

Slots == [valid : {TRUE}, value : ValuesIn(type)] \cup [valid : {FALSE}, value : Fillers(type)]

IsInteger == type.kind = "integer"
IsFloat   == type.kind = "float"
IsDecimal == type.kind = "decimal"
IsString  == type.kind = "string"

\* The type as a C++ type, and the Arrow types that have it.
NativeType == [bits |-> type.bits, signed |-> type.signed]
ArrowTypes ==
  IF IsDecimal THEN [id : Decimals, zoned : {FALSE}, scale : {-1, 2}]
  ELSE {ArrowType(id) :
          id \in IF IsString THEN StringTypes
                 ELSE {p \in Physicals : NativeOf(p) = NativeType /\ (p \in FloatTypes <=> IsFloat)}}

Bound ==
  IF compressor # {} THEN MaxShared
  ELSE IF IsString \/ IsDecimal THEN MaxStrings ELSE MaxLength

-----------------------------------------------------------------------------
Init == type \in Types /\ column = <<>> /\ compressor = {}

AppendSlot(slot) ==
  /\ Len(column) < Bound
  /\ column' = Append(column, slot)
  /\ UNCHANGED <<type, compressor>>

\* load_from_parquet goes on to the next batch of the column, or to the next
\* file, where a column of the same number may have another type: the
\* compressors of all files are found by that number.
NextBatch ==
  /\ column # <<>>
  /\ \E t \in ArrowTypes :
       \E table \in CompressorAfter(t, Array(column, 0), compressor) :
         \E copy \in Copies(table) : compressor' = {copy}
  /\ column' = <<>>
  /\ type' \in {u \in Types : u.kind \in {"string", "decimal"}}

Next == (\E slot \in Slots : AppendSlot(slot)) \/ NextBatch

Spec == Init /\ [][Next]_vars

-----------------------------------------------------------------------------
\* The column as a slice of buffers in which other slots, null and valid,
\* stand before it; such slices, and those on a byte of the bitmap.
SliceAfter(n) ==
  Array([i \in 1 .. n |-> [valid |-> i % 2 = 0, value |-> Filler(type)]] \o column, n)
AllSlices == {SliceAfter(n) : n \in {0, 1, ByteBits}}
ByteSlices == {SliceAfter(n) : n \in {0, ByteBits}}

\* A decoded array has the nulls and the valid values of the original.
Restores(decoded, array) ==
  /\ DOMAIN decoded = Index(array)
  /\ \A i \in Index(array) :
       /\ decoded[i].valid = SlotAt(array, i).valid
       /\ decoded[i].valid => decoded[i].value = SlotAt(array, i).value

\* Strings, binaries and decimals may have nulls in slices that begin with
\* their buffers, and as many distinct values as keys can tell apart.
Sliceable(a) == (IsDecimal \/ IsString) => a.offset = 0 \/ NullCount(a) = 0
Numberable(a) == (IsDecimal \/ IsString) => Cardinality(ValuesOf(a)) <= 2^KeyBits

\* A compressor whose lookup table was never built is only safe for data
\* without the byte that uninitialised memory may seem to list.
Readable(a) ==
  IsString => \A table \in compressor :
                table.built \/ \A v \in ValuesOf(a) : \A k \in DOMAIN v : v[k] # 0

\* Every element of a packed array comes back, truncated to the bit width,
\* whichever of the unpacking loops reads it: elements that span nine bytes,
\* the last ones of the buffer and the tails of the unrolled loops included.
UnpackingAgrees ==
  IsInteger =>
    \A width \in 0 .. WordBits :
      LET words  == [i \in DOMAIN column |-> Bits(column[i].value % 2^WordBits)]
          packed == Pack(words, <<>>, width)
          narrow == BulkUnpack(packed, type.bits)
          wide   == BulkUnpack(packed, WordBits)
      IN  \A i \in DOMAIN wide :
            /\ Get(packed, i) = Low(words[i + 1], width)
            /\ wide[i] = Get(packed, i)
            /\ narrow[i] = Low(Get(packed, i), type.bits)

\* Deltas, whose differences may wrap around, restore every column of the
\* signed types the code instantiates them with, if the slice begins on a byte
\* of the null bitmap.
DeltaRestores ==
  (IsInteger /\ type.signed) =>
    \A a \in ByteSlices : Restores(DeltaToArrow(DeltaFromArrow(a, type), type), a)

\* A residual is an int64_t: it carries the distance of a value to its line.
Carries(liquid, a, i, t) ==
  SlotAt(a, i).value - Predict(liquid.line, i, t) \in MinOf(Int64) .. MaxOf(Int64)

\* The linear model, of any slice, restores the nulls, and every value whose
\* distance to the prediction an int64_t can carry.  So it restores all values of
\* types of less than 64 bits, and unsigned ones up to int64_t's greatest value,
\* though predictions above that value come out of llround as other numbers: a
\* line that is so far off as to cut a residual is given up.
LinearRestores ==
  IsInteger =>
    \A a \in AllSlices :
      LET liquid  == LinearFromArrow(a, type)
          decoded == LinearToArrow(liquid, type)
      IN  /\ DOMAIN decoded = Index(a)
          /\ \A i \in Index(a) : decoded[i].valid = SlotAt(a, i).valid
          /\ \A i \in ValidIn(a) :
               Carries(liquid, a, i, type) => decoded[i].value = SlotAt(a, i).value
          /\ (\/ type.bits < WordBits
              \/ ~type.signed /\ \A v \in ValuesOf(a) : v <= MaxOf(Int64)) => Restores(decoded, a)

\* "value[i] = intercept + slope*i + residual[i]": the linear model restores the
\* values of every column, those of 64 bits included.
LinearIsExact ==
  IsInteger =>
    \A a \in AllSlices : Restores(LinearToArrow(LinearFromArrow(a, type), type), a)

\* The array that is kept of the column, given a compressor, decodes to one of
\* type t that equals the original.
Restorable(t, a, given) ==
  (Sliceable(a) /\ Numberable(a)) =>
    \E liquid \in TranscodeToLiquidArray(t, a, given) :
      /\ WrapperToArrow(liquid).type = t
      /\ Restores(WrapperToArrow(liquid).slots, a)

\* The types whose buffers are those their decoder makes: 64-bit strings, views
\* and dictionaries can only be read as Velox vectors.
ReadableTypes == {t \in ArrowTypes : IsString => t.id \in {"String", "Binary"}}

\* What the store keeps of a column decodes to an array of the column's own
\* type, time unit and scale included, with its nulls and values, for every
\* type it transcodes.
StoredArraysRestore ==
  \A t \in ReadableTypes, a \in ByteSlices : Restorable(t, a, {})

\* So it does with a compressor that was trained on another batch, of the same
\* column or of another file's, or that was not trained at all.
SharedTablesRestore ==
  \A t \in ReadableTypes, a \in ByteSlices :
    (compressor # {} /\ Readable(a)) => Restorable(t, a, compressor)

\* The bytes decode to an array of type t that equals the original.
DecodesTo(bytes, t, array) ==
  \E decoded \in DecodeLiquidArray(bytes) :
    decoded.type = t /\ Restores(decoded.slots, array)

\* The type of the strings that bytes decode to.
PlainType(t) ==
  IF ~IsString THEN t ELSE ArrowType(IF t.id \in BinaryTypes THEN "Binary" ELSE "String")

LinearBytesRestore(t, liquid) ==
  DecodeLiquidArray(LinearToBytes(liquid, t.id)) = {DecodedAs(t, LinearToArrow(liquid, NativeType))}

\* What transcode_arrow_array writes, decode_liquid_array reads back: header,
\* paddings, bitmap, patches, symbol table, offsets and values are where the
\* reader looks for them.  The same holds of a linear model, whose bytes
\* contain those of its residuals.
BytesRestore ==
  /\ \A t \in ArrowTypes, a \in ByteSlices :
       (Sliceable(a) /\ Numberable(a)) => DecodesTo(TranscodeArrowArray(t, a), PlainType(t), a)
  /\ IsInteger =>
       \A t \in {u \in ArrowTypes : u.id \notin Timestamps} :
         LinearBytesRestore(t, LinearFromArrow(Array(column, 0), NativeType))

\* The column as a dictionary array: its distinct values, after a null one,
\* and keys.
AsDictionary(a, indexBits) ==
  LET values == <<[valid |-> FALSE, value |-> <<>>]>>
                  \o [k \in DOMAIN DictionaryOf(a) |-> [valid |-> TRUE, value |-> DictionaryOf(a)[k]]]
      key(v) == CHOOSE k \in DOMAIN values : values[k].valid /\ values[k].value = v
  IN  [values |-> values, indexBits |-> indexBits,
       indices |-> Array([i \in DOMAIN a.slots |->
                            [a.slots[i] EXCEPT !.value = IF @ \in ValuesOf(a) THEN key(@) - 1 ELSE 0]],
                         a.offset)]

\* A dictionary array keeps its strings too, in bytes and as a vector, if the
\* store's keys can number its entries.
DictionariesRestore ==
  LET a == Array(column, 0)
  IN  (IsString /\ Cardinality(ValuesOf(a)) < 2^KeyBits) =>
        \A binary \in BOOLEAN :
          /\ DecodesTo(TranscodeDictionaryArray(AsDictionary(a, KeyBits), binary),
                       ArrowType(IF binary THEN "Binary" ELSE "String"), a)
          /\ \A liquid \in TranscodeDictionary(AsDictionary(a, 2 * KeyBits), binary) :
               Restores(ToVelox(liquid, FALSE).slots, a)

\* Velox has whole days of a Date64, if their number is one of its dates, seconds
\* and nanoseconds of a timestamp, and other values as they are.
SameInVelox(t, veloxType, value, original) ==
  CASE t.id \in Timestamps /\ veloxType = "TIMESTAMP" ->
         value.seconds * PerSecond(t.id) + value.nanos \div NanosPerUnit(t.id) = original
    [] t.id = "Date64" ->
         (original % DayLength = 0 /\ original \div DayLength \in MinOf(Day) .. MaxOf(Day)) =>
           value * DayLength = original
    [] OTHER -> value = original

AgreesInVelox(t, vector, veloxType, array) ==
  /\ vector.type = veloxType
  /\ DOMAIN vector.slots = Index(array)
  /\ \A i \in Index(array) :
       /\ vector.slots[i].valid = SlotAt(array, i).valid
       /\ vector.slots[i].valid =>
            SameInVelox(t, veloxType, vector.slots[i].value, SlotAt(array, i).value)

Fits(a, short) == short => IsDecimal /\ \A v \in ValuesOf(a) : v \in MinOf(Int64) .. MaxOf(Int64)

\* The vector of what the store keeps of array a of type t.  The values of a
\* timestamp are read as the type of its vector says, whichever that is.
StoredVectorAgrees(t, a, short, rowType) ==
  \A liquid \in TranscodeToLiquidArray(t, a, compressor) :
    LET vector == ToVelox(liquid, short)
    IN  /\ AgreesInVelox(t, vector, IF t.id \in Timestamps THEN vector.type ELSE rowType, a)
        /\ (vector.ascii /\ a.offset = 0) => \A v \in ValuesOf(a) : IsAscii(v)

\* The vectors of arrays the store does not make: of timestamps that are known
\* as such, of linear models and of deltas.
OtherVectorsAgree(t, a) ==
  IF t.id \in Timestamps
  THEN AgreesInVelox(t, PrimitiveToVelox(FromArrow(a, NativeType), t.id), "TIMESTAMP", a)
  ELSE /\ LET liquid == LinearFromArrow(a, NativeType)
          IN  (\A i \in ValidIn(a) : Carries(liquid, a, i, NativeType)) =>
                AgreesInVelox(t, LinearToVelox(liquid, t.id), VeloxType(t.id), a)
       /\ t.id \in {"Int32", "Int64"} =>
            AgreesInVelox(t, DeltaToVelox(DeltaFromArrow(a, NativeType), t.id), VeloxType(t.id), a)

\* What the store keeps of a column is, as a Velox vector, what it is as an
\* Arrow array, of the type its table's row type has for the column, that of
\* timestamps aside: the two conversions are loops of their own.  A vector that
\* is said to be all ASCII is.
VeloxAgrees ==
  /\ \A t \in ArrowTypes, a \in ByteSlices, short \in BOOLEAN : \A rowType \in RowTypeOf(t) :
       (Sliceable(a) /\ Numberable(a) /\ Readable(a) /\ Fits(a, short)) =>
         StoredVectorAgrees(t, a, short, rowType)
  /\ IsInteger => \A t \in ArrowTypes : OtherVectorsAgree(t, Array(column, 0))

\* "We must check the stored type_ field ... and produce a Velox TIMESTAMP vector
\* rather than BIGINT": what the store keeps of a timestamp column is, in Velox,
\* of the row type's type.
TimestampsAreTimestamps ==
  column # <<>> => \A t \in {u \in ArrowTypes : u.id \in Timestamps} :
    \A liquid \in TranscodeToLiquidArray(t, Array(column, 0), {}) :
      ToVelox(liquid, FALSE).type \in RowTypeOf(t)

\* The encoders for raw buffers, which choose bit widths and patches in their
\* own way, write what decode_liquid_array reads too, unless the column is
\* empty.
RawBuffersRestore ==
  LET a == Array(column, 0)
  IN  (column # <<>> /\ (IsInteger \/ IsFloat)) =>
        \A t \in ArrowTypes :
          DecodesTo(IF IsFloat THEN TranscodeFloat(a, t.id)
                               ELSE TranscodePrimitive(a, NativeType, t.id), t, a)

\* Runs of equal slots.
RunsOf(slots) ==
  LET ends == Ascending({i \in DOMAIN slots : i = Len(slots) \/ slots[i] # slots[i + 1]})
  IN  [k \in DOMAIN ends |->
         [end |-> ends[k], valid |-> slots[ends[k]].valid, value |-> slots[ends[k]].value]]

\* A run-end encoded column without nulls, whose run ends are as wide as its
\* values, is stored like the plain one, whatever lies behind the buffers.
RunEndsRestore ==
  LET a == Array(column, 0)
  IN  (IsInteger /\ NullCount(a) = 0) =>
        \A t \in {u \in ArrowTypes : u.id \in {"Int32", "Int64"}} :
          {Restores(WrapperToArrow(liquid).slots, a) :
             liquid \in TranscodeRuns(t, RunsOf(column), EndWidth(t))} = {TRUE}

\* An answer try_eval_predicate gives without the full data is right.
Answered(a, op, k) ==
  LET answer == TryEvalPredicate(Squeeze(FloatFromArrow(a)), op, k)
  IN  answer # <<>> =>
        \A i \in ValidIn(a) : answer[i] = Holds(op, SlotAt(a, i).value, k)

\* The upper end of every bucket in use is a SignedInt.
BucketsEnd(a) ==
  LET liquid == FloatFromArrow(a)
      size == 2^Squeeze(liquid).shift
  IN  \A i \in ValidIn(a) \ liquid.patches :
        (EncodeSingle(SlotAt(a, i).value) \div size + 1) * size <= MaxOf(SignedInt)

\* ... if the reference is zero, no null slot was patched, and the ends of no
\* bucket wrap around, as that of the greatest integers' bucket does.
ZeroBasedAnswersAreRight ==
  LET a == Array(column, 0)
      liquid == FloatFromArrow(a)
  IN  (/\ IsFloat /\ CanSqueeze(liquid) /\ BucketsEnd(a)
       /\ liquid.reference = 0 /\ liquid.patches \subseteq ValidIn(a)) =>
        \A op \in Operators, k \in Literals : Answered(a, op, k)

\* "Try to evaluate a comparison predicate using only the quantized
\* representation": an answer is right whatever the reference.
AnswersAreRight ==
  LET a == Array(column, 0)
  IN  (IsFloat /\ CanSqueeze(FloatFromArrow(a))) =>
        \A op \in Operators, k \in Literals : Answered(a, op, k)
=============================================================================
