---------------------------- MODULE VeloxVectors ----------------------------
(***************************************************************************)
(* Liquid arrays as Velox vectors (liquid_to_velox.cpp, liquid_to_velox.h).*)
(* to_velox of an encoding unpacks what its to_arrow unpacks, in a loop of *)
(* its own, and gives the vector a type of its own.                        *)
(*                                                                         *)
(* A vector is its type, its elements, and what setAllIsAscii was told.    *)
(* That a decimal is short, of a precision for which Velox takes an        *)
(* int64_t, is given, for precisions are left out.                         *)
(***************************************************************************)
EXTENDS Transcoder

CONSTANTS
  DayLength,  \* milliseconds of a day (86400000)
  DayBits     \* bits of a Velox date (32)

ASSUME DayAssumption == DayLength \in Nat \ {0} /\ DayBits \in 1 .. WordBits

\* The int32_t that a date is in Velox.
Day == [bits |-> DayBits, signed |-> TRUE]

Vector(type, slots) == [type |-> type, slots |-> slots, ascii |-> FALSE]
DecimalType(scale) == <<"DECIMAL", scale>>

\* liquid_physical_to_velox_type.
VeloxType(physical) ==
  CASE physical \in {"Int8", "UInt8"} -> "TINYINT"
    [] physical \in {"Int16", "UInt16"} -> "SMALLINT"
    [] physical \in {"Int32", "UInt32", "Date32", "Date64"} -> "INTEGER"
    [] physical \in {"Int64", "UInt64"} -> "BIGINT"
    [] physical = "Float32" -> "REAL"
    [] physical = "Float64" -> "DOUBLE"
    [] physical \in Timestamps -> "TIMESTAMP"

\* arrow_type_to_velox, for the row type of a table: it throws for views and
\* dictionaries, as DECIMAL does for a scale that is none.
RowTypeOf(type) ==
  IF type.id \in Physicals THEN {VeloxType(type.id)}
  ELSE IF type.id \in {"String", "LargeString"} THEN {"VARCHAR"}
  ELSE IF type.id \in {"Binary", "LargeBinary"} THEN {"VARBINARY"}
  ELSE IF type.id \in Decimals /\ type.scale >= 0 THEN {DecimalType(type.scale)}
  ELSE {}

-----------------------------------------------------------------------------
\* What the loop over the values does to each of them.
Each(slots, convert(_)) ==
  [i \in DOMAIN slots |-> [slots[i] EXCEPT !.value = convert(slots[i].value)]]

\* Mutant of DayOf: a date stays in milliseconds.
DayOfNone(n) == n

\* Milliseconds to days: a quotient of int64_t, cast to int32_t.
DayOf(n) == Native(Truncated(n, DayLength), Day)

\* How many of a timestamp's units are in a second.
PerSecond(unit) ==
  CASE unit = "TimestampSecond"      -> 1
    [] unit = "TimestampMillisecond" -> 1000
    [] unit = "TimestampMicrosecond" -> 1000000
    [] unit = "TimestampNanosecond"  -> 1000000000

NanosPerUnit(unit) == PerSecond("TimestampNanosecond") \div PerSecond(unit)

\* int64_to_velox_timestamp: seconds, rounded down, and the nanoseconds above.
Instant(n, unit) ==
  [seconds |-> n \div PerSecond(unit), nanos |-> (n % PerSecond(unit)) * NanosPerUnit(unit)]

\* The values of the physical type in a vector.
NumbersToVelox(slots, physical) ==
  LET instant(n) == Instant(n, physical)
  IN  Vector(VeloxType(physical),
             CASE physical \in Timestamps -> Each(slots, instant)
               [] physical = "Date64" -> Each(slots, DayOf)
               [] OTHER -> slots)

\* LiquidPrimitiveArray: `physical` is that of its type_ field.
PrimitiveToVelox(liquid, physical) ==
  NumbersToVelox(ToArrow(liquid, NativeOf(physical)), physical)

LinearToVelox(liquid, physical) ==
  NumbersToVelox(LinearToArrow(liquid, NativeOf(physical)), physical)

\* LiquidPrimitiveDeltaArray, of Int32 and Int64 only.
DeltaToVelox(liquid, physical) ==
  Vector(VeloxType(physical), DeltaToArrow(liquid, NativeOf(physical)))

FloatToVelox(liquid, physical) == Vector(VeloxType(physical), FloatToArrow(liquid))

\* LiquidDecimalArray: the sum is one of uint64_t, and of int128_t.
DecimalToVelox(liquid, short) ==
  LET temp == BulkUnpack(liquid.packed, UInt64.bits)
      sum(n) == n + liquid.reference
  IN  Vector(DecimalType(liquid.type.scale),
             [i \in DOMAIN temp |->
                [valid |-> ~IsNull(liquid.packed, i),
                 value |-> IF short THEN Native(sum(Number(temp[i])), Int64)
                           ELSE sum(Number(temp[i]))]])

\* LiquidFixedLenByteArray: eight bytes of an entry, or sixteen.
FixedLenToVelox(liquid, short) ==
  LET entries == FixedLenEntries(liquid)
      width   == IF short THEN WordBytes ELSE 2 * WordBytes
  IN  Vector(DecimalType(liquid.type.scale),
             Looked(liquid.packed, [d \in DOMAIN entries |-> NumberIn(entries[d], width)], 0))

\* LiquidByteViewArray: keys into a dictionary vector if there are more than
\* twice as many slots as entries, otherwise the strings themselves.  The
\* entry of a valid slot is read without a test; that of a null slot is not
\* looked at.
ByteViewToVelox(liquid) ==
  LET entries == Entries(liquid.array)
      keys    == UnpackedKeys(liquid.array.packed)
      slot(i) == [valid |-> ~IsNull(liquid.array.packed, i),
                  value |-> IF IsNull(liquid.array.packed, i) THEN <<>> ELSE entries[keys[i] + 1]]
  IN  [type     |-> IF liquid.binary THEN "VARBINARY" ELSE "VARCHAR",
       slots    |-> [i \in DOMAIN keys |-> slot(i)],
       ascii    |-> DOMAIN keys # {} /\ liquid.ascii]

-----------------------------------------------------------------------------
\* LiquidArrayWrapper::to_velox of what transcode_to_liquid_array made: the
\* inner array of a timestamp is one of Int64, in its type_ field too.
ToVelox(liquid, short) ==
  CASE liquid.logical = "Integer" ->
         PrimitiveToVelox(liquid.inner,
                          IF liquid.physical \in Timestamps THEN "Int64" ELSE liquid.physical)
    [] liquid.logical = "Float" -> FloatToVelox(liquid.inner, liquid.physical)
    [] liquid.logical = "Decimal" -> DecimalToVelox(liquid.inner, short)
    [] liquid.logical = "FixedLenByteArray" -> FixedLenToVelox(liquid.inner, short)
    [] liquid.logical = "ByteViewArray" -> ByteViewToVelox(liquid.inner)
=============================================================================
