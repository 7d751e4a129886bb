--------------------------- MODULE IntegerArrays ---------------------------
(***************************************************************************)
(* The integer encodings of liquid_arrays.h: frame of reference            *)
(* (LiquidPrimitiveArray), delta and zigzag (LiquidPrimitiveDeltaArray)    *)
(* and the linear model (LiquidLinearIntegerArray).                        *)
(*                                                                         *)
(* A type is [bits, signed].  An Arrow array is a slice: the slots of its  *)
(* buffers, valid or not, and an offset into them; a null slot holds some  *)
(* value too.  A decoded array is a function from 0 .. length - 1.         *)
(***************************************************************************)
EXTENDS BitPackedArray

CONSTANTS
  MaxIters,         \* rounds of the bisection of fit_linf (8)
  MaxLength,        \* bound: the slots of an array
  LlroundOverflow   \* llround of a number beyond int64_t: unspecified, on x86-64
                    \* the least int64_t

\* The bounds are numbers.
ASSUME LinearAssumption == MaxIters \in Nat /\ MaxLength \in Nat

\* The denominator of slopes and intercepts: it makes every quotient by a
\* distance of slots, and every halving, exact.
Unit == 2^(MaxIters + 2) * FoldSet(LAMBDA d, n : d * n, 1, 1 .. MaxLength - 1)

MinOf(type) == IF type.signed THEN -(2^(type.bits - 1)) ELSE 0
MaxOf(type) == IF type.signed THEN 2^(type.bits - 1) - 1 ELSE 2^type.bits - 1

\* Casts to UnsignedT and to NativeT.
Unsigned(n, type) == n % 2^type.bits
Native(n, type) ==
  LET u == Unsigned(n, type) IN IF u > MaxOf(type) THEN u - 2^type.bits ELSE u

Int64 == [bits |-> WordBits, signed |-> TRUE]

\* Whatever llround gives, it is an int64_t.
ASSUME LlroundAssumption == LlroundOverflow \in MinOf(Int64) .. MaxOf(Int64)

Clamp(n, type) ==
  IF n < MinOf(type) THEN MinOf(type) ELSE IF n > MaxOf(type) THEN MaxOf(type) ELSE n

\* An array and its slots.
Array(slots, offset) == [slots |-> slots, offset |-> offset]
Length(array) == Len(array.slots) - array.offset
Index(array) == 0 .. Length(array) - 1
SlotAt(array, i) == array.slots[array.offset + i + 1]
ValidIn(array) == {i \in Index(array) : SlotAt(array, i).valid}
ValuesOf(array) == {SlotAt(array, i).value : i \in ValidIn(array)}
NullCount(array) == Length(array) - Cardinality(ValidIn(array))

\* Mutant of Previous: the slot before i, valid or not.
PreviousSlot(array, i) == i - 1

\* The valid slot before i, for all valid slots but the first.
Previous(array, i) == Max({j \in ValidIn(array) : j < i})

\* The null bitmap is copied from the byte that holds the offset's bit on,
\* and read back from that byte's first bit.
NullBits(array) ==
  IF NullCount(array) = 0 THEN <<>>
  ELSE LET first == array.offset - (array.offset % ByteBits)
       IN  [i \in Index(array) |-> array.slots[first + i + 1].valid]

AllNull(array) == [i \in Index(array) |-> FALSE]
PackZeros(array) == Pack([i \in 1 .. Length(array) |-> {}], AllNull(array), 0)

\* The sequence of words of a function on Index.
Words(array, f) == [i \in 1 .. Length(array) |-> Bits(f[i - 1])]

-----------------------------------------------------------------------------
(* LiquidPrimitiveArray: every value minus the least one.                  *)

FromArrow(array, type) ==
  LET min == Min(ValuesOf(array))
      max == Max(ValuesOf(array))
      offsets == [i \in Index(array) |-> Unsigned(SlotAt(array, i).value - min, type)]
  IN  IF ValidIn(array) = {}
      THEN [reference |-> 0, packed |-> PackZeros(array)]
      ELSE [reference |-> min,
            packed |-> Pack(Words(array, offsets), NullBits(array),
                            GetBitWidth(Unsigned(max - min, type)))]

ToArrow(liquid, type) ==
  LET temp == BulkUnpack(liquid.packed, type.bits)
  IN  [i \in DOMAIN temp |->
         [valid |-> ~IsNull(liquid.packed, i),
          value |-> Native(liquid.reference + Number(temp[i]), type)]]

-----------------------------------------------------------------------------
(* LiquidPrimitiveDeltaArray: differences of valid neighbours, zigzagged.  *)

ZigZag(delta) == IF delta >= 0 THEN 2 * delta ELSE -2 * delta - 1
UnZigZag(z)   == IF z % 2 = 0 THEN z \div 2 ELSE -((z + 1) \div 2)

DeltaFromArrow(array, type) ==
  LET valid == ValidIn(array)
      zigzag == [i \in Index(array) |->
                   IF i \notin valid \/ i = Min(valid) THEN 0
                   ELSE Unsigned(ZigZag(Native(SlotAt(array, i).value
                                  - SlotAt(array, Previous(array, i)).value, type)), type)]
  IN  IF valid = {}
      THEN [anchor |-> 0, packed |-> PackZeros(array)]
      ELSE [anchor |-> SlotAt(array, Min(valid)).value,
            packed |-> Pack(Words(array, zigzag), NullBits(array),
                            GetBitWidth(Max({zigzag[i] : i \in Index(array)})))]

\* `current` is folded over the valid slots: its value at i is the anchor and
\* the deltas of the valid slots after the first, up to i.
DeltaToArrow(liquid, type) ==
  LET temp  == BulkUnpack(liquid.packed, type.bits)
      valid == {i \in DOMAIN temp : ~IsNull(liquid.packed, i)}
      deltas(i) == {j \in valid : j <= i} \ {Min(valid)}
      current(i) == liquid.anchor
                      + MapThenSumSet(LAMBDA j : UnZigZag(Number(temp[j])), deltas(i))
  IN  [i \in DOMAIN temp |->
         [valid |-> i \in valid,
          value |-> IF i \in valid THEN Native(current(i), type) ELSE 0]]

-----------------------------------------------------------------------------
(* LiquidLinearIntegerArray: the distance of each value to a line, whose   *)
(* slope and intercept are fractions: numbers of Unit-ths.  In the code    *)
(* they are doubles, rounded; what is claimed of them below rests on coder *)
(* and decoder predicting the same number, not on which.                   *)

\* The distances of the valid slots to a line of slope m.
Distances(array, m) == [i \in ValidIn(array) |-> Unit * SlotAt(array, i).value - m * i]

FirstAt(s, v) == Min({i \in DOMAIN s : s[i] = v})

\* range_stats: the least and the greatest distance and where each comes first.
RangeStats(s) ==
  [min |-> Min(Range(s)), iMin |-> FirstAt(s, Min(Range(s))),
   max |-> Max(Range(s)), iMax |-> FirstAt(s, Max(Range(s)))]

\* One round of the bisection of fit_linf, until both ends meet.
Narrowed(range, m, stats) ==
  IF stats.iMin > stats.iMax THEN [range EXCEPT !.hi = m]
  ELSE IF stats.iMin < stats.iMax THEN [range EXCEPT !.lo = m]
  ELSE [lo |-> m, hi |-> m]

Middle(range) == (range.lo + range.hi) \div 2

Halve(array, range) ==
  Narrowed(range, Middle(range), RangeStats(Distances(array, Middle(range))))

\* The slopes between neighbouring valid slots.
Slopes(array) ==
  LET valid == ValidIn(array)
  IN  {(Unit * (SlotAt(array, i).value - SlotAt(array, Previous(array, i)).value))
         \div (i - Previous(array, i)) : i \in valid \ {Min(valid)}}

BestSlope(array) ==
  IF Cardinality(ValidIn(array)) = 1 THEN 0
  ELSE Middle(FoldSet(LAMBDA round, range : Halve(array, range),
                      [lo |-> Min(Slopes(array)), hi |-> Max(Slopes(array))],
                      1 .. MaxIters))

\* The line of slope m half-way between the extreme slots.
LineOf(m, stats) == [slope |-> m, intercept |-> (stats.min + stats.max) \div 2]

FitLinf(array) ==
  LineOf(BestSlope(array), RangeStats(Distances(array, BestSlope(array))))

Flat == [slope |-> 0, intercept |-> 0]

\* llround: to the nearest, halves away from zero.
Round(n) == IF n >= 0 THEN (2 * n + Unit) \div (2 * Unit)
                      ELSE -((Unit - 2 * n) \div (2 * Unit))

Llround(n) == IF Round(n) \in MinOf(Int64) .. MaxOf(Int64) THEN Round(n) ELSE LlroundOverflow

\* predict_u64_saturated and predict_i64_saturated: an unsigned prediction goes
\* through the signed result of llround, which may be too small for it.
Predict(line, i, type) ==
  LET pred == line.slope * i + line.intercept
  IN  IF pred <= Unit * MinOf(type) THEN MinOf(type)
      ELSE IF pred >= Unit * MaxOf(type) THEN MaxOf(type)
      ELSE Native(Llround(pred), type)

\* residuals: the distances of the values to the line ...
Residuals(array, line, type) ==
  [i \in Index(array) |-> Clamp(SlotAt(array, i).value - Predict(line, i, type), Int64)]

\* ... or the values themselves, masked to the positive int64_t if unsigned.
PlainResiduals(array, type) ==
  [i \in Index(array) |-> IF type.signed THEN SlotAt(array, i).value
                          ELSE SlotAt(array, i).value % (MaxOf(Int64) + 1)]

\* They are built anew: no offset, zero under a null.
Rebuilt(array, f) ==
  Array([i \in 1 .. Length(array) |->
           LET valid == SlotAt(array, i - 1).valid
           IN  [valid |-> valid, value |-> IF valid THEN f[i - 1] ELSE 0]], 0)

Width(set) == Max(set) - Min(set)

\* Does the line narrow the residuals?
Useful(array, line, type) ==
  LET residuals == Residuals(array, line, type)
  IN  /\ ValidIn(array) # {}
      /\ Width({residuals[i] : i \in ValidIn(array)}) < Width(ValuesOf(array))

LinearOf(array, line, residuals) ==
  [line |-> line, residuals |-> FromArrow(Rebuilt(array, residuals), Int64)]

\* Mutant of KeepIfUseful: a useless line is kept beside plain residuals.
KeepAnyway(array, line, type) ==
  IF Useful(array, line, type)
  THEN LinearOf(array, line, Residuals(array, line, type))
  ELSE LinearOf(array, line, PlainResiduals(array, type))

KeepIfUseful(array, line, type) ==
  IF Useful(array, line, type)
  THEN LinearOf(array, line, Residuals(array, line, type))
  ELSE LinearOf(array, Flat, PlainResiduals(array, type))

LinearFromArrow(array, type) ==
  KeepIfUseful(array, IF ValidIn(array) = {} THEN Flat ELSE FitLinf(array), type)

LinearToArrow(liquid, type) ==
  LET residuals == ToArrow(liquid.residuals, Int64)
  IN  [i \in DOMAIN residuals |->
         [valid |-> residuals[i].valid,
          value |-> Clamp(Predict(liquid.line, i, type) + residuals[i].value, type)]]
=============================================================================
