---------------------------- MODULE FloatArrays ----------------------------
(***************************************************************************)
(* LiquidFloatArray and LiquidFloatQuantizedArray (liquid_arrays.h).       *)
(*                                                                         *)
(* A float is a number of half steps, a step being the distance of what    *)
(* neighbouring integers decode to under the exponents in use: whole steps *)
(* come back and halves do not, which is the one distinction the encoding  *)
(* makes.  Overflowing casts, NaN and negative zero are left out.          *)
(***************************************************************************)
EXTENDS IntegerArrays

CONSTANTS
  FloatBits,    \* bits of SignedInt (32 or 64)
  SqueezeBits   \* squeeze() wants at least this bit width (8)

\* Floats have whole bytes.
ASSUME FloatAssumption ==
  FloatBits \in 1 .. WordBits /\ FloatBits % ByteBits = 0 /\ SqueezeBits \in Nat

SignedInt == [bits |-> FloatBits, signed |-> TRUE]

\* fast_round goes to the nearest even integer from halfway.
EncodeSingle(v) ==
  IF v % 2 = 0 THEN v \div 2 ELSE IF ((v - 1) \div 2) % 2 = 0 THEN (v - 1) \div 2
                                                         ELSE (v + 1) \div 2
DecodeSingle(n) == 2 * n

\* from_arrow: null slots are encoded, and patched, like the others.
FloatFromArrow(array) ==
  LET value(i) == SlotAt(array, i).value
      patches == {i \in Index(array) : DecodeSingle(EncodeSingle(value(i))) # value(i)}
      exact   == Index(array) \ patches
      fill    == EncodeSingle(value(Min(exact)))
      encoded == [i \in Index(array) |->
                    IF i \in patches /\ exact # {} THEN fill ELSE EncodeSingle(value(i))]
      all == {encoded[i] : i \in Index(array)}
      offsets == [i \in Index(array) |-> Unsigned(encoded[i] - Min(all), SignedInt)]
  IN  IF ValidIn(array) = {}
      THEN [reference |-> 0, packed |-> PackZeros(array), patches |-> {}, values |-> <<>>]
      ELSE [reference |-> Min(all),
            packed |-> Pack(Words(array, offsets), NullBits(array),
                            GetBitWidth(Unsigned(Max(all) - Min(all), SignedInt))),
            patches |-> patches,
            values |-> [i \in patches |-> value(i)]]

FloatToArrow(liquid) ==
  LET temp == BulkUnpack(liquid.packed, FloatBits)
  IN  [i \in DOMAIN temp |->
         [valid |-> ~IsNull(liquid.packed, i),
          value |-> IF i \in liquid.patches THEN liquid.values[i]
                    ELSE DecodeSingle(Native(liquid.reference + Number(temp[i]), SignedInt))]]

-----------------------------------------------------------------------------
(* squeeze(): half of the bits stay in memory, as numbers of buckets.      *)

CanSqueeze(liquid) == liquid.packed.width >= SqueezeBits

Squeeze(liquid) ==
  LET width  == liquid.packed.width \div 2
      shift  == liquid.packed.width - width
      temp   == BulkUnpack(liquid.packed, FloatBits)
      bucket(i) == Native(liquid.reference + Number(temp[i]), SignedInt) \div 2^shift
      quantized == [i \in 1 .. liquid.packed.length |->
                      IF IsNull(liquid.packed, i - 1) THEN {}
                      ELSE Bits(Unsigned(bucket(i - 1) - liquid.reference \div 2^shift,
                                         SignedInt))]
  IN  [packed |-> Pack(quantized, liquid.packed.nulls, width), shift |-> shift,
       reference |-> liquid.reference, patches |-> liquid.patches, values |-> liquid.values]

Operators == {"Eq", "NotEq", "Lt", "LtEq", "Gt", "GtEq"}

Holds(op, v, k) ==
  CASE op = "Eq" -> v = k [] op = "NotEq" -> v # k
    [] op = "Lt" -> v < k [] op = "LtEq"  -> v <= k
    [] op = "Gt" -> v > k [] op = "GtEq"  -> v >= k

\* handle_eq ... handle_gteq: the answers for a bucket from lo to hi, both
\* when it is undecided.
Answers(op, lo, hi, k) ==
  CASE op = "Eq"    -> IF k < lo \/ k > hi THEN {FALSE} ELSE BOOLEAN
    [] op = "NotEq" -> IF k < lo \/ k > hi THEN {TRUE} ELSE BOOLEAN
    [] op = "Lt"    -> IF k <= lo THEN {FALSE} ELSE IF hi < k THEN {TRUE} ELSE BOOLEAN
    [] op = "LtEq"  -> IF k < lo THEN {FALSE} ELSE IF hi <= k THEN {TRUE} ELSE BOOLEAN
    [] op = "Gt"    -> IF k < lo THEN {TRUE} ELSE IF hi <= k THEN {FALSE} ELSE BOOLEAN
    [] op = "GtEq"  -> IF k <= lo THEN {TRUE} ELSE IF hi < k THEN {FALSE} ELSE BOOLEAN

\* Mutant of Recognized: the scan takes patches for encoded values.
RecognizedNone(squeezed) == {}

\* The patches the scan of try_eval_predicate steps over: it passes null
\* slots before it looks at the patches, and waits for ever for a null one.
Recognized(squeezed) ==
  {i \in squeezed.patches :
     \A j \in squeezed.patches : j <= i => ~IsNull(squeezed.packed, j)}

\* The lower end of the n-th bucket from that of the reference on.
BucketStart(squeezed, n) ==
  LET val == squeezed.reference \div 2^squeezed.shift + n
  IN  DecodeSingle(Native(val * 2^squeezed.shift + squeezed.reference, SignedInt))

\* try_eval_predicate: <<>> when the full data are needed.
TryEvalPredicate(squeezed, op, k) ==
  LET temp == BulkUnpack(squeezed.packed, FloatBits)
      scanned == {i \in DOMAIN temp : ~IsNull(squeezed.packed, i)} \ Recognized(squeezed)
      answers == [i \in scanned |->
                    LET n == Number(temp[i])
                    IN  Answers(op, BucketStart(squeezed, n), BucketStart(squeezed, n + 1), k)]
  IN  IF \E i \in scanned : answers[i] = BOOLEAN THEN <<>>
      ELSE [i \in DOMAIN temp |->
              \/ i \in scanned /\ TRUE \in answers[i]
              \/ i \in squeezed.patches /\ Holds(op, squeezed.values[i], k)]
=============================================================================
