# Liquid Cache for Velox: specifications, model checks and proofs

This directory holds TLA+ modules that model `liquidCacheVelox`, an in-process
columnar cache: Arrow columns are transcoded into compact "liquid" encodings,
kept under a byte budget with LRU eviction, and read back by a query engine
(Velox) or by Java threads (JNI).  TLC checks the modules on small instances,
TLAPS proves the most important facts for every value of the constants.
Paths below are relative to `src/`; `PROJECT.json` maps each definition to the
lines it models.

1. The system and its parts
2. Modules and how they correspond to the code
3. Runs: what each checks, its bounds, and what it shows
4. Fairness
5. Proofs
6. Where the code departs from what is said of it
7. What is only model-checked, and what is not modelled
8. Plan

## 1. The system and its parts

| Component (source) | State | Operations | What makes it correct |
|---|---|---|---|
| **LiquidCacheStore** (`include/liquid_cache/liquid_cache_store.h`) | `entries_`, `file_metadata_`, `lru_`, `budget_`, `max_cache_bytes_`, all under `mutex_` | insert (new / larger / not larger), insert_arrow, get, read_batch, clear, set_max_cache_bytes | the LRU list names only cached keys; eviction goes from the oldest on and stops in time; the budget counts what is cached; the cache grows only within its limit; insert fails only for what cannot fit |
| **LruPolicy** (`include/liquid_cache/lru_policy.h`) | `list_`, `map_` of iterators, `mutex_` | notify_insert, notify_access, find_victims, remove, clear | list and map are two views of one set; order is order of use; iterators never dangle |
| **MemoryBudget** (`lru_policy.h`) | atomic `used_bytes_`, `max_bytes_` | try_reserve, try_update, release, set_max_bytes, reset | no update is lost between load and compare-and-swap; the limit holds; a refusal is never stale; some thread always gets through |
| **load_from_parquet** (`src/transcoder_arrow.cpp`) | the store's `entries_` and `file_metadata_`, written one column at a time | the two overloads; open, read, transcode, store, record | what is reported of a row group is what was cached of it; metadata are published last |
| **Velox reads** (`liquid_cache_store.h`, `src/liquid_to_velox.cpp`) | none | getRowGroupsForRange, read_column_velox, read_batch_velox, read_split_velox | splits partition the row groups; a split reads all of its batches or nothing; batches give the rows their split gives |
| **JNI bridge** (`jni_bridge.h`, `jni_bridge.cpp`) | handle counter, tables of sessions and of results, `ScanResult` objects held by `shared_ptr`, an atomic index in each | createSession, executeScan, fetchNextBatch, closeResult, closeSession | handles are unique; every batch goes to one fetch; null means the end; a result lives while it is used and no longer |
| **BitPackedArray** (`bit_packed_array.h`) | packed buffer, width, length, nulls | from_values, get, the bulk unpackers, serialize, deserialize | all unpacking loops agree with element-wise get |
| **Numeric encodings** (`liquid_arrays.h`) | reference / anchor / line / exponents, packed residuals, patches | from_arrow, to_arrow, to_bytes, from_bytes, squeeze, try_eval_predicate | decoding restores every slot; an answer from squeezed data is right |
| **Transcoder** (`transcoder_arrow.cpp`, `transcoder.h`, `ipc_header.h`) | none | transcode_to_liquid_array, transcode_arrow_array, decode_liquid_array, raw-buffer encoders | dispatch by type and back; writer and reader of the bytes agree |
| **Decimals** (`liquid_decimal_array.h`, `liquid_fixed_len_byte_array.h`) | u64 values or a compressed dictionary with 16-bit keys | from_arrow, to_arrow, to_bytes, from_bytes | the same |
| **FsstCompressor** (`fsst.h`) | symbol table and its lookup table | train, compress, decompress, save, load | what is compressed with a table is decompressed with it, whatever it was trained on |
| **LiquidCompressorStates** (`compressor_states.h`) | one compressor per column | with_fsst_compressor_or_train | the table of the first batch serves all others |
| **LiquidByteViewArray** (`liquid_byte_view_array.h`) | shared prefix, compressed dictionary, offsets, keys, flags, cached dictionary | from_arrow (with or without compressor), from_dict_array, to_arrow, to_bytes, from_bytes | strings come back; an array said to be ASCII is |
| **Velox decoding** (`src/liquid_to_velox.cpp`, `liquid_to_velox.h`) | none | to_velox of every encoding, row types | agrees with to_arrow in values, and with the row type |

How they interact.  The store calls LruPolicy and MemoryBudget with its own
`mutex_` held; both protect themselves as well, so that they are correct when
shared.  `load_from_parquet` writes the store's `entries_` directly: each
column under `mutex_`, without the budget and without the LRU list, and the
file's metadata at the end without any lock.  `read_split_velox` holds `mutex_`
throughout and depends on what loads, inserts and evictions have left.  JNI
scans keep their batches to themselves; Java threads meet in the handle tables
and in a result's index.  The encodings are pure and are called with no lock.

What is hard here.  An insert changes four structures and can return early
between any two of them.  Victims leave the LRU list in batches of eight but
are erased one by one.  The size of the entry being updated is read before an
eviction that may erase it.  The budget's loop tests a value that other threads
change.  A load interleaves with everything and fails in the middle silently.
A result is closed while another thread fetches from it.  The encodings live on
modular arithmetic at the ends of the types, shifts across words, slices that
begin in the middle of a buffer, and offsets that writer and reader compute
separately.  `PROJECT.json` lists these hazards line by line, with the
properties that would catch each going wrong.

## 2. Modules and how they correspond to the code

* **EntryBytes** - partial maps of sized records, and the bytes they take
  (`total_memory_size`).  **RecencyList** - the LRU list as a sequence of keys:
  notify_insert, notify_access, removal, and popping from the back.
* **LiquidCacheStore** - the store with every operation as one step, which
  `mutex_` makes them.  An array is its type and its `memory_size()`.
  `MakeRoomAndStore` is insert from make_budget_space on: `Examined` is how many
  victims the loop looks at before it has enough, `Popped` how many leave the
  list (whole batches), `Granted` the answer of the reservation.  size_t
  arithmetic is modulo `Word`.  `Spec` has every operation; `ClientSpec` leaves
  out bulk loads; `CarefulSpec` also leaves out updates that evict their own
  key.
* **LiquidCacheStoreSteps** - insert statement by statement, with the loop of
  make_budget_space and its early returns, beside the operations that may run
  meanwhile.  It *implements* LiquidCacheStore: this is what justifies the
  closed form of `Examined` and `Popped`.
* **BoundedCache** - the abstract contract: a map that may forget, maps a key
  only to what was stored last, and grows only within its limit.
* **MemoryBudget** - threads that reserve and release concurrently; one action
  per access to the atomic.  A failing exchange covers both a changed value and
  a spurious failure.
* **LruPolicy** - nodes and iterators apart: a list of nodes, a map from keys to
  nodes, nodes that are freed and allocated again for another key.
* **JniBridge** - one action per atomic access or critical section: the handle
  counter, the tables, the reference counts of `shared_ptr`, the index.
* **ParquetLoad** - loads step by step with every failure the code passes over,
  beside inserts, evictions, clears and rewritten files; the reads of columns,
  batches and splits are operators of the state.  An entry is kept as a liquid
  array or as a plain Arrow array.  Two loads may run at once.
* **BitPackedArray, IntegerArrays, FloatArrays, ByteFormats** - the numeric
  encodings as pure operators.  A word is the set of its one bits, bytes have
  `ByteBits` bits, so that elements cross words at small sizes.  Slots under a
  null hold garbage that the encoders may read, as Arrow allows.
* **SymbolTables** - FsstCompressor: training by counting pairs and triples of
  bytes, compression and decompression as folds, the stored table.  The lookup
  table is abstracted to what is found through it.  A table that was never
  trained has none; what compress finds in a copy of it is a choice (`Copies`).
* **ByteViewArrays** - LiquidByteViewArray on top of it: dictionary and keys,
  shared prefix, CompactOffsets, flags, and the five sections of its bytes.
* **Transcoder** - the dispatch by type, the decimal encodings, dictionaries and
  run ends, and LiquidArrayWrapper; the compressor a column's batches share is
  a parameter, empty or of one table.
* **VeloxVectors** - to_velox of every encoding: the loops that repeat those of
  to_arrow, and the types vectors and tables are given.
* **Encodings** - the state machine over all of these: a column grows slot by
  slot; `NextBatch` starts another batch, perhaps of another file and type, that
  is given the compressor of the batches before.
* `MC*` modules instantiate these for TLC.  `*Proofs` hold the theorems about the
  module of their name; **LiquidCacheStoreProofs** also those about
  LiquidCacheStoreSteps.  Those about Encodings are in two modules:
  **EncodingsProofs** has integers and floats, **StringsProofs** strings, decimals
  and the compressors that batches share.  **MapAndListTheorems** has the lemmas
  on EntryBytes and RecencyList.

Definitions that begin with "Mutant of" in their comment are plausible wrong
versions of the definition below them.  They are not used; with one of them in
place of the right one TLC finds the corresponding property violated.

## 3. Runs

Deadlock is checked everywhere except in the configurations of Encodings, where a
column has a last slot.  Model values are symmetric where the configuration
says so; no liveness is checked under symmetry.

| Run | Bounds | Distinct states | What it shows |
|---|---|---|---|
| `store_all` | 3 keys of 1-2 bytes, limits 0 and 2, both entry types, batches of 2, 1 attempt, `Word` 8 | 84,754 | under every operation the LRU list tracks only cached keys, once each; inserts evict oldest first; a refused insert that would fit leaves no victim behind |
| `store_careful` | 4 keys of 0-2 bytes, limits 0, 2, 3, batches of 2, 2 attempts, `Word` 16 | 17,552 | for careful clients the budget is exact, the cache grows within its limit, and the store implements BoundedCache |
| `insert_steps` | 3 keys of 1-2 bytes, limits 0 and 2, batches of 2, 1 attempt | 596,322 | the statements of insert implement the one step; victims are cached and distinct; the reservation never fails after room was made; insert returns |
| `memory_budget` | 3 threads that hold up to 2 bytes, limits 0 and 3 | 363,766 | no lost update, no over-reservation, no stale refusal, lock-freedom |
| `lru_policy` | 3 keys, 3 nodes, 7 uses, counts 0, 1, 2, 4 | 1,676 | list and map agree under reuse of nodes; order is order of use; moves as RecencyList says |
| `jni_bridge` | 3 threads, 3 handles, up to 2 batches | 564,761 | unique handles, every batch once, null means exhausted, lifetimes |
| `parquet_load` | 2 loaders, 2 loads of one file with two possible contents, 2 columns, 4 cuts | 1,192,996 | a load that nothing disturbs is visible all or not at all; reports match entries; splits partition; batch reads make up split reads |
| `encodings` | columns of up to 4 slots (3 of strings or decimals, 2 once there is a compressor) of boundary values, as slices after 0, 1 and 3 other slots; bytes of 3 bits, words of 2 bytes, 2-bit keys, tables of up to 2 symbols, 2 rounds of bisection | 18,564 | round trips in memory, through bytes and against Velox, alone and with a shared compressor; agreement of all loops; right answers from squeezed floats when the reference is zero and no bucket's end wraps |
| `store_refusal` | as `store_careful`, sizes 1-2 | violation | an insert that fits is refused |
| `store_self_eviction` | 3 keys of 1-3 bytes, limit 3 | violation | the cache exceeds its limit |
| `split_missing` | as `parquet_load` | violation | a split lacks batches |
| `squeeze_predicate` | float columns of `encodings` | violation | a wrong answer from squeezed data |

Two more configurations of MCEncodings lie beside those of the runs and are not
among them.  `Linear.cfg` (integer columns, the code's eight rounds of bisection)
states `LinearIsExact` and `Timestamps.cfg` states `TimestampsAreTimestamps`, what
two comments of the code promise; TLC finds each violated by a column of one value
(section 6):

    tlc -config Linear.cfg MCEncodings
    tlc -config Timestamps.cfg MCEncodings

Why the bounds are enough.  Three or four keys with batches of two make every
case of make_budget_space happen: nothing to evict, enough within a batch with
victims left over, enough only after a further batch, all attempts used up,
an empty list.  Limits change during a run, so that the usage may exceed the
limit.  `Word` is just larger than all entries together, so that a budget that
counts wrongly wraps.  Two threads suffice for a lost update, three for an
exchange that fails twice; three list nodes for three keys force reuse.  Two
loads and one file of two contents make a load meet its own leftovers; the
contents differ in the number of row groups and of batches.  A word of six bits
with bytes of three has every width with elements inside one byte, across two
bytes and across words; four slots contain a null before, between and after
values; the boundary values are the type's ends and their neighbours, -1, 0, 1; among the
floats are the greatest that can be cast and one that is no whole step.
The five strings are an empty one, one that repeats a pair (so that training
finds a symbol), one with the same first bytes, one with the escape code and
bytes that are no ASCII, and one that begins with a zero byte, which is what an
uninitialised table may seem to hold.  Keys of two bits number all the strings
of a column and are narrower than a byte, so that they are packed across bytes.
Two rounds of the bisection of `fit_linf` are as few for four slots as the
code's eight are for some hundred rows: the line may still be so far off that a
residual exceeds int64_t, which with eight rounds it never is in so short a
column.  A prediction of six unsigned bits may exceed the greatest signed number of
six, where llround overflows and gives the least one (`LlroundOverflow`), as on
x86-64.  A day has 31 milliseconds, so that dates and timestamps fall on, before
and after midnight on both sides of the epoch.  A date has one bit with its sign:
days -1 and 0 fit, and day 1 is one that the cast to a date changes.  Run ends are
at most `MaxLength` also when they are misread; what lies behind their buffer is
any byte.

## 4. Fairness

* `FairStepsSpec`: weak fairness of the statements of an insert that has taken
  `mutex_`.  The thread that holds a lock is scheduled; nothing is assumed of
  callers, and nothing obliges anyone to call.
* `FairSpec` of MemoryBudget: weak fairness of each thread within a call, and
  strong fairness of "some exchange succeeds".  compare_exchange_weak may fail
  spuriously but not for ever; without this even a single thread could stay in
  the loop.  LockFree promises that *some* call leaves the loop, not each.

## 5. Proofs

| Theorem | Statement | Argument |
|---|---|---|
| `StoreTypeCorrect`, `LruTracksCachedKeysAlways` | `Spec => []TypeOK`, `Spec => []LruTracksCachedKeys` | `StoreInv`, their conjunction, is inductive: what insert pops contains what it erases (`PoppedCovers`), so no tracked key loses its entry |
| `EvictsOldestFirstAlways` | `Spec => EvictsOldestFirst` | what is erased is a suffix of the list (`OldestIsSuffix`); needs that the list has no duplicates, hence `StoreInv` |
| `BudgetIsExactForCareful` | `CarefulSpec => []BudgetIsExact` | `BudgetInv == StoreInv /\ BudgetIsExact`: subtracting the erased bytes is exact modulo `Word` because all entries fit in a word; the sum splits into erased and kept (`MapAndListTheorems`) |
| `GrowsWithinLimitForCareful` | `CarefulSpec => GrowsWithinLimit` | from `BudgetInv`: what the reservation tested is the bytes after the step |
| `RefusalDrainsLruAlways` | `Spec => RefusalDrainsLru` | a refusal of what fits the budget means that no number of victims within reach would have been enough, so `Examined` is all of them, and what was popped is exactly what one call can reach |
| `StoreImplementsBoundedCache` | `CarefulSpec => ImplementsBoundedCache` | each step maps to Store, Forget, SetLimit or a stutter |
| `VictimsAreCachedAlways`, `RoomIsEnoughAlways` | the same of StepsSpec | `StepsInv`: between any two statements the list and the victims are without duplicates, have no key in common, and name cached keys; `RoomIsEnough` is inductive by itself |
| `StepsImplementStore` | `StepsSpec => ImplementsStore` | `InsertInv`, explained below |
| `BudgetTypeCorrect`, `NoUpdateIsLost`, `NeverOverReservesAlways`, `RefusesOnlyWhenFullAlways` | MemoryBudget's safety | `BudgetInv == TypeOK /\ NoUpdateLost /\ TestedFits`: a thread at its exchange has tested the value it will exchange; without `TestedFits` the limit is not inductive |
| `MapMatchesListAlways`, `ListIsRecencyOrderAlways`, `MovesAsRecencyListAlways`, `VictimsAreOldestAlways` | the same of LruPolicy | `LruInv == NodesInv /\ TimesInv`: the map is a bijection from its keys to the nodes of the list, and times of use fall along it; each operation on nodes is then the operator of RecencyList on keys |
| `HandlesAreUniqueAlways`, `ClosedStaysClosedAlways`, `LivesWhileUsedAlways`, `EachBatchOnceAlways`, `EndMeansExhaustedAlways` | the same of JniBridge | `BridgeInv`: a handle drawn and not yet stored is nobody else's; a scan's reference count is the number of threads that hold it, plus one while it is in the table; what was fetched of a scan is what its index has passed |
| `MetadataAreContents`, `SplitsPartitionAlways` | `ContentsInv`; `Spec => []SplitsPartitionRowGroups` | metadata and local copies stay sequences of row groups under every interleaving; then arithmetic on the cuts, whose sum does not wrap |
| `InfosMatchEntriesAlways`, `SplitIsAllOrNothingAlways` | the same of ParquetLoad | `LoadInv`: a file that only one load has touched has at most that one reader; it has stored what lies before its place in the file and nothing else, and its metadata appear when it has left.  The property follows from where the reader is |
| `BatchesMakeUpSplitAlways` | `Spec => []BatchesMakeUpSplit` | needs only that keys are numbers: a piece is a row group's batches up to the first that is missing |
| `UnpackingAgreesAlways` | `Spec => []UnpackingAgrees` | a word is the set of its one bits, so packing, and joining an element from the bytes it spans, are equations between sets; the loops differ in which elements they take from where |
| `FrameOfReferenceRestores`, `DeltasRestore`, `FloatsRestore`, `LinearModelRestores` | for every type, length and array of the stated kind, decoding what the encoder makes restores nulls and values | below |
| `DeltaRestoresAlways`, `LinearRestoresAlways` | `Spec => []DeltaRestores`, `Spec => []LinearRestores` | `ColumnFits`: a column holds only slots its type allows; then the encoder's theorem |
| `NumbersAreStored`, `NumbersAgreeInVelox` | `Spec => [](IsInteger \/ IsFloat => StoredArraysRestore)`, the same of `VeloxAgrees` | the dispatch encodes a column as its native type and its wrapper gives the original type back; days that fit a date, seconds and nanoseconds come back by division |
| `PackedBytesRestore`, `PrimitiveBytesRestore`, `LinearBytesOfModelRestore`, `FloatBytesRestore` | for every packed array, integer array, linear model and float array the encoders can make, what is read of the bytes written is that array | below |
| `NumbersRestoreFromBytes`, `RawNumbersRestore` | `Spec => [](IsInteger \/ IsFloat => BytesRestore)`, `Spec => []RawBuffersRestore` | `NumbersFit == ColumnFits` and a column of numbers has at most `MaxLength` slots and no compressor: the fields of the format hold what is written in them |
| `RunsRestore` | `Spec => []RunEndsRestore` | between neighbouring ends all slots are equal (`SlotsOfRun`), so expanding the runs gives the column (`RunsExpand`); ends as wide as the values are read as they were written, whatever lies behind them (`EndsAreRead`) |
| `CompressedRestores`, `StringsRestore`, `DecimalsRestore`, `WideDecimalsRestore` | for every table, string, slice of strings and slice of decimals of the stated kind, decoding what the encoder makes restores it | below |
| `ColumnsAreStored`, `TablesAreShared`, `ColumnsAgreeInVelox` | `Spec => []StoredArraysRestore`, `Spec => []SharedTablesRestore`, `Spec => []VeloxAgrees`, for all four kinds of columns | `CompressorFits`, below |
| `ByteViewBytesRestore`, `DecimalBytesRestore`, `FixedLenBytesRestore` | what is read of the bytes of a byte view, of decimals of one word and of wider ones has the keys, and gives the entries, of what was written | below |
| `StringsRestoreFromBytes`, `ColumnsRestoreFromBytes`, `DictionaryArraysRestore` | every slice of strings whose sizes fit their fields comes back from its bytes; `Spec => [](ColumnBytesFit => BytesRestore)`, for all four kinds of columns; `Spec => [](DictionaryBytesFit => DictionariesRestore)` | below |
| `ZeroBasedAnswers`, `ZeroBasedAnswersAreRightAlways` | what a squeezed float array answers is right for every array, operator and literal under the stated conditions; `Spec => []ZeroBasedAnswersAreRight` | below |

**Statements of insert.**  `InsertInv` relates every statement to E, L and U, the
entries, list and usage when `mutex_` was taken (`before`).  For some p and n, p
keys have left the list, in whole batches; the n oldest entries are gone, and
their bytes released but for the one in `freed`; the victims are the keys
between; and before the last of the n was released there was not enough room.
When the loop is left, whichever way, n and p are therefore the `Examined` and
`Popped` of the one-step insert, and the reservation gives its `Granted`.  The
statement that returns is the step of LiquidCacheStore, all others stutter.

**Encodings of numbers.**  Their powers, folds and bits have no theory in the
provers.  Powers of two are numbers of subsets (`PowerCountsSubsets`), of which
the library knows enough.  A fold of additions is a `Total`: the number of units
its positive terms gain less those its negative terms lose, a difference of
cardinalities, so that order does not matter and terms can be added one by one.
Other folds are shown to exist (`FoldExists`) and to stay where each step stays
(`FoldStays`).  Where a claim is about all slots, or all subsets, a least
counterexample replaces induction.  On top of these:

* frame of reference: `get_bit_width` finds a width for the greatest difference,
  and reference plus difference is the value modulo 2^bits, hence the value;
* deltas: zigzag is undone (`ZigZagRestores`), and steps that are right modulo
  the type's range lead from the first valid slot to every other
  (`StepsReachValues`), null slots adding nothing;
* floats: a value that survives its round trip comes back from its difference to
  the reference, every other from the patches, whatever the fillers are;
* linear model: encoder and decoder make the same prediction, whatever llround
  gives on overflow (`LlroundIs`, `PredictedNumber`), so a value comes back if its
  residual was not cut off.  For unsigned values up to INT64_MAX none is: a
  residual cut off is the least int64_t, and since some value lies on the line or
  above (`LineFits`), and where no value exceeds INT64_MAX the prediction does not
  either unless the line is above the value (`PredictIsBelow`), the residuals are
  then at least as wide as the values, so that the line is dropped.  For int64_t
  the same attempt fails, and rightly (section 6);
* bytes: a number below 256^n comes back from a field of n bytes, signed ones
  modulo that (`FieldAt` is a fold, hence a `Total`).  A reader is shown to find a
  part by `Has(bytes, offset, part)`: parts written one after the other are found
  where the parts before them end (`HasParts`), padding included, and a part
  of a part is found at the sum of their offsets, which is how the bytes of the
  residuals lie in those of a linear model.  Patches of equal sizes are found at
  multiples of their size (`FlattenedAtMultiples`);
* raw buffers: `compute_bit_width` gives a width that every difference fits, and
  no width at all to a column of one value, all of whose elements are then the
  empty set of bits;
* squeezed floats: with reference zero a bucket number is the quotient of the
  encoded integer (`BucketsOfZero`), so the value lies in the bucket its number
  names (`InItsBucket`), and the cast of the literal keeps the order
  (`CastKeeps`).  The proof failed at the bucket of the greatest integers, whose
  upper end wraps around; hence the condition `BucketsEnd` (section 6).

**Strings, decimals and shared compressors.**  compress and decompress are folds
whose every step depends on the one before.  That what one writes the other
reads is an invariant of the fold (`FoldStays`): after each position, the codes so
far decompress to the input so far.  It needs of the table only that its codes
lie below the escape code, that its symbols have two or three bytes, and that
what it lists beyond them (`Copies`) begins with a zero byte, which the input then
must not have (`Safe`).  Training gives such a table whatever the data
(`TrainedTables`): ranking by savings and number is a strict order on the
candidates, for no two have the same number, so every rank is taken.  Then:

* a dictionary lists each value once, in order of the first slots (`DictionaryIs`);
  a key counts the entries before its value, and does not wrap if there are no
  more entries than keys (`KeysAre`), so looking keys up restores a slice
  (`LookedRestores`), its nulls too if it begins with its buffer or has none;
* an entry is the common prefix and its suffix; the compressed suffixes stand in
  a row and come apart at their offsets (`RowComesApart`); compact offsets give
  the offsets back whatever line was fitted, because residuals are kept whole
  in memory;
* an entry of decimals is the string of a field's bytes.  That every such string
  is some number's rests on counting: sets of low bits and numbers below a power
  of two are equally many (`SetsAreNumbers`).  A number comes back from all of its
  bytes, or from the lowest if it fits those (`NumberInRestores`): this is why
  Velox may read eight bytes of a short decimal's entry and sixteen of others;
* `CompressorFits`, inductive: a column has at most one compressor, its table is
  well-formed, and only one that was never built has no symbols.  It is what
  batches need of each other, of whichever column type the next file brings
  (`CompressorStaysFit`).  LiquidFixedLenByteArray trains a table without symbols
  anew; LiquidByteViewArray uses it, hence the condition `Readable`.

**Bytes of strings and decimals.**  The argument of the bytes of numbers goes on:
a reader finds a part where the parts before it end.  What is new:

* the five sections of a byte view stand one after the other, each but the last
  padded to eight bytes, and the header names their sizes.  The reader adds
  sizes up and rounds them as the writer has padded them, so that each section
  is where it looks for it (`Placed`) and is cut out whole (`SectionIsCut`);
* a symbol table is stored without its lookup table.  The one that is loaded has
  the same symbols (`TableIsLoaded`) and therefore decompresses as the one that
  was trained (`ReadsLike`);
* the codes that stand in the bytes are bytes (`CodesAreBytes`), and residuals
  of offsets are read at the width they were written with (`WidthIs`), signed
  ones included (`SignedIsFound`), so that the rows come apart as in memory;
* a dictionary array gets an empty string before its entries, which null indices
  point to; keys are then one greater and still find their entries
  (`AfterEmpty`, `KeysLookUp`).

Sizes of sections, offsets and their residuals are cast to fields of a few bytes
without a test, and the scale to one byte.  No constant of the model bounds the
bytes of a batch, so that they fit is a hypothesis of these theorems, named where
it is needed: `StringBytesFit`, `DecimalBytesFit` and, of a whole column,
`ColumnBytesFit` and `DictionaryBytesFit`, with nothing in them but that a length
is at most `MaxLength` and a number fits its field.  Evaluated as invariants on
the instance of `encodings`, the last two hold in all its 18,564 states, so the
theorems state there what the run checks.

`MapAndListTheorems` proves what moving to the front, inserting, removing and
popping do to a list without duplicates, and how the bytes of a map change when
an entry is put, replaced or removed.

Assumptions, all named in the modules: finitely many keys and threads; entries
no larger than `MaxEntryBytes` whose total fits in a word; limits below `Word`;
at least one victim and one attempt; what threads hold together, and a request
on top of a limit, does not wrap; contents are sequences of row groups with
offsets below `Word`; files have at least one column, and projections name one or
more of them; arrays are inserted under a file, a row group, a column and a
batch number; "no scan" is not a handle; words have at least one bit; there are
four kinds of types, and those of integers have no more bits than a word
(`TypesAssumption`, eight bytes in the code); a key fits a word
(`KeyBitsAssumption`, two bytes in the code); strings are sequences of bytes
(`StringsAssumption`); a table has no more symbols than codes below the escape
code, and what uninitialised memory seems to list begins with a zero byte
(`SymbolsAssumption`); a bit width fits a
byte and the bytes of a packed array a field of four (`FormatAssumption`: with
eight bytes each that is a batch of at most 2^29 - 1 rows, far beyond the row
counts the repository loads; `serialize` casts both without a test); floats have
whole bytes (`FloatAssumption`); there are floats, and no
cast of one with the exponents in use overflows (`FloatsAssumption`: it would
be undefined); the
rounds of the bisection and the bound of columns are numbers; literals of
comparisons are numbers (`LiteralsAssumption`; NaN is not modelled); what llround
gives on overflow is some int64_t (`LlroundAssumption`); a day has milliseconds,
and a date bits, no more than a word (`DayAssumption`); no run end exceeds an
int32_t (`RunEndsAssumption`).  The assumption that a request does not wrap the budget
is real: `used + request_bytes` is not checked for overflow (`lru_policy.h:61`),
and the store turns such requests away before they reach it.

Careful clients are a hypothesis, not a convenience: section 6 shows that the
theorem fails without it.  The proofs are 59 theorems and 488 lemmas, of some
23,000 obligations.

## 6. Where the code departs from what is said of it

* **Refusal of what fits** (`store_refusal`).  `insert` is documented to fail
  only if the entry is too large.  make_budget_space pops eight victims and
  returns when it has enough; those left over stay cached, counted, and
  unknown to the LRU list.  Enough of them fill the budget for good.
  What does hold: such a refusal has drained the list (`RefusalDrainsLru`).
* **An update that evicts itself** (`store_self_eviction`).  The old size is
  read first, the eviction may erase the old entry and release it, and the
  reservation then adds only the difference.  The budget counts too few bytes.
* **Splits with gaps** (`split_missing`).  Null is promised if any batch is
  missing; the code stops at the first that is missing in a row group and
  returns what it has, unless a column has nothing at all.
* **Squeezed predicates** (`squeeze_predicate`).  The reference is added twice
  to a bucket's bounds.  And even with reference zero the upper end of the bucket
  of the greatest integers wraps around to INT_MIN (`liquid_arrays.h:1414-1416`),
  so that of the Float32 values 0 and 214748336, encoded as 0 and 2147483392,
  neither is found equal to 214748336.  With reference zero, ends that do not wrap and no patched null slot the
  answers are right (`ZeroBasedAnswersAreRight`, proved).
* **Timestamps in Velox vectors** (`Timestamps.cfg`, `TimestampsAreTimestamps`).
  A timestamp column kept as a liquid array is decoded into a BIGINT vector of
  raw numbers, although the comment at `src/liquid_to_velox.cpp:38` says that the
  stored type must be checked and a TIMESTAMP produced, and the row type gives the
  column TIMESTAMP; decoding the same Arrow array directly does give a TIMESTAMP
  vector.  `VeloxAgrees` asks of the vectors of stored timestamps the values that
  their type says, and leaves the type open.
* **The linear model loses values** (`Linear.cfg`, `LinearIsExact`), although
  `liquid_arrays.h:444` says that line and residual add up to the value.  The run
  finds an unsigned 64-bit column of one value, the greatest: it has no width, so
  its line does not narrow it and is dropped (l.546), the value is masked to 63
  bits (l.551-556), and 2^64 - 1 comes back as 2^63 - 1.  Columns such as
  2^63 + 2^20, 2^63 + 2^21 lose their values too: llround overflows on the
  predictions (l.362), which makes the line useless.  And int64_t loses values in
  longer columns: a residual beyond int64_t is cut off (l.530-533), and whether
  the line is worth keeping is decided by the width of the residuals as cut off
  (l.541-546), so that a line that is far off looks good.  Of 600 Int64 rows of
  which the first is INT64_MIN and the others INT64_MAX, 43 come back as other
  numbers.  The proof that every value up to INT64_MAX comes back failed at this
  point.  `LinearRestores` says which values do come back, and
  `LinearModelRestores` proves it.
* **Views and dictionaries** are said to go through the same path of a reused
  FSST compressor as other strings (`src/transcoder_arrow.cpp:770`); the code
  encodes them without it.  `SharedTablesRestore` covers what the code does.

The properties of the encodings state their limits: slices of the primitive,
delta and float encodings must begin on a byte of the null bitmap, and slices of
decimals and strings with nulls at the buffer's start; strings and decimals may
have no more distinct values than a key can number; the linear
model restores the values whose residuals fit int64_t; days of a Date64 must be
whole and fit 32 bits, to which the quotient is cast (`src/liquid_to_velox.cpp:95`
and 222); run ends may have no nulls, and must be as wide as the values, for the
code takes them to be so whatever their type (`src/transcoder_arrow.cpp:662` and
685), and misreads others (`EndsRead`); raw columns may not be empty;
strings that were large, views or a dictionary come back as Arrow of another
type; what an untrained table does to zero bytes is left open.  Nothing in the
repository claims these cases, so they are hazards, not findings.

## 7. What is only model-checked, and what is not modelled

Only model-checked:
* liveness (`InsertReturns`, `LockFree`): ENABLED and fairness are beyond the
  prover;
* that the bytes of strings and decimals fit their fields (`ColumnBytesFit`,
  `DictionaryBytesFit`): it depends on the data of a batch, which the code does
  not test, so the theorems on those bytes have it as their hypothesis, and the
  run `encodings` checks `BytesRestore` and `DictionariesRestore` without it;
* what section 6 refutes (`RefusesOnlyOversize`, `GrowsWithinLimit` for clients
  that are not careful, `SplitMissesNothing`, `AnswersAreRight`, `LinearIsExact`,
  `TimestampsAreTimestamps`).

Not modelled:
* `cached_dict_` of a LiquidByteViewArray: a read fills it and memory_size does
  not count it, so that the store may hold more than its limit; the same values
  come back with or without it;
* the hash table inside the FSST symbol table (what is found through it is
  modelled), and all but one of the orders in which equally good symbols may be
  ranked;
* the bytes of floats and doubles one by one: a float is written as a whole, its
  first byte standing for all, and read as a whole;
* the bytes of delta arrays, which have none; that a squeezed array reads its
  full bytes from disk again (they are those of to_bytes); the precision of decimals beyond their key and residual widths;
* the search for ALP exponents (any exponents are admitted by the model's one
  representation of floats as half steps), which also casts values beyond the
  type (on x86-64 that gives the least integer, which decodes to another value), NaN and negative zero;
* the rounding of doubles: values, lines and predictions of the linear model are
  doubles in the code and exact fractions of `Unit` in the model.  Encoder and
  decoder evaluate the same expression on the same doubles, so that any residual
  that is not cut off still adds up to its value; which line is found, and whether
  it is kept, may differ by what rounding changes;
* the schema that a load returns;
* `memory_budget_usage` and other reads without the lock, on which nothing in
  the store depends; the data race of `file_metadata_` as undefined behaviour
  (it is one step);
* build files, scripts, examples; Arrow, Parquet, Velox and the JVM are
  external.

## 8. Plan

The modules were written in the order: store and its abstractions, statements
of insert, budget, LRU policy, JNI bridge, loads and splits, numeric encodings,
bytes, symbol tables, byte views, transcoder with shared compressors, Velox
vectors.  Then the proofs: store, budget, splits, LRU policy, JNI bridge,
statements of insert, loads, the refinement of the one-step insert, encodings
of numbers, their bytes, raw buffers and run ends, symbol tables, strings,
decimals, shared compressors, Velox vectors, and the bytes of strings,
dictionaries and decimals.  With these every invariant, action property and
refinement of a passing run is the subject of a theorem; its two liveness properties
are not.  What is left, in order:

1. A bound on the bytes of a batch, as a constant with an assumption, from which
   `ColumnBytesFit` and `DictionaryBytesFit` follow.
2. `cached_dict_`, and with it a `memory_size` that falls behind what the cache
   holds.
3. The search for ALP exponents, with casts beyond the type.
