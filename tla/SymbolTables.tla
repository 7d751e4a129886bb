---------------------------- MODULE SymbolTables ----------------------------
(***************************************************************************)
(* FsstCompressor (fsst.h): strings as sequences of one-byte codes.  A     *)
(* code stands for a symbol, two or three bytes that were frequent in the  *)
(* data the table was trained on; any other byte follows an escape code.   *)
(*                                                                         *)
(* A string is a sequence of bytes, a byte being a number here.  A table   *)
(* is its symbols, whether build_lookup_table was called for it, and what  *)
(* compress finds beyond the symbols if it was not.                        *)
(***************************************************************************)
EXTENDS ByteFormats

CONSTANTS
  SampleBytes,  \* train looks at so many bytes (65536)
  BigramCount,  \* a pair of bytes so frequent may become a symbol (4)
  TrigramCount, \* and three bytes so frequent (3)
  MaxSymbols,   \* symbols of a table (255)
  Phantoms      \* the symbols that memory behind symbols_ may spell, see Copies

ByteMax == 2^ByteBits - 1
Escape  == ByteMax

ASSUME SymbolsAssumption ==
  /\ MaxSymbols \in 0 .. Escape
  /\ {SampleBytes, BigramCount, TrigramCount} \subseteq Nat \ {0}
  /\ \A symbol \in Phantoms : Len(symbol) \in {2, 3} /\ symbol[1] = 0

Untrained == [symbols |-> <<>>, built |-> FALSE, phantom |-> <<>>]

-----------------------------------------------------------------------------
(* train().                                                                *)

Grams(data, n) == {SubSeq(data, i, i + n - 1) : i \in 1 .. Len(data) - n + 1}
CountOf(data, gram) ==
  Cardinality({i \in 1 .. Len(data) - Len(gram) + 1 : SubSeq(data, i, i + Len(gram) - 1) = gram})

Candidates(data) ==
  {g \in Grams(data, 2) : CountOf(data, g) >= BigramCount}
    \cup {g \in Grams(data, 3) : CountOf(data, g) >= TrigramCount}

Savings(data, gram) == CountOf(data, gram) * (Len(gram) - 1)
Numbered(gram) ==
  LET base  == ByteMax + 2
      third == IF Len(gram) = 3 THEN gram[3] + 1 ELSE 0
  IN  gram[1] + base * (gram[2] + base * third)

\* Candidates that save as much are ranked in one of the possible ways: all
\* that depends on it is which code a symbol gets.
RankedBefore(data, g, h) ==
  \/ Savings(data, g) > Savings(data, h)
  \/ Savings(data, g) = Savings(data, h) /\ Numbered(g) < Numbered(h)

TableSize(n) == Smaller(n, MaxSymbols)

Ranked(data, grams) ==
  [k \in 1 .. TableSize(Cardinality(grams)) |->
     CHOOSE g \in grams : Cardinality({h \in grams : RankedBefore(data, h, g)}) = k - 1]

Trained(sample) == [symbols |-> Ranked(sample, Candidates(sample)), built |-> TRUE, phantom |-> <<>>]

\* Without data train returns before it builds the lookup table.
Train(data) ==
  IF data = <<>> THEN Untrained ELSE Trained(SubSeq(data, 1, Smaller(Len(data), SampleBytes)))

\* What compress may find in a copy of a table whose lookup table was never
\* built, and so is uninitialised: of the symbols that exist none, since they
\* are empty; but the index 255 leads to the bytes behind them, the number of
\* symbols, zero, and parts of the lookup table.
Copies(table) ==
  IF table.built THEN {table}
  ELSE {[table EXCEPT !.phantom = symbol] : symbol \in {<<>>} \cup Phantoms}

-----------------------------------------------------------------------------
(* compress() and decompress().                                            *)

\* The codes of the symbols of length n at position i.
CodesAt(table, input, i, n) ==
  LET here(symbol) == Len(symbol) = n /\ i + n - 1 <= Len(input)
                        /\ SubSeq(input, i, i + n - 1) = symbol
  IN  {s - 1 : s \in {k \in DOMAIN table.symbols : here(table.symbols[k])}}
        \cup (IF here(table.phantom) THEN {Escape} ELSE {})

\* One round of the loop, if it is at position i: three bytes before two, a
\* literal byte if there is no symbol.
Encoded(table, input, i, state) ==
  LET emit(codes, n) == [next |-> i + n, codes |-> state.codes \o codes]
      three == CodesAt(table, input, i, 3)
      two   == CodesAt(table, input, i, 2)
  IN  IF i < state.next THEN state
      ELSE IF three # {} THEN emit(<<Min(three)>>, 3)
      ELSE IF two # {} THEN emit(<<Min(two)>>, 2)
      ELSE emit(<<Escape, input[i]>>, 1)

Positions(sequence) == [i \in DOMAIN sequence |-> i]

Compress(table, input) ==
  Seqs!FoldLeft(LAMBDA state, i : Encoded(table, input, i, state),
                [next |-> 1, codes |-> <<>>], Positions(input)).codes

\* Mutant of Decoded1: a literal byte is looked up like a code.
DecodedUnescaped(table, code, state) ==
  IF code = Escape THEN [state EXCEPT !.escaped = TRUE]
  ELSE [escaped |-> FALSE,
        output |-> state.output
                     \o (IF code < Len(table.symbols) THEN table.symbols[code + 1] ELSE <<code>>)]

\* One code: what an escape is the last of is dropped.
Decoded1(table, code, state) ==
  LET emit(bytes) == [escaped |-> FALSE, output |-> state.output \o bytes]
  IN  IF state.escaped THEN emit(<<code>>)
      ELSE IF code = Escape THEN [state EXCEPT !.escaped = TRUE]
      ELSE IF code < Len(table.symbols) THEN emit(table.symbols[code + 1])
      ELSE emit(<<code>>)

Decompress(table, codes) ==
  Seqs!FoldLeft(LAMBDA state, code : Decoded1(table, code, state),
                [escaped |-> FALSE, output |-> <<>>], codes).output

\* Strings compressed one by one, and where each of them ends.
CompressEach(table, strings) ==
  LET codes   == [d \in DOMAIN strings |-> Compress(table, strings[d])]
      ends(n) == MapThenSumSet(LAMBDA d : Len(codes[d]), 1 .. n)
  IN  [data |-> Seqs!FlattenSeq(codes),
       offsets |-> [k \in 1 .. Len(strings) + 1 |-> ends(k - 1)]]

DecompressEach(table, data, offsets) ==
  [d \in 1 .. Len(offsets) - 1 |-> Decompress(table, SubSeq(data, offsets[d] + 1, offsets[d + 1]))]

-----------------------------------------------------------------------------
(* save_symbol_table() and load_symbol_table().                            *)

\* Between the bytes of a string and those of a buffer.
ToBuffer(string)  == [k \in DOMAIN string |-> Bits(string[k])]
FromBuffer(bytes) == [k \in DOMAIN bytes |-> Number(bytes[k])]

SaveSymbolTable(table) ==
  Field(Len(table.symbols), 1)
    \o FieldsOf([s \in DOMAIN table.symbols |-> Len(table.symbols[s])], 1)
    \o Seqs!FlattenSeq([s \in DOMAIN table.symbols |->
                          Aligned(ToBuffer(table.symbols[s]))])

SymbolTableSize(count) == 1 + 9 * count

LoadSymbolTable(bytes) ==
  LET count  == Number(bytes[1])
      length(s) == Number(bytes[1 + s])
      symbol(s) == SubSeq(bytes, 1 + count + 8 * (s - 1) + 1, 1 + count + 8 * (s - 1) + length(s))
  IN  IF bytes = <<>> THEN {Untrained}
      ELSE IF SymbolTableSize(count) > Len(bytes) THEN {}
      ELSE {[symbols |-> [s \in 1 .. count |-> FromBuffer(symbol(s))],
             built |-> TRUE, phantom |-> <<>>]}

\* [symbol table] [uncompressed bytes] [compressed size] [compressed data]
FsstSection(table, uncompressed, data) ==
  SaveSymbolTable(table) \o Field(uncompressed, 8) \o Field(Len(data), 4) \o ToBuffer(data)

\* The table, the data, and the bytes behind them.
ReadFsstSection(bytes) ==
  LET read(table) ==
        LET at   == SymbolTableSize(Len(table.symbols))
            size == FieldAt(bytes, at + 8, 4)
        IN  IF at + 12 > Len(bytes) \/ at + 12 + size > Len(bytes) THEN {}
            ELSE {[table |-> table, uncompressed |-> FieldAt(bytes, at, 8),
                   data |-> FromBuffer(SubSeq(bytes, at + 13, at + 12 + size)),
                   rest |-> From(bytes, at + 12 + size)]}
  IN  UNION {read(table) : table \in LoadSymbolTable(bytes)}
=============================================================================
