\* Float columns of any reference.
SPECIFICATION Spec
CONSTANTS
  ByteBits = 3
  WordBytes = 2
  ChunkBytes = 1
  FloatBits = 6
  SqueezeBits = 2
  Types <- OnlyFloats
  Floats <- FloatValues
  Literals <- FloatLiterals
  KeyBits = 2
  SampleBytes = 10
  BigramCount = 2
  TrigramCount = 2
  MaxSymbols = 2
  Phantoms <- PhantomSymbols
  Strings <- StringValues
  DayLength = 31
  DayBits = 1
  MaxStrings = 3
  MaxShared = 2
  LlroundOverflow <- LeastInt64
  MaxIters = 8
  MaxLength = 4
CHECK_DEADLOCK FALSE
INVARIANT
  AnswersAreRight
