SPECIFICATION MemorySpec
CONSTANTS
  Names <- MCNames
  StartSize = 2
  RecordSize = 32
  TableSize = 24
  U8 = 4
  MaxItems = 5
  TokenSize = 3
  Leftovers <- MCLeftovers
  MaxNames = 5
INVARIANTS
  SafeUntilGrown
  FreesWhatWasSet
  SearchesNames
  OffsetsNameEntries
  StaysInArrays
CHECK_DEADLOCK FALSE
