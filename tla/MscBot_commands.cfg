SPECIFICATION FairSpec
CONSTANTS
  garbage = garbage
  absent = absent
  Garbage = garbage
  BlockCount = 3
  BlockSize = 64
  BufferBlocks = 2
  Word = 65536
  Commands <- MCCommands
  MaxCommands = 3
  MaxTroubles = 1
  Absent = absent
INVARIANTS
  StoredIsOnMedium
  ReadsAreTrue
  ResidueExact
  SenseReported
PROPERTIES
  CommandAnswered
CHECK_DEADLOCK FALSE
