\* Sectors of two words, loops of one turn, a boot that reads and commands that
\* read and write in the middle of it.
SPECIFICATION FairSpec
CONSTANTS
  WORDS = 2
  TIMEOUT = 1
  Digits = {0, 1}
  VERSIONS = 1
  CALLS = 3
INVARIANTS
  TypeOK
PROPERTIES
  TransfersAreTrue
  WritesStayPut
  TransferEnds
CHECK_DEADLOCK FALSE
