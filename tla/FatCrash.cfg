\* The power may go after any sector of touch, write and rm, and a transfer may fail.
SPECIFICATION FairSpec
CONSTANTS
  Names = {"A", "B"}
  Typed = {"A"}
  Folders = {"S", ".", ".."}
  LENGTH = 1
  LAST = 8
  FIRST = 4
  SLOTS = 5
  Dirs <- UsedDirs
  HostDir <- UsedDir
  HostFat <- UsedFat
  HostData <- OldData
  FAILURES = 1
  CRASHES = TRUE
  NEW_FILES = TRUE
INVARIANTS
  TypeOK
  OneOwner
  OwnedIsAllocated
  NothingBehindEnd
  UpIsUp
PROPERTIES
  NoLeak
  StoreSpec
  CommandEnds
\* Nothing follows a write with an entry that was never filled in.
CHECK_DEADLOCK FALSE
