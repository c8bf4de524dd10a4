\* touch, then write.
SPECIFICATION FairSpec
CONSTANTS
  Names = {"A"}
  Typed = {"A"}
  Folders = {"."}
  LENGTH = 1
  LAST = 6
  FIRST = 3
  SLOTS = 3
  Dirs <- EmptyDirs
  HostDir <- EmptyDir
  HostFat <- EmptyFat
  HostData <- OldData
  FAILURES = 0
  CRASHES = FALSE
  NEW_FILES = FALSE
PROPERTY
  WrittenIsShown
