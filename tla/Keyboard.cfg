\* A ring for two scancodes and lines of two characters.
SPECIFICATION FairSpec
CONSTANTS
  SCANCODE_BUFFER_SIZE = 3
  BUF_SIZE = 3
  ShiftKeys = {"shift"}
  CharKeys = {"a"}
INVARIANTS
  TypeOK
  ShiftNotStuck
PROPERTIES
  TerminalSpec
  RingDrains
