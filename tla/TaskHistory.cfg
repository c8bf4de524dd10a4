\* Idle, half and full use of the CPU.
SPECIFICATION Spec
CONSTANTS
  HISTORY_LEN = 4
  Usages = {0, 30, 50, 100}
INVARIANTS
  TypeOK
PROPERTIES
  FlagIsDeviation
