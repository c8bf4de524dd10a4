\* The average a cycle is compared with.
SPECIFICATION Spec
CONSTANTS
  HISTORY_LEN = 4
  Usages = {0, 50, 100}
PROPERTIES
  DeviationIsFlagged
