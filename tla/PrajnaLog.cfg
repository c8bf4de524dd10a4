\* Both rings wrap more than once; truncation to a byte loses pages.
SPECIFICATION Spec
CONSTANTS
  EVENT_LOG_SIZE = 3
  HISTORY_LEN = 2
  PMM_ALERT_THRESHOLD = 2
  BYTE = 3
  CYCLE = 2
  HORIZON = 4
  FreeLevels = {0, 1, 2, 3, 4, 5}
  MAX_CYCLES = 6
INVARIANTS
  TypeOK
  LogIsLastDecisions
  MemoryHistoryIsLastSamples
  AlertReasonExact
  WarnedBeforeAlert
CHECK_DEADLOCK FALSE
