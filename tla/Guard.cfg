\* The starvation guard with the code's own number of tasks and threshold, for the
\* priorities between which the shipped weights are even-handed.
SPECIFICATION Spec
CONSTANTS
  MAX_TASKS = 8
  PMM_ALERT_THRESHOLD = 2
  STARVATION_THRESHOLD = 5
  BUSY = 4
  PERIOD = 1
  AI_TICK_INTERVAL = 1
  BOOT_TICKS = 1
  BOOT_WAIT = 0
  TICK_MOD = 8
  RUN_MOD = 2
  WAIT_CAP = 12
  FREE_PAGES = 10
  InitialFree = {10}
  MemoryLevels = {}
  WeightsLoad = {TRUE}
  LaterPriorities = {0, 5}
  WATCHDOG = FALSE
  Infer <- ShippedNetwork
CONSTRAINT
  CreatedEarly
INVARIANT
  BoundedWait
