\* "falls back to round-robin automatically" does not hold.
SPECIFICATION FairSpec
CONSTANTS
  MAX_TASKS = 3
  PMM_ALERT_THRESHOLD = 2
  STARVATION_THRESHOLD = 5
  BUSY = 4
  PERIOD = 2
  AI_TICK_INTERVAL = 1
  BOOT_TICKS = 1
  BOOT_WAIT = 1
  TICK_MOD = 8
  RUN_MOD = 4
  WAIT_CAP = 9
  FREE_PAGES = 6
  InitialFree = {6}
  MemoryLevels = {}
  WeightsLoad = {FALSE}
  LaterPriorities = {5}
  WATCHDOG = FALSE
  Infer <- ShippedNetwork
PROPERTY
  OfflineRoundRobin
