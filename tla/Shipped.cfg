\* The weights of the repository, tasks of unequal priority, memory that drops
\* below the ALERT threshold and recovers, and a watchdog that may give Prajna up.
SPECIFICATION FairSpec
CONSTANTS
  MAX_TASKS = 4
  PMM_ALERT_THRESHOLD = 1
  STARVATION_THRESHOLD = 5
  BUSY = 4
  PERIOD = 1
  AI_TICK_INTERVAL = 1
  BOOT_TICKS = 1
  BOOT_WAIT = 0
  TICK_MOD = 4
  RUN_MOD = 2
  WAIT_CAP = 7
  FREE_PAGES = 2
  InitialFree = {2}
  MemoryLevels = {0, 1}
  WeightsLoad = {TRUE}
  LaterPriorities = {0, 10}
  WATCHDOG = TRUE
  Infer <- ShippedNetwork
INVARIANT
  TypeOK
PROPERTIES
  EveryTaskRuns
  ShellRuns
