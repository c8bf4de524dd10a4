\* Three tasks created at any time, any network, memory that comes and goes, and
\* counters that wrap in the middle of a period: 9 % 2 = 1 stands for
\* 2^32 % 100 = 96.
SPECIFICATION Spec
CONSTANTS
  MAX_TASKS = 3
  PMM_ALERT_THRESHOLD = 2
  STARVATION_THRESHOLD = 1
  BUSY = 1
  PERIOD = 2
  AI_TICK_INTERVAL = 1
  BOOT_TICKS = 4
  BOOT_WAIT = 1
  TICK_MOD = 9
  RUN_MOD = 3
  WAIT_CAP = 2
  FREE_PAGES = 3
  InitialFree = {3}
  MemoryLevels = {1, 3}
  WeightsLoad = {TRUE}
  LaterPriorities = {5}
  WATCHDOG = FALSE
  Infer <- AnyPreference
INVARIANTS
  BootOwnsTheCpu
  CpuRunsCurrent
  CpuAccounting
PROPERTIES
  DecisionFresh
  RecoveryShell
  BlockedRunsOnlyAfterShell
