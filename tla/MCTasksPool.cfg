CONSTANTS
  Task = {t1, t2, t3}
  Profile = {"balanced", "light", "bare"}
  Limit = {1, 2}
  Retries = 1
SPECIFICATION FairPoolSpec
INVARIANTS
  PoolTypeOK
  SettledOnce
  NoLostWakeup
  PausedIsQuiet
PROPERTIES
  StartsWithinLimit
  QueuedTasksSettle
  DrainReturns
  PauseReturns
