SPECIFICATION FairSpec
CONSTANTS
  CLOCKS_PER_SEC = 1000
  TickMod = 4
  LongMod = 65536
  SubPerMs = 1
  Tasks <- MCTasks3
  Prio <- MCPrio3
  Instantiated <- Classes
  Options <- QueueOptions
  Initial = {0, 1, 2}
  MaxCount = 2
  Calls <- Methods
  Counts <- MCCountsNeg
  Destroyer = {t3}
  Timeouts <- MCTimeouts
  Durations <- MCDurations
  LedgerMod = 8
  t1 = t1
  t2 = t2
  t3 = t3
INVARIANTS
  PermitsAddUp
  NoLostWakeUp
PROPERTIES
  ThrowsAreDue
  ReleaseServesFirst
\* Every task may end up dead, or the semaphore deleted.
CHECK_DEADLOCK FALSE
