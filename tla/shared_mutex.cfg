SPECIFICATION Spec
CONSTANTS
  CLOCKS_PER_SEC = 1000
  TickMod = 4
  LongMod = 65536
  SubPerMs = 1
  Tasks <- MCTasks3
  NoTask = none
  Prio <- MCPrio3
  Instantiated <- Classes
  MaxReaders <- MCMaxReaders
  OptionSets <- MCOptionSets
  SEM_RW_MAX_CONCURRENT_READERS = 2
  Careless = {t3}
  Upgraders = {t2}
  Destroyer = {t3}
  MaxDepth = 2
  Timeouts <- MCTimeouts
  Durations <- MCDurations
  Deadlines <- MCDeadlines
  Now = 5
  t1 = t1
  t2 = t2
  t3 = t3
  none = none
INVARIANTS
  NoLostHandOver
  LevelsBacked
PROPERTIES
  SharingIsShared
  ImplementsRWLock
\* A destroyed mutex has no calls left; a dead task's is never given.
CHECK_DEADLOCK FALSE
