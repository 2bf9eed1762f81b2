SPECIFICATION Spec
CONSTANTS
  CLOCKS_PER_SEC = 1000
  TickMod = 4
  LongMod = 65536
  SubPerMs = 1
  Tasks <- MCTasks3
  NoTask = none
  Prio <- MCPrio3
  Instantiated <- Classes
  OptionSets <- MCRobust
  Calls <- Methods
  Careless = {t3}
  Mortal = {t1, t2}
  Destroyer = {t3}
  ErrnoAware = TRUE
  NestQuickly = TRUE
  QuickGivers = {t3}
  MaxDepth = 2
  Timeouts <- MCTimeouts
  Durations <- MCDurationsNeg
  Deadlines <- MCDeadlines
  Now = 5
  t1 = t1
  t2 = t2
  t3 = t3
  none = none
INVARIANTS
  TypeOK
  MutualExclusion
  NoLostHandOver
  HoldingsBacked
  OwnerKnows
  HeldIsConsistent
PROPERTIES
  NoSpuriousThrow
  ImplementsLock
\* A destroyed mutex has no calls left; a dead owner's is never given.
CHECK_DEADLOCK FALSE
