SPECIFICATION FairSpec
CONSTANTS
  CLOCKS_PER_SEC = 1000
  TickMod = 4
  LongMod = 65536
  SubPerMs = 1
  Tasks <- MCTasks3
  NoTask = none
  Prio <- MCPrio3
  Instantiated <- Classes
  OptionSets = {}
  Calls <- MCLivenessCalls
  Careless = {}
  Mortal = {}
  Destroyer = {}
  ErrnoAware = TRUE
  NestQuickly = FALSE
  QuickGivers = {}
  MaxDepth = 2
  Timeouts <- MCTimeouts
  Durations <- MCDurations
  Deadlines <- MCDeadlines
  Now = 5
  t1 = t1
  t2 = t2
  t3 = t3
  none = none
PROPERTIES
  TimedCallReturns
  FirstIsServed
