SPECIFICATION FairSpec
CONSTANTS
  CLOCKS_PER_SEC = 1000
  TickMod = 4
  LongMod = 65536
  SubPerMs = 1
  Producers = {p1, p2}
  Consumers = {c1, c2}
  NoTask = NoTask
  Prio <- MCPrio
  Mutexes = {m1, m2}
  Scenes <- MCScenes
  Options <- QueueOptions
  Destroyer = {p1}
  Timeouts <- MCTimeouts
  Durations <- MCDurations
  p1 = p1
  p2 = p2
  c1 = c1
  c2 = c2
  m1 = m1
  m2 = m2
INVARIANTS
  TrustedReturn
PROPERTIES
  ImplementsMonitor
  EventNotMissed
  TimedWaitReturns
