SPECIFICATION FairSpec
CONSTANTS
  CLOCKS_PER_SEC = 1000
  TickMod = 4
  LongMod = 65536
  SubPerMs = 1
  Tasks = {s1, s2, r1}
  Events = {q, e}
  Requests <- MCRequests
  EvTimeouts = {0, 3}
  EvDurations <- MCDurations
  Now = 0
  Messages = {a, b}
  NoMessage = NoMessage
  MaxMsgs = 2
  Prio <- MCPrio
  Scenes <- MCScenes
  Priorities = {"MSG_PRI_NORMAL", "MSG_PRI_URGENT"}
  Timeouts <- MCTimeouts
  Durations <- MCDurations
  QEvent = q
  StartOptions <- MCStartOptions
  Destroyer = {s2}
  s1 = s1
  s2 = s2
  r1 = r1
  a = a
  b = b
  q = q
  e = e
INVARIANTS
  PendsForAReason
  EndsAreDue
  EventsAccounted
  ReceiveMeansIt
  ListenerAwake
PROPERTIES
  ImplementsQueue
  TimedCallReturns
\* Every task may end up dead.
CHECK_DEADLOCK FALSE
