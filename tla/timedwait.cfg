SPECIFICATION Spec
CONSTANTS
  CLOCKS_PER_SEC = 500
  TickMod = 16
  LongMod = 65536
  SubPerMs = 2
  Starts <- MCStarts
  Durations <- MCDurations
  Offsets <- MCOffsets
  Boot = 1000
INVARIANTS
  NeverOverruns
  ShortfallBounded
  DeadlineKept
\* The one call the model makes comes back and the behaviour ends.
CHECK_DEADLOCK FALSE
