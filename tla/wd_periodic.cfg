SPECIFICATION Spec
CONSTANTS
  MaxStarts = 3
  Delays <- MCDelays
  Disciplines <- MCPeriodic
INVARIANTS
  RunningNotDestroyed
\* A deleted watchdog has no calls left and no timer.
CHECK_DEADLOCK FALSE
