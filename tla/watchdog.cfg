SPECIFICATION FairSpec
CONSTANTS
  MaxStarts = 4
  Delays <- MCDelays
  Disciplines <- MCSafe
INVARIANTS
  CallsARoutine
PROPERTIES
  OnlyMostRecent
  CancelledNotCalled
  StartedIsCalled
\* A deleted watchdog has no calls left and no timer.
CHECK_DEADLOCK FALSE
