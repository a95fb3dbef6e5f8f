CONSTANTS
  W = 8
  TIMER_FREQUENCY_HZ = 3
  TIMER_TICK_MS = 3
  Interval = 3
SPECIFICATION Spec
INVARIANT
  HartIdPassed
