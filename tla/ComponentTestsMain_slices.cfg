SPECIFICATION Spec
CONSTANTS
  Waiting = 10000
  SLEEPSLOT_TIME = 100
INVARIANT SlicesOfMilliseconds
CHECK_DEADLOCK FALSE
