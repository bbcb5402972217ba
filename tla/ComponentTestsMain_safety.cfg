\* The last slice is shorter than the others; the code's numbers are in the run
\* about the slices.
SPECIFICATION FairSpec
CONSTANTS
  Waiting = 1050
  SLEEPSLOT_TIME = 100
INVARIANTS
  TypeOK
  TestsOnlyAfterConnected
  GivesUpLate
PROPERTY PollingEnds
CHECK_DEADLOCK FALSE
