\* An int holds half of the ids; a user types numbers below, in and above it.
SPECIFICATION FairSpec
CONSTANTS
  IdLimit = 8
  Typed <- MCTyped
INVARIANTS
  TypeOK
  SessionAsDocumented
PROPERTIES
  AsksAboutTheLastSpoken
  WaitEnds
CHECK_DEADLOCK FALSE
