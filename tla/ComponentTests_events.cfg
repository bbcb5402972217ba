SPECIFICATION FairSpec
CONSTANT Tests <- MCTests
INVARIANTS
  TypeOK
  SleeperIsNotified
  IdKnownInCallback
  FixtureOutlivedByNotifyAlone
PROPERTIES
  VerifiedByItsOwnEvent
  MalformedEventUnnoticed
  TestsEnd
CHECK_DEADLOCK FALSE
