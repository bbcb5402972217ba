SPECIFICATION FairSpec
CONSTANTS
  AppThread = {app}
  Transport = transport
  Exercised <- MCExercisedPair
  MaxId = 2
  MaxWire = 1
PROPERTIES SweepsReturn QuietAfterDisconnect
CHECK_DEADLOCK FALSE
