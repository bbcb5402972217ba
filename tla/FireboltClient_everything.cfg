SPECIFICATION Spec
CONSTANTS
  AppThread = {app}
  Transport = transport
  Exercised <- MCExercisedPair
  MaxId = 2
  MaxWire = 1
INVARIANTS DisconnectReleasesEverything
CHECK_DEADLOCK FALSE
