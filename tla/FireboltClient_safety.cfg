SPECIFICATION Spec
CONSTANTS
  AppThread = {app, worker}
  Transport = transport
  Exercised <- MCExercisedSwept
  MaxId = 2
  MaxWire = 1
INVARIANTS TypeOK DisconnectReleases KeptUnlessReleased
PROPERTIES NoEventForTheReleased
SYMMETRY MCSymmetry
CHECK_DEADLOCK FALSE
