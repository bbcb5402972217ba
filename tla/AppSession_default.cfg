SPECIFICATION Spec
CONSTANTS
  IdLimit = 8
  Typed <- MCTyped
INVARIANT SendsWhatItShows
CHECK_DEADLOCK FALSE
