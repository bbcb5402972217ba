\* Any value may come back; the values TLC tries are in MCExchange.
CONSTANTS
  UintLimit = 8
  Arguments <- MCArguments
  Payloads <- MCPayloads
SPECIFICATION Spec
INVARIANTS
  RequestsAsDocumented
  RequestSaysTheCall
  ExactWhenDocumented
  NoHalfRead
  HearsItsEvent
