\* The same values as Exchange_documented.cfg.
CONSTANTS
  UintLimit = 8
  Arguments <- MCArguments
  Payloads <- MCPayloads
SPECIFICATION Spec
INVARIANT DocumentedAnswersAccepted
