CONSTANTS
  Examples <- MC_Examples
  UintBits = 6
SPECIFICATION Spec
\* Execute returns: the test has no next step.
CHECK_DEADLOCK FALSE
INVARIANTS
  VerdictSound
  OperandsInPools
