CONSTANTS
  Versions = {1, 2, 3}
  OtherVersions = {1, 2, 3}
  ProdEekLength = 2
  MinKeysInCsr = 2
  MaxDefects = 2
SPECIFICATION Spec
\* The suite ends after its last test.
CHECK_DEADLOCK FALSE
INVARIANTS
  SuiteSound
  ConformingVerdict
