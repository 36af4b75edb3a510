CONSTANTS
  t1 = t1
  t2 = t2
  md1 = md1
  md2 = md2
  Threads <- MC_Threads
  Metadata <- MC_Metadata
  InitMetadata = md1
  MaxCalls = 2
SPECIFICATION Spec
\* The threads stop calling once each has made MaxCalls calls.
CHECK_DEADLOCK FALSE
INVARIANT TypeOK
