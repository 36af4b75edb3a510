CONSTANTS
  s1 = s1
  dev0 = dev0
  dev1 = dev1
  mode0 = mode0
  mode1 = mode1
  src0 = src0
  src1 = src1
  vol0 = vol0
  vol1 = vol1
  NoCommon = NoCommon
  Commons <- MC_Commons
  DefaultParams <- MC_DefaultParams
  Devices = {dev0, dev1}
  Modes = {mode0, mode1}
  Sources = {src0, src1}
  Volumes = {vol0, vol1}
  StatusDepth = 2
  WorkerRunsDuringReset = FALSE
SPECIFICATION Spec
\* LOG_ALWAYS_FATAL ends the process: an aborted context has no next step.
CHECK_DEADLOCK FALSE
INVARIANTS
  TypeOK
  WorkBufferFits
