CONSTANTS
  mixIn = mixIn
  mixOut = mixOut
  mic = mic
  speaker = speaker
  usbOut = usbOut
  usb1 = usb1
  MixPorts <- MC_MixPorts
  InputMixPorts <- MC_InputMixPorts
  DevicePorts <- MC_DevicePorts
  ExtPorts <- MC_ExtPorts
  ConnIds <- MC_ConnIds
  Routes <- MC_Routes
  MaxOpenStreamCount <- MC_MaxOpenStreamCount
  CfgIds <- MC_CfgIds
  StreamIds <- MC_StreamIds
  PatchIds = {1, 2}
  NoId = NoId
  NoPatch = NoPatch
  LONG_MAX = LONG_MAX
  MaxScope = 3
SPECIFICATION Spec
\* The test leaves its module clean for the next one.
INVARIANT
  ModuleClean
