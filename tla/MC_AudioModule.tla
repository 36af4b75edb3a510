--------------------------- MODULE MC_AudioModule ---------------------------
(* A module with an input and an output mix port, a microphone and a       *)
(* speaker attached, and one external output device that can be connected. *)
(* The input mix port allows one open stream at a time.                    *)
EXTENDS AudioModule

CONSTANTS mixIn, mixOut, mic, speaker, usbOut, usb1  \* model values

MC_MixPorts == {mixIn, mixOut}
MC_InputMixPorts == {mixIn}
MC_DevicePorts == {mic, speaker}
MC_ExtPorts == {usbOut}
MC_ConnIds == {usb1}
MC_Routes == {<<mic, mixIn>>, <<mixOut, speaker>>, <<mixOut, usbOut>>}
MC_MaxOpenStreamCount == [p \in MC_MixPorts |-> IF p = mixIn THEN 1 ELSE 0]
MC_CfgIds == 1..3
MC_StreamIds == 1..2
=============================================================================
