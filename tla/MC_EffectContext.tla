-------------------------- MODULE MC_EffectContext --------------------------
(* Float PCM formats; a mono and a stereo layout mask (AudioChannelLayout  *)
(* LAYOUT_MONO 0x1, LAYOUT_STEREO 0x3), a layout of tag 'none', a          *)
(* non-PCM format, and one 16-bit PCM format.                               *)
EXTENDS EffectContext

CONSTANTS s1, dev0, dev1, mode0, mode1, src0, src1, vol0, vol1  \* model values

Float == [type |-> "PCM", pcm |-> "FLOAT_32_BIT"]
Mono == [tag |-> "layoutMask", mask |-> 1]
Stereo == [tag |-> "layoutMask", mask |-> 3]
IO(format, layout, frameCount) ==
  [format |-> format, layout |-> layout, frameCount |-> frameCount]
Common(in, out) == [session |-> s1, input |-> in, output |-> out]

MC_Commons ==
  { Common(IO(Float, Mono, 1), IO(Float, Stereo, 2)),
    Common(IO(Float, Stereo, 2), IO(Float, Mono, 1)),
    Common(IO(Float, [tag |-> "none", mask |-> 0], 2), IO(Float, Stereo, 1)),
    Common(IO([type |-> "NON_PCM", pcm |-> "FLOAT_32_BIT"], Stereo, 2), IO(Float, Mono, 2)),
    Common(IO([type |-> "PCM", pcm |-> "INT_16_BIT"], Stereo, 2), IO(Float, Stereo, 2)) }
MC_DefaultParams == [device |-> dev0, mode |-> mode0, source |-> src0, volume |-> vol0]
=============================================================================
