----------------------------- MODULE AudioUtils -----------------------------
(***************************************************************************)
(* The helpers of src/audio/aidl/common/include/Utils.h: PCM sample size,  *)
(* channel count of a channel layout, frame size of a format and layout,   *)
(* and the masks of flag enums whose values are bit positions.             *)
(*                                                                         *)
(* An AudioFormatDescription is a record [type, pcm]; an AudioChannelLayout *)
(* is a record [tag, mask] with mask an int32.  The flag masks are built   *)
(* with the operators of the Bitwise module, on positions below 31.       *)
(***************************************************************************)
EXTENDS Integers, Sequences, FiniteSets, Bitwise
LOCAL INSTANCE SequencesExt

PcmSize ==
  [UINT_8_BIT |-> 1, INT_16_BIT |-> 2, INT_32_BIT |-> 4, FIXED_Q_8_24 |-> 4,
   FLOAT_32_BIT |-> 4, INT_24_BIT |-> 3]
PcmTypes == DOMAIN PcmSize

\* The default AudioFormatDescription{}: type DEFAULT, pcm UINT_8_BIT.
DefaultFormat == [type |-> "DEFAULT", pcm |-> "UINT_8_BIT"]

\* getPcmSampleSizeInBytes: 0 for a value outside the enum.
getPcmSampleSizeInBytes(pcm) == IF pcm \in PcmTypes THEN PcmSize[pcm] ELSE 0

\* Bit i (0..31) of the two's complement representation of an int32.
Bit(x, i) ==
  LET y == IF x >= 0 THEN x ELSE -x - 1
      b == IF i = 31 THEN 0 ELSE (y \div 2^i) % 2
  IN  IF x >= 0 THEN b ELSE 1 - b

\* __builtin_popcount of an int32 converted to unsigned int, one bit at a
\* time from bit 0.
RECURSIVE PopCountFrom(_, _)
PopCountFrom(x, i) == IF i = 32 THEN 0 ELSE Bit(x, i) + PopCountFrom(x, i + 1)
popcount(x) == PopCountFrom(x, 0)

\* getChannelCount: the number of bits of the mask; none and invalid have
\* no channels.
getChannelCount(layout) ==
  IF layout.tag \in {"indexMask", "layoutMask", "voiceMask"}
  THEN popcount(layout.mask) ELSE 0

\* getFrameSizeInBytes.
getFrameSizeInBytes(format, layout) ==
  CASE format = DefaultFormat -> 0
    [] format.type = "PCM" ->
         getPcmSampleSizeInBytes(format.pcm) * getChannelCount(layout)
    [] format.type = "NON_PCM" -> getPcmSampleSizeInBytes(format.pcm)
    [] OTHER -> 0

\* makeBitPositionFlagMask(E flag): 1 << flag.
makeBitPositionFlagMask(flag) == 2^flag

\* isBitPositionFlagSet(mask, flag).
isBitPositionFlagSet(mask, flag) == (mask & makeBitPositionFlagMask(flag)) # 0

\* One iteration of makeBitPositionFlagMask(initializer_list): result |= mask.
FlagMaskAccumulate(result, flag) == result | makeBitPositionFlagMask(flag)

\* makeBitPositionFlagMask(std::initializer_list<E> flags): 'U result = 0;'
\* then the loop over the list, left to right.
makeBitPositionFlagMaskList(flags) == FoldLeft(FlagMaskAccumulate, 0, flags)

=============================================================================
