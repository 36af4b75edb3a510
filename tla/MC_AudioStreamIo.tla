--------------------------- MODULE MC_AudioStreamIo ---------------------------
(* Model-checking instance of AudioStreamIo: a two-byte buffer (so that    *)
(* the writer's declared count, one byte less, differs from what it        *)
(* writes), a data MQ exactly that large, and positions 0..2 so that a HAL *)
(* can report an advance and a regression in one run.                      *)
EXTENDS AudioStreamIo
=============================================================================
