---------------------------- MODULE MC_StreamRace ---------------------------
EXTENDS StreamRace

CONSTANTS t1, t2, md1, md2  \* model values
MC_Threads == {t1, t2}
MC_Metadata == {md1, md2}
=============================================================================
