------------------------------ MODULE MCCBridge ------------------------------
EXTENDS CBridge, TLC

CONSTANTS t1, t2

MCThreads == {t1, t2}
MCCodecs  == {"Hevc", "Avc", "Vvc", "Av1", "Vp8"}
FewCodecs == {"Hevc", "Av1"}
ThreadsAlike == Permutations(MCThreads)
=============================================================================
