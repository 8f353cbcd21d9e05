--------------------------- MODULE MCBufferCache ---------------------------
EXTENDS BufferCache, TLC
HolderSymmetry == Permutations(Holders)
=============================================================================
