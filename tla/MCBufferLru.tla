---------------------------- MODULE MCBufferLru ----------------------------
EXTENDS BufferLru, TLC
\* Block 0 is the label buffers start with; the others are alike.
Symmetries ==
  Permutations(Holders) \cup Permutations(Blocks \ {0}) \cup Permutations(Values)
=============================================================================
