---------------------------- MODULE BufferParams ----------------------------
(* The parameters that BufferCache and BufferLru have in common. *)
EXTENDS Naturals

CONSTANTS
  N,         \* N_BUFFER
  Blocks,    \* block numbers
  Values,    \* contents of a block
  Holders,   \* who takes references
  MaxHeld    \* bound: references a holder has at a time

ASSUME BufferAssumption ==
  /\ N \in Nat \ {0}
  /\ 0 \in Blocks
  /\ MaxHeld \in Nat

Bufs == 0 .. N - 1
=============================================================================
