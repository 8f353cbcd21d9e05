----------------------------- MODULE MCPhysMem -----------------------------
(* Instances of PhysMem for TLC. *)
EXTENDS PhysMem, TLC

HartSymmetry == Permutations(Harts)
=============================================================================
