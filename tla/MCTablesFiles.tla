--------------------------- MODULE MCTablesFiles ---------------------------
(***************************************************************************)
(* Bounds for the page tables with the user copies, and for the bytes of    *)
(* files.  The two share no state, so one of them moves while the other      *)
(* stays where it began: the behaviours of each are all there, and not       *)
(* their product.                                                            *)
(***************************************************************************)
EXTENDS UserCopy, FileData, TLC

Init == PtInit /\ FdInit

Next ==
  \/ FdInit /\ PtNext /\ UNCHANGED fdVars
  \/ PtInit /\ FdNext /\ UNCHANGED ptVars

Symmetries == Permutations(Procs) \cup Permutations(FileIds)
=============================================================================
