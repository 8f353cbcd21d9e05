---------------------------- MODULE MCFileSystem ----------------------------
(***************************************************************************)
(* Bounds for FileSystem: names are interchangeable.                        *)
(***************************************************************************)
EXTENDS FileSystem, TLC

Symmetry == Permutations(Names)
=============================================================================
