--------------------------- MODULE MCHotfixFiles ---------------------------
(***************************************************************************)
(* A small instance of HotfixFiles: two files, one caller that applies     *)
(* bundles and one that writes and restores files on its own.              *)
(***************************************************************************)
EXTENDS HotfixFiles, TLC

Symmetry == Permutations(Files)
=============================================================================
