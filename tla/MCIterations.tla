--------------------------- MODULE MCIterations ----------------------------
(* Two iterations that follow each other on one target. *)
EXTENDS Iterations, TLC

CONSTANTS first, second

MCIterationIds == {first, second}

MCSymmetry == Permutations(MCIterationIds)
=============================================================================
