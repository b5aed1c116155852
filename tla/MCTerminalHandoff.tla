------------------------- MODULE MCTerminalHandoff -------------------------
(* Two jobs that follow one another, and two settlers. *)
EXTENDS TerminalHandoff, TLC

MCSymmetry == Permutations(TestJobs) \cup Permutations(Settlers)
=============================================================================
