-------------------------- MODULE MCBinaryDelivery --------------------------
(***************************************************************************)
(* A small instance of BinaryDelivery: one path, two programs that contend *)
(* for it, two jobs, two exporters.                                        *)
(***************************************************************************)
EXTENDS BinaryDelivery, TLC

Symmetry == Permutations(Contents) \union Permutations(Jobs)
              \union Permutations(Exporters)
=============================================================================
