------------------------------ MODULE MCFifoLots ------------------------------
(* FifoLots for TLC. *)
EXTENDS FifoLots, TLC

Symmetry == Permutations(Locations)
=============================================================================
