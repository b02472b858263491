---------------------------- MODULE MCOrderDelta ----------------------------
(* OrderDelta for TLC: the values of the fields are only compared.         *)
EXTENDS OrderDelta, TLC

Symmetry == Permutations(Watched) \cup Permutations(Rest)
==============================================================================
