---------------------------- MODULE MCOrderEscrow ----------------------------
(* OrderEscrow for TLC *)
EXTENDS OrderEscrowProps, TLC

Symmetry == Permutations(Orders) \cup Permutations(Requests) \cup Permutations(Connections)
================================================================================
