--------------------------- MODULE MCApprovalStore ---------------------------
(* Finite instances of ApprovalStore for TLC. *)
EXTENDS ApprovalStore, TLC

Symmetry == Permutations(Threads) \cup Permutations(Ids) \cup Permutations(Fingerprints)
=============================================================================
