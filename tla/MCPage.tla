-------------------------------- MODULE MCPage --------------------------------
(* Symmetry for TLC.                                                       *)
EXTENDS Page, TLC

PageSymmetry == Permutations(Handlers) \cup Permutations(Ids)
=============================================================================
