------------------------------ MODULE MCWorkflow ------------------------------
(* Workflow for TLC: threads, ids and, where no case is edited, fingerprints *)
(* are interchangeable.                                                      *)
EXTENDS Workflow, TLC

FlowSymmetry == Permutations(Threads) \cup Permutations(Ids)
Symmetry == FlowSymmetry \cup Permutations(Fingerprints)

\* Bound: at most one row of an earlier version, beside those that are opened.
MigratedInit == FlowInit /\ \A a, b \in told : a = b

MigratedSpec == MigratedInit /\ [][FlowNext]_flowVars
=============================================================================
