-------------------------- MODULE MCOperationLedger --------------------------
EXTENDS OperationLedger, TLC

\* Operations, projects and goroutines are alike.
Symmetry == Permutations(Ops) \cup Permutations(Projects) \cup Permutations(Procs)
=============================================================================
