------------------------- MODULE MCMutationReceipts -------------------------
EXTENDS MutationReceipts, TLC

Symmetry == Permutations(Runs)
=============================================================================
