------------------------- MODULE MCOperationService -------------------------
EXTENDS OperationService, TLC

Symmetry == Permutations(Calls \ NoUpload)
=============================================================================
