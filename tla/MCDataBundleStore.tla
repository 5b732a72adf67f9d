-------------------------- MODULE MCDataBundleStore --------------------------
EXTENDS DataBundleStore, TLC

Symmetry == Permutations(Bundles \ Fragile)
=============================================================================
