------------------------- MODULE MCSnapshotProvider -------------------------
EXTENDS SnapshotProvider
=============================================================================
