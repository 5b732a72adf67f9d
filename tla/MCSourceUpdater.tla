-------------------------- MODULE MCSourceUpdater ---------------------------
EXTENDS SourceUpdater
=============================================================================
