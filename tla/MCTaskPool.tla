----------------------------- MODULE MCTaskPool -----------------------------
EXTENDS TaskPool
=============================================================================
