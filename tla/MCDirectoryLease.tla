-------------------------- MODULE MCDirectoryLease --------------------------
EXTENDS DirectoryLease
=============================================================================
