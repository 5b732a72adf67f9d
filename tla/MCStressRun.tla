----------------------------- MODULE MCStressRun -----------------------------
EXTENDS StressRun
=============================================================================
