--------------------------- MODULE MCReliabilityLog ---------------------------
EXTENDS ReliabilityLog, TLC

\* One workflow is written in two steps, with a key that is used for something
\* else, and another in one; whoever asks may ask again.
Ask(kind, w, k, b) == [kind |-> kind, on |-> w, key |-> k, body |-> b]

CONSTANTS w1, w2, k1, k2, b1, b2

MCRequests ==
  {Ask("append", w1, k1, b1), Ask("append", w1, k2, b1), Ask("append", w1, k1, b2),
   Ask("append", w2, k1, b1), Ask("reconcile", w1, k1, b1), Ask("rebuild", w1, k1, b1)}

\* Once a process has been robbed of the lock the properties promise nothing.
UntilRobbed == ~robbed

Symmetry == Permutations(Procs)
=============================================================================
