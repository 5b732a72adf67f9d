--------------------------- MODULE AbstractLease ---------------------------
(***************************************************************************)
(* What every caller of acquireDirectoryLease relies on: an exclusive      *)
(* lease that at most one process holds, that only its holder gives back,  *)
(* and that passes on without its holder only once the holder has died.    *)
(* DirectoryLease is shown to implement this module, except where a        *)
(* recoverer takes the directory of a holder for another, and              *)
(* MutationReceipts takes its leases with these actions.                   *)
(***************************************************************************)
CONSTANTS
  Procs,    \* the processes that compete for the lease
  NoProc    \* "nobody", not a member of Procs

VARIABLES
  holder,   \* the process the lease is made out to, or NoProc
  inside    \* the live processes inside the section the lease guards

leaseVars == <<holder, inside>>

Init ==
  /\ holder = NoProc
  /\ inside = {}

Take(p) ==
  /\ holder = NoProc
  /\ holder' = p
  /\ inside' = inside \cup {p}

Drop(p) ==
  /\ holder = p
  /\ p \in inside
  /\ holder' = NoProc
  /\ inside' = inside \ {p}

\* A holder dies inside its section: the lease is still made out to it ...
Die(p) ==
  /\ p \in inside
  /\ inside' = inside \ {p}
  /\ UNCHANGED holder

\* ... until somebody reclaims it.  A live holder keeps its lease.
Reclaim ==
  /\ holder # NoProc
  /\ holder \notin inside
  /\ holder' = NoProc
  /\ UNCHANGED inside

Next ==
  \/ Reclaim
  \/ \E p \in Procs : Take(p) \/ Drop(p) \/ Die(p)

Spec == Init /\ [][Next]_leaseVars

=============================================================================
