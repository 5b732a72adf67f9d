----------------------------- MODULE UpdateQueue -----------------------------
(***************************************************************************)
(* What the coordinator of local/data-bundles/local-source-updater.ts      *)
(* promises of its jobs: one job at a time is the active one, it is run    *)
(* until it ends, again if need be, and a job that has ended never runs    *)
(* again.                                                                  *)
(***************************************************************************)
CONSTANTS Jobs, None

VARIABLES
  phase,  \* of each job
  active  \* the job that is to be run, or None

vars == <<phase, active>>

Init ==
  /\ phase = [j \in Jobs |-> "absent"]
  /\ active = None

Moves(j, from, to) == phase[j] = from /\ phase' = [phase EXCEPT ![j] = to]

Create(j) == active = None /\ Moves(j, "absent", "queued") /\ UNCHANGED active
Select(j) == active = None /\ phase[j] = "queued" /\ active' = j /\ UNCHANGED phase
Run(j)    == active = j /\ Moves(j, "queued", "running") /\ UNCHANGED active
Again(j)  == active = j /\ Moves(j, "running", "queued") /\ UNCHANGED active
End(j)    == active = j /\ (Moves(j, "running", "ended") \/ Moves(j, "queued", "ended")) /\ UNCHANGED active
Settle(j) == active = j /\ phase[j] = "ended" /\ active' = None /\ UNCHANGED phase

Next == \E j \in Jobs : Create(j) \/ Select(j) \/ Run(j) \/ Again(j) \/ End(j) \/ Settle(j)

Spec == Init /\ [][Next]_vars
=============================================================================
