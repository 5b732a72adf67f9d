-------------------------- MODULE ReliabilityJournal --------------------------
(***************************************************************************)
(* What the store of local/reliability promises: for each workflow a list  *)
(* of events that only grows at its end, each key once, and an answer only *)
(* to those who have their event in it.                                    *)
(***************************************************************************)
EXTENDS Sequences

CONSTANTS Workflows, Keys

VARIABLES
  log,    \* of each workflow, the keys in the order of their events
  acked   \* the events some caller was told of

vars == <<log, acked>>

Init == log = [w \in Workflows |-> <<>>] /\ acked = {}

Holds(w, k) == \E i \in DOMAIN log[w] : log[w][i] = k

Record(w, k) ==
  /\ ~Holds(w, k)
  /\ log' = [log EXCEPT ![w] = Append(@, k)]
  /\ UNCHANGED acked

Answer(w, k) ==
  /\ Holds(w, k)
  /\ acked' = acked \cup {<<w, k>>}
  /\ UNCHANGED log

Next == \E w \in Workflows, k \in Keys : Record(w, k) \/ Answer(w, k)

Spec == Init /\ [][Next]_vars
=============================================================================
