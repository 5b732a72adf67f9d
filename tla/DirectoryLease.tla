--------------------------- MODULE DirectoryLease ---------------------------
(***************************************************************************)
(* The directory lease of local/new-recruit/cache.ts: a lease is a         *)
(* directory made with mkdir, its holder named in owner.json inside it.    *)
(* One action per file-system call, because nothing serializes the calls   *)
(* of two processes.  The same algorithm, with other names, guards the     *)
(* data-bundle store and the local source updater.                         *)
(*                                                                         *)
(* A process stands for one acquireDirectoryLease caller and its pid, a    *)
(* token is identified with the process that drew it, and a process that   *)
(* has died stays dead (a pid is not reused).                              *)
(***************************************************************************)
EXTENDS FiniteSets

CONSTANTS
  Procs,    \* callers that compete for one lease directory
  NoDir,    \* the lease directory does not exist
  NoOwner   \* it exists and has no (readable) owner.json

ASSUME LeaseAssumption ==
  NoDir \notin Procs /\ NoOwner \notin Procs /\ NoDir # NoOwner

VARIABLES
  lease,  \* what the path holds: NoDir, NoOwner, or the owner in owner.json
  aged,   \* the directory's mtime is at least staleOwnerGraceMs old
  pc,     \* where each process is
  seen,   \* the owner each recovering process has read
  stale,  \* recoverers that read a directory which is another one by now
  robbed  \* callers inside their section whose directory such a one took

vars == <<lease, aged, pc, seen, stale, robbed>>
history == <<stale, robbed>>

Dead == {p \in Procs : pc[p] = "dead"}

TypeOK ==
  /\ lease \in Procs \cup {NoDir, NoOwner}
  /\ aged \in BOOLEAN
  /\ pc \in [Procs -> {"idle", "mkdir", "writing", "reading", "stat", "rename",
                       "waiting", "holding", "removing", "dead"}]
  /\ seen \in [Procs -> Procs \cup {NoOwner}]
  /\ stale \subseteq Procs /\ robbed \subseteq Procs

Init ==
  /\ lease = NoDir
  /\ aged = FALSE
  /\ pc = [p \in Procs |-> "idle"]
  /\ seen = [p \in Procs |-> NoOwner]
  /\ stale = {} /\ robbed = {}

\* In its critical section: acquireDirectoryLease returned to p.
Holds(p) == pc[p] \in {"holding", "removing"}

Step(p, from, to) == pc[p] = from /\ pc' = [pc EXCEPT ![p] = to]

\* History: the directory changes under those that are recovering it.
Recovering == {p \in Procs : pc[p] \in {"stat", "rename"}}
Changes == stale' = stale \cup Recovering /\ UNCHANGED robbed

\* recoverAbandonedLease returns: what it has read is gone.
Forgets(p) == seen' = [seen EXCEPT ![p] = NoOwner] /\ stale' = stale \ {p}

\* History: p takes away the directory; it is not the one p knows.
Robs(p) == robbed' = (robbed \cup {q \in Procs : Holds(q) /\ lease = q}) \ {p}

Acquire(p) ==
  /\ Step(p, "idle", "mkdir")
  /\ UNCHANGED <<lease, aged, seen, history>>

Mkdir(p) ==
  /\ lease = NoDir
  /\ Step(p, "mkdir", "writing")
  /\ lease' = NoOwner
  /\ aged' = FALSE
  /\ Changes
  /\ UNCHANGED seen

MkdirExists(p) ==
  /\ lease # NoDir
  /\ Step(p, "mkdir", "reading")
  /\ UNCHANGED <<lease, aged, seen, history>>

\* writeFile(owner.json, wx) into whatever directory the path names by now.
WriteOwner(p) ==
  /\ lease = NoOwner
  /\ Step(p, "writing", "holding")
  /\ lease' = p
  /\ aged' = FALSE
  /\ Changes
  /\ UNCHANGED seen

\* Another owner was first: EEXIST is handled like a failed mkdir.
WriteOwnerExists(p) ==
  /\ lease \in Procs
  /\ Step(p, "writing", "reading")
  /\ UNCHANGED <<lease, aged, seen, history>>

\* The new directory was taken away: ENOENT is rethrown to the caller.
WriteOwnerMissing(p) ==
  /\ lease = NoDir
  /\ Step(p, "writing", "idle")
  /\ UNCHANGED <<lease, aged, seen, history>>

ReadOwner(p) ==
  /\ Step(p, "reading", "stat")
  /\ seen' = [seen EXCEPT ![p] = IF lease \in Procs THEN lease ELSE NoOwner]
  /\ stale' = stale \ {p}
  /\ UNCHANGED <<lease, aged, robbed>>

\* Mutants: the age alone decides; only dead owners count.
AbandonedByAge(p) == lease # NoDir /\ aged
AbandonedOwnedOnly(p) == seen[p] \in Procs /\ seen[p] \in Dead

\* stat and process.kill(pid, 0): is the lease that was read abandoned?
Abandoned(p) ==
  IF seen[p] \in Procs THEN seen[p] \in Dead ELSE lease # NoDir /\ aged

JudgeAbandoned(p) ==
  /\ Abandoned(p)
  /\ Step(p, "stat", "rename")
  /\ UNCHANGED <<lease, aged, seen, history>>

JudgeLive(p) ==
  /\ ~Abandoned(p)
  /\ Step(p, "stat", "waiting")
  /\ Forgets(p)
  /\ UNCHANGED <<lease, aged, robbed>>

\* rename by path, then rm of the quarantined copy, then another mkdir.
Rename(p) ==
  /\ lease # NoDir
  /\ Step(p, "rename", "mkdir")
  /\ lease' = NoDir
  /\ aged' = FALSE
  /\ IF p \in stale THEN Robs(p) ELSE UNCHANGED robbed
  /\ Forgets(p)

RenameMissing(p) ==
  /\ lease = NoDir
  /\ Step(p, "rename", "waiting")
  /\ Forgets(p)
  /\ UNCHANGED <<lease, aged, robbed>>

Retry(p) ==
  /\ Step(p, "waiting", "mkdir")
  /\ UNCHANGED <<lease, aged, seen, history>>

\* Date.now() >= deadline: NEW_RECRUIT_CACHE_LOCKED
TimeOut(p) ==
  /\ Step(p, "waiting", "idle")
  /\ UNCHANGED <<lease, aged, seen, history>>

\* The release closure reads owner.json and compares the token ...
Release(p) ==
  /\ lease = p
  /\ Step(p, "holding", "removing")
  /\ UNCHANGED <<lease, aged, seen, history>>

ReleaseLost(p) ==
  /\ lease # p
  /\ Step(p, "holding", "idle")
  /\ robbed' = robbed \ {p}
  /\ UNCHANGED <<lease, aged, seen, stale>>

\* ... and removes whatever directory the path names by then.
Remove(p) ==
  /\ Step(p, "removing", "idle")
  /\ lease' = NoDir
  /\ aged' = FALSE
  /\ IF p \in robbed THEN Robs(p) ELSE UNCHANGED robbed
  /\ UNCHANGED <<seen, stale>>

Die(p) ==
  /\ pc[p] # "dead"
  /\ pc' = [pc EXCEPT ![p] = "dead"]
  /\ Forgets(p) /\ robbed' = robbed \ {p}
  /\ UNCHANGED <<lease, aged>>

\* The grace period passes, also while its creator or a recoverer is paused.
Age ==
  /\ lease # NoDir
  /\ ~aged
  /\ aged' = TRUE
  /\ UNCHANGED <<lease, pc, seen, history>>

Recover(p) ==
  \/ ReadOwner(p) \/ JudgeAbandoned(p) \/ JudgeLive(p)
  \/ Rename(p) \/ RenameMissing(p)

AcquireStep(p) ==
  \/ Mkdir(p) \/ MkdirExists(p)
  \/ WriteOwner(p) \/ WriteOwnerExists(p) \/ WriteOwnerMissing(p)
  \/ Recover(p) \/ Retry(p)

ReleaseStep(p) == Release(p) \/ ReleaseLost(p) \/ Remove(p)

Proc(p) == Acquire(p) \/ AcquireStep(p) \/ TimeOut(p) \/ ReleaseStep(p) \/ Die(p)

Next == Age \/ \E p \in Procs : Proc(p)

Spec == Init /\ [][Next]_vars

\* A caller that has started to acquire runs on (the loop is straight-line
\* awaits) and time passes between its polls (a 100 ms sleep per turn), so an
\* untouched directory reaches the grace period although somebody may be in
\* stat again and again; callers need neither start nor release.
FairSpec == Spec /\ SF_vars(Age) /\ \A p \in Procs : WF_vars(AcquireStep(p))

-----------------------------------------------------------------------------
\* The inductive invariant behind MutualExclusion.  A holder that was not
\* robbed is the owner on disk.  What a recoverer that is not stale has read is
\* still what the path holds, and it goes on only if that owner is dead.
RobbedInv == \A p \in robbed : Holds(p) /\ lease # p
DiskInv == lease \in Procs => Holds(lease) \/ lease \in Dead
FreshInv == \A p \in Recovering \ stale : lease \in {seen[p], NoDir}
JudgedInv == \A p \in Procs : pc[p] = "rename" /\ seen[p] \in Procs => seen[p] \in Dead

\* A caller inside its section that was not robbed is the owner on disk, so its
\* release removes its own directory and never somebody else's.
OwnerOnDisk == \A p \in Procs : Holds(p) /\ p \notin robbed => lease = p

IInv == TypeOK /\ OwnerOnDisk /\ RobbedInv /\ DiskInv /\ FreshInv /\ JudgedInv

\* Of two callers inside the section the lease guards, however their mkdir,
\* writeFile, readFile, rename and rm calls interleave and however long they
\* pause, one has lost its directory to a recoverer that took it for another,
\* or to the release of a caller that had lost its own.
MutualExclusion ==
  \A p, q \in Procs : Holds(p) /\ Holds(q) /\ p # q => p \in robbed \/ q \in robbed

\* Nobody waits for ever on a directory left by a process that died, with
\* or without an owner.json: it is renamed away, or every waiter gave up.
AbandonedDir == lease # NoDir /\ \A p \in Procs : ~Holds(p) /\ pc[p] # "writing"

Waiting(p) == pc[p] \in {"mkdir", "reading", "stat", "rename", "waiting"}

AbandonedIsReclaimed ==
  \A p \in Procs : AbandonedDir /\ Waiting(p) ~> ~AbandonedDir \/ ~Waiting(p)

\* Every step of the protocol is one of the abstract lease, or takes the
\* directory of a holder, which counts as outside from then on.
Abstract == INSTANCE AbstractLease WITH
  NoProc <- NoOwner,
  holder <- IF lease \in Procs THEN lease ELSE NoOwner,
  inside <- {p \in Procs : Holds(p)} \ robbed

Robbery == lease \in robbed' \ robbed /\ lease' = NoDir

ImplementsLease == Abstract!Init /\ [][Abstract!Next \/ Robbery]_(Abstract!leaseVars)

=============================================================================
