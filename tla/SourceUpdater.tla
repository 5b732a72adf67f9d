---------------------------- MODULE SourceUpdater ----------------------------
(***************************************************************************)
(* The coordinator of local/data-bundles/local-source-updater.ts: every    *)
(* process that starts recovers an interrupted job, enqueues one when it   *)
(* is due and wakes a worker, so that several run side by side.  They      *)
(* share a state file that names the active job, one file per job, the     *)
(* state lock and the worker lock.                                         *)
(*                                                                         *)
(* A step is what a process does to one of these files.  The worker lock   *)
(* is judged and removed in two steps, by the next worker and by the       *)
(* recovery, so that a worker may start in between and lose its lock: the  *)
(* recovery is overtaken.  The state lock is reclaimed from a dead process *)
(* in one step, a minute after it died; until then others time out on it,  *)
(* as they may on a live one.  A process that died stays dead; a caller    *)
(* that is refused gives up and comes back later.                          *)
(***************************************************************************)
CONSTANTS
  Callers,         \* processes that enqueue when they start
  Workers,         \* processes that run the active job
  Jobs,            \* job ids that may be drawn
  None,            \* no job, no process
  Mortal           \* processes that may die

ASSUME UpdaterAssumption ==
  /\ None \notin Callers \cup Workers \cup Jobs
  /\ Mortal \subseteq Callers \cup Workers

Procs == Callers \cup Workers

VARIABLES
  active,     \* activeJobId
  status,     \* of each job
  live,       \* the job whose candidate is the active snapshot
  stateLock,  \* who holds the state lock
  worker,     \* the owner of the worker lock
  pc,         \* where each process is
  job,        \* the job it is about
  then,       \* where its recovery leads
  dead,       \* processes that have died
  overtaken   \* somebody has interfered with a recovery

vars == <<active, status, live, stateLock, worker, pc, job, then, dead, overtaken>>

Ended == {"installed", "activated", "failed"}

\* The stages between the acquisition and the release of the worker lock.
Working == {"read", "start", "pipeline", "consume", "installed", "activated", "finalize",
            "failing", "failed", "release"}

Stages == {"idle", "recover", "judged", "requeue", "enqueue", "select", "next", "acquire", "stealing"}

TypeOK ==
  /\ active \in Jobs \cup {None}
  /\ status \in [Jobs -> {"absent", "queued", "running"} \cup Ended]
  /\ live \in Jobs \cup {None}
  /\ stateLock \in Procs \cup {None}
  /\ worker \in Procs \cup {None}
  /\ pc \in [Procs -> Stages \cup Working]
  /\ job \in [Procs -> Jobs \cup {None}]
  /\ then \in [Procs -> {"none", "enqueue", "next", "acquire"}]
  /\ dead \subseteq Procs /\ overtaken \in BOOLEAN

Init ==
  /\ active = None
  /\ status = [j \in Jobs |-> "absent"] /\ live = None
  /\ stateLock = None /\ worker = None
  /\ pc = [p \in Procs |-> "idle"] /\ job = [p \in Procs |-> None]
  /\ then = [p \in Procs |-> "none"]
  /\ dead = {} /\ overtaken = FALSE

At(p, from) == p \notin dead /\ pc[p] = from
Goes(p, to) == pc' = [pc EXCEPT ![p] = to]

\* The process is done, with or without an error.
Leaves(p) ==
  /\ Goes(p, "idle")
  /\ job' = [job EXCEPT ![p] = None]
  /\ then' = [then EXCEPT ![p] = "none"]

\* Mutant: the lock of a dead process is not reclaimed.
StateUnheld == stateLock = None

\* The state lock can be had, if need be from a dead process, after a minute.
StateFree == stateLock \in dead \cup {None}

\* A step that comes between what another has found and what it does about it.
Overtakes(stages) == overtaken' = (overtaken \/ \E p \in Procs : pc[p] \in stages)

Sets(j, to) == status' = [status EXCEPT ![j] = to]

-----------------------------------------------------------------------------
(* recoverInterrupted *)

\* A process starts: to enqueue a job, or, as a worker, to run the active one.
Wake(p, to) ==
  /\ At(p, "idle")
  /\ Goes(p, "recover") /\ then' = [then EXCEPT ![p] = to]
  /\ UNCHANGED <<active, status, live, stateLock, worker, job, dead, overtaken>>

NoWorker == worker \in dead \cup {None}

RecoverNothing(p) ==
  /\ At(p, "recover") /\ StateFree
  /\ active # None => status[active] = "queued" \/ (status[active] = "running" /\ ~NoWorker)
  /\ Goes(p, then[p])
  /\ stateLock' = None
  /\ UNCHANGED <<active, status, live, worker, job, then, dead, overtaken>>

\* The active job has ended: the state is brought up to date.
RecoverEnded(p) ==
  /\ At(p, "recover") /\ StateFree
  /\ active # None /\ status[active] \in Ended
  /\ active' = None
  /\ Goes(p, then[p])
  /\ stateLock' = None
  /\ UNCHANGED <<status, live, worker, job, then, dead, overtaken>>

\* Mutant: a job that is over is taken for an interrupted one.
InterruptedAny == active # None /\ status[active] # "queued" /\ NoWorker

Interrupted == active # None /\ status[active] = "running" /\ NoWorker

\* Its worker is gone.
RecoverJudges(p) ==
  /\ At(p, "recover") /\ StateFree
  /\ Interrupted
  /\ Goes(p, "judged") /\ stateLock' = p
  /\ UNCHANGED <<active, status, live, worker, job, then, dead, overtaken>>

\* Whatever worker lock is there now is removed.
RecoverRemoves(p) ==
  /\ At(p, "judged") /\ Goes(p, "requeue")
  /\ worker' = None
  /\ UNCHANGED <<active, status, live, stateLock, job, then, dead, overtaken>>

RecoverRequeues(p) ==
  /\ At(p, "requeue") /\ Goes(p, then[p])
  /\ Sets(active, "queued")
  /\ stateLock' = None
  /\ UNCHANGED <<active, live, worker, job, then, dead, overtaken>>

\* The state lock could not be had in two seconds: another has it, or died
\* within the minute.
TimesOut(p) ==
  /\ At(p, "recover") \/ At(p, "enqueue")
  /\ stateLock # None
  /\ Leaves(p)
  /\ UNCHANGED <<active, status, live, stateLock, worker, dead, overtaken>>

-----------------------------------------------------------------------------
(* enqueue *)

EnqueueNothing(p) ==
  /\ At(p, "enqueue") /\ StateFree
  /\ stateLock' = None /\ Leaves(p)
  /\ UNCHANGED <<active, status, live, worker, dead, overtaken>>

\* The job file is written before the state that names it.
EnqueueJob(p, j) ==
  /\ At(p, "enqueue") /\ StateFree
  /\ active = None /\ status[j] = "absent"
  /\ Sets(j, "queued")
  /\ job' = [job EXCEPT ![p] = j]
  /\ Goes(p, "select") /\ stateLock' = p
  /\ UNCHANGED <<active, live, worker, then, dead, overtaken>>

EnqueueSelects(p) ==
  /\ At(p, "select")
  /\ active' = job[p]
  /\ stateLock' = None /\ Leaves(p)
  /\ UNCHANGED <<status, live, worker, dead, overtaken>>

-----------------------------------------------------------------------------
(* runNext and runJob *)

\* runJob recovers again before it acquires the worker lock.
RunNext(p) ==
  /\ At(p, "next")
  /\ IF active = None
       THEN Leaves(p)
       ELSE /\ Goes(p, "recover")
            /\ job' = [job EXCEPT ![p] = active]
            /\ then' = [then EXCEPT ![p] = "acquire"]
  /\ UNCHANGED <<active, status, live, stateLock, worker, dead, overtaken>>

Acquire(p) ==
  /\ At(p, "acquire") /\ worker = None
  /\ worker' = p /\ Goes(p, "read")
  /\ Overtakes({"judged", "stealing"})
  /\ UNCHANGED <<active, status, live, stateLock, job, then, dead>>

\* Mutant: the age of the lock is enough.
StealableByAge == worker # None

\* Its owner is dead (and the lock a minute old).
Stealable == worker \in dead

Judge(p) ==
  /\ At(p, "acquire") /\ Stealable
  /\ Goes(p, "stealing")
  /\ UNCHANGED <<active, status, live, stateLock, worker, job, then, dead, overtaken>>

Steal(p) ==
  /\ At(p, "stealing") /\ Goes(p, "acquire")
  /\ worker' = None
  /\ UNCHANGED <<active, status, live, stateLock, job, then, dead, overtaken>>

\* There is a live owner, or one that died within the minute.
Refused(p) ==
  /\ At(p, "acquire") /\ worker # None
  /\ Leaves(p)
  /\ UNCHANGED <<active, status, live, stateLock, worker, dead, overtaken>>

Read(p) ==
  /\ At(p, "read")
  /\ Goes(p, IF status[job[p]] \in Ended THEN "release" ELSE "start")
  /\ UNCHANGED <<active, status, live, stateLock, worker, job, then, dead, overtaken>>

Start(p) ==
  /\ At(p, "start")
  /\ IF active = job[p]
       THEN Sets(job[p], "running") /\ Goes(p, "pipeline")
       ELSE UNCHANGED status /\ Goes(p, "failing")
  /\ UNCHANGED <<active, live, stateLock, worker, job, then, dead, overtaken>>

\* The pipeline finds the data current, or builds a candidate, or fails; what
\* it reached is written over whatever a recovery has made of the job.
Pipeline(p) ==
  /\ At(p, "pipeline")
  /\ \/ Sets(job[p], "running") /\ \E to \in {"activated", "installed", "consume"} : Goes(p, to)
     \/ UNCHANGED status /\ Goes(p, "failing")
  /\ UNCHANGED <<active, live, stateLock, worker, job, then, dead, overtaken>>

\* The consumer installs the candidate and activates it, unless a bundle is
\* held or the job may not; the process's own provider may not follow while a
\* lease is out.  A consumer that fails puts back what was live, or fails in that.
Consume(p) ==
  /\ At(p, "consume")
  /\ \/ live' = job[p] /\ \E to \in {"activated", "installed", "failing"} : Goes(p, to)
     \/ UNCHANGED live /\ (Goes(p, "installed") \/ Goes(p, "failing"))
  /\ UNCHANGED <<active, status, stateLock, worker, job, then, dead, overtaken>>

Conclude(p) ==
  /\ At(p, "installed") \/ At(p, "activated")
  /\ Sets(job[p], pc[p])
  /\ Goes(p, "finalize")
  /\ Overtakes({"requeue"})
  /\ UNCHANGED <<active, live, stateLock, worker, job, then, dead>>

\* The catch block of runJob.
FailJob(p) ==
  /\ At(p, "failing") /\ Goes(p, "failed")
  /\ Sets(job[p], "failed")
  /\ Overtakes({"requeue"})
  /\ UNCHANGED <<active, live, stateLock, worker, job, then, dead>>

\* finalizeState, of a job that ended well or badly.
Finalize(p) ==
  /\ At(p, "finalize") \/ At(p, "failed")
  /\ StateFree
  /\ active' = IF active = job[p] THEN None ELSE active
  /\ Goes(p, "release")
  /\ stateLock' = None
  /\ UNCHANGED <<status, live, worker, job, then, dead, overtaken>>

\* The state lock could not be had: the catch block takes it for a failure of
\* the job; its own attempt to finalize is the last.
FinalizeTimesOut(p) ==
  /\ stateLock # None
  /\ \/ At(p, "finalize") /\ Goes(p, "failing")
     \/ At(p, "failed") /\ Goes(p, "release")
  /\ UNCHANGED <<active, status, live, stateLock, worker, job, then, dead, overtaken>>

\* Only the worker's own lock is removed.
Release(p) ==
  /\ At(p, "release") /\ Leaves(p)
  /\ worker' = IF worker = p THEN None ELSE worker
  /\ UNCHANGED <<active, status, live, stateLock, dead, overtaken>>

-----------------------------------------------------------------------------

Die(p) ==
  /\ p \in Mortal \ dead /\ pc[p] # "idle"
  /\ dead' = dead \cup {p}
  /\ Leaves(p)
  /\ UNCHANGED <<active, status, live, stateLock, worker, overtaken>>

Recovery(p) ==
  RecoverNothing(p) \/ RecoverEnded(p) \/ RecoverJudges(p) \/ RecoverRemoves(p) \/ RecoverRequeues(p)

Run(p) ==
  \/ RunNext(p) \/ Acquire(p) \/ Judge(p) \/ Steal(p) \/ Read(p) \/ Start(p)
  \/ Pipeline(p) \/ Consume(p) \/ Conclude(p) \/ FailJob(p) \/ Finalize(p) \/ Release(p)

Enqueue(p) == EnqueueNothing(p) \/ EnqueueSelects(p) \/ \E j \in Jobs : EnqueueJob(p, j)

Next ==
  \E p \in Procs :
    \/ p \in Callers /\ Wake(p, "enqueue")
    \/ p \in Workers /\ Wake(p, "next")
    \/ Recovery(p) \/ Enqueue(p) \/ Run(p)
    \/ TimesOut(p) \/ FinalizeTimesOut(p) \/ Refused(p) \/ Die(p)

Spec == Init /\ [][Next]_vars

\* Whoever has begun goes on, and an update of the sources ends, for each
\* command it runs has a time limit.  Workers are woken again and again, the
\* locks of dead owners grow old, and live ones keep the state lock for less
\* than two seconds, now and then.
LiveSpec ==
  /\ Spec
  /\ \A p \in Procs : WF_vars(Recovery(p) \/ Enqueue(p) \/ Run(p))
  /\ \A p \in Workers \ Mortal : SF_vars(Wake(p, "next")) /\ SF_vars(Judge(p)) /\ SF_vars(Recovery(p))

-----------------------------------------------------------------------------
(* Properties *)

\* Until a recovery is overtaken at most one process runs a job, and it owns the
\* worker lock: from its acquisition in runJob to its release, whoever dies,
\* times out or recovers beside it.
OneWorker == overtaken \/ \A p \in Procs : pc[p] \in Working => p \notin dead /\ worker = p

Phase == [j \in Jobs |-> IF status[j] \in Ended THEN "ended" ELSE status[j]]

Queue == INSTANCE UpdateQueue WITH phase <- Phase

\* One job after the other, each until it has ended, and never again then, until
\* a recovery is overtaken: what enqueue, recoverInterrupted, runJob and
\* finalizeState do to the job files and to activeJobId, in any order, is a step
\* of UpdateQueue.
ImplementsQueue == Queue!Init /\ [][Queue!Next \/ overtaken]_<<Phase, active>>

\* No job stays the active one for ever, though a worker dies in the middle of
\* it or an enqueuer while it holds the state lock, and though recoveries are
\* overtaken: enqueue refuses any other job.
JobsEnd == []<>(active = None)

\* A job that runJob says has failed, "the active snapshot was preserved", has
\* left the active snapshot alone.  This does not hold: a job that has activated
\* its candidate is failed when the state lock cannot be had to finalize it, or
\* when the previous snapshot cannot be activated again.
FailedLeavesSnapshot == \A j \in Jobs : status[j] = "failed" => live # j

=============================================================================
