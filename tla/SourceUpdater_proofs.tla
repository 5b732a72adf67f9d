------------------------ MODULE SourceUpdater_proofs ------------------------
(***************************************************************************)
(* SourceUpdater for any callers, workers, jobs and deaths, until somebody *)
(* overtakes a recovery: one worker at a time, and a queue of jobs that    *)
(* implements UpdateQueue.  The second half is about                       *)
(* the provider of one process, SnapshotProvider as an instance, for any   *)
(* calls and bundles.                                                      *)
(***************************************************************************)
EXTENDS SourceUpdater, TLAPS

LEMMA Names ==
  /\ None \notin Procs /\ None \notin Jobs
  /\ Callers \subseteq Procs /\ Workers \subseteq Procs
BY UpdaterAssumption DEF Procs

-----------------------------------------------------------------------------
(* The inductive invariant, in parts *)

\* The dead do nothing.  Who works owns the worker lock, and who is about to
\* remove that lock may: its owner is dead, or there is none.
Alone ==
  /\ \A p \in dead : pc[p] = "idle"
  /\ \A p \in Procs : pc[p] \in Working => worker = p
  /\ \A p \in Procs : pc[p] \in {"judged", "stealing"} => NoWorker

\* Where a recovery leads, and that whoever goes on to run a job has one.
OnItsWay ==
  \A p \in Procs :
    /\ pc[p] = "idle" => job[p] = None
    /\ pc[p] \in {"recover", "judged", "requeue"} =>
         then[p] # "none" /\ (then[p] = "acquire" => job[p] # None)
    /\ pc[p] \in {"select", "acquire", "stealing"} \cup Working => job[p] # None

\* The state lock is kept from one write to the next.
Locked ==
  \A p \in Procs : pc[p] \in {"judged", "requeue", "select"} => stateLock = p

\* No file names a job that was not written.  A job somebody runs is still
\* the active one, or it has ended.
Known ==
  /\ active # None => status[active] # "absent"
  /\ \A p \in Procs : job[p] # None => status[job[p]] # "absent"
  /\ \A p \in Procs : job[p] # None /\ pc[p] # "select" =>
       job[p] = active \/ status[job[p]] \in Ended

\* A new job is nobody else's until the state names it.
Selected ==
  \A p \in Procs : pc[p] = "select" =>
    /\ active = None /\ status[job[p]] = "queued"
    /\ \A q \in Procs \ {p} : job[q] # job[p]

\* The job of a worker has not ended until the worker says so.
Running ==
  \A p \in Procs :
    /\ pc[p] \in {"start", "pipeline", "consume", "installed", "activated"} =>
         status[job[p]] \notin Ended
    /\ pc[p] \in {"finalize", "failed"} => status[job[p]] \in Ended

\* A job that is about to be queued again is running.
Requeued ==
  \A p \in Procs : pc[p] \in {"judged", "requeue"} => active # None /\ status[active] = "running"

IInv ==
  /\ TypeOK /\ OnItsWay /\ Alone /\ Locked
  /\ Known /\ Selected /\ Running /\ Requeued

\* The types, and all the rest until a recovery is overtaken.
Safe == TypeOK /\ OnItsWay /\ (overtaken \/ IInv)

-----------------------------------------------------------------------------
(* Types, and one worker *)

LEMMA OvertakesType ==
  ASSUME NEW stages, Overtakes(stages)
  PROVE  overtaken' \in BOOLEAN /\ (overtaken => overtaken')
BY Zenon DEF Overtakes

LEMMA TypesStep ==
  ASSUME TypeOK, OnItsWay, [Next]_vars
  PROVE  TypeOK'
<1> USE Names, OvertakesType DEF TypeOK, OnItsWay, At, Goes, Leaves, Sets, Stages, Working, Ended
<1>1. CASE UNCHANGED vars
  BY <1>1 DEF vars
<1>2. ASSUME NEW p \in Procs, Wake(p, "enqueue") \/ Wake(p, "next") PROVE TypeOK'
  BY <1>2 DEF Wake
<1>3. ASSUME NEW p \in Procs, RecoverNothing(p) \/ RecoverEnded(p) PROVE TypeOK'
  BY <1>3 DEF RecoverNothing, RecoverEnded
<1>4. ASSUME NEW p \in Procs, RecoverJudges(p) \/ RecoverRemoves(p) PROVE TypeOK'
  BY <1>4 DEF RecoverJudges, RecoverRemoves
<1>5. ASSUME NEW p \in Procs, RecoverRequeues(p) PROVE TypeOK'
  BY <1>5 DEF RecoverRequeues
<1>6. ASSUME NEW p \in Procs, EnqueueNothing(p) \/ EnqueueSelects(p) PROVE TypeOK'
  BY <1>6 DEF EnqueueNothing, EnqueueSelects
<1>7. ASSUME NEW p \in Procs, NEW j \in Jobs, EnqueueJob(p, j) PROVE TypeOK'
  BY <1>7 DEF EnqueueJob
<1>8. ASSUME NEW p \in Procs, RunNext(p) PROVE TypeOK'
  BY <1>8 DEF RunNext
<1>9. ASSUME NEW p \in Procs, Acquire(p) \/ Judge(p) \/ Steal(p) \/ Release(p) PROVE TypeOK'
  BY <1>9 DEF Acquire, Judge, Steal, Release
<1>10. ASSUME NEW p \in Procs, Read(p) \/ Start(p) PROVE TypeOK'
  BY <1>10 DEF Read, Start
<1>11. ASSUME NEW p \in Procs, Pipeline(p) PROVE TypeOK'
  BY <1>11 DEF Pipeline
<1>12. ASSUME NEW p \in Procs, Consume(p) PROVE TypeOK'
  BY <1>12 DEF Consume
<1>13. ASSUME NEW p \in Procs, Conclude(p) \/ FailJob(p) PROVE TypeOK'
  BY <1>13 DEF Conclude, FailJob
<1>14. ASSUME NEW p \in Procs, Finalize(p) \/ FinalizeTimesOut(p) PROVE TypeOK'
  BY <1>14 DEF Finalize, FinalizeTimesOut
<1>15. ASSUME NEW p \in Procs, TimesOut(p) \/ Refused(p) \/ Die(p) PROVE TypeOK'
  BY <1>15 DEF TimesOut, Refused, Die
<1> QED
  BY <1>1, <1>2, <1>3, <1>4, <1>5, <1>6, <1>7, <1>8, <1>9, <1>10, <1>11, <1>12, <1>13, <1>14, <1>15
     DEF Next, Recovery, Enqueue, Run

LEMMA WayStep ==
  ASSUME TypeOK, OnItsWay, [Next]_vars
  PROVE  OnItsWay'
<1> USE Names DEF OnItsWay, TypeOK, At, Goes, Leaves, Sets, Stages, Working, Ended
<1>1. CASE UNCHANGED vars
  BY <1>1 DEF vars
<1>2. ASSUME NEW p \in Procs, Wake(p, "enqueue") \/ Wake(p, "next") PROVE OnItsWay'
  BY <1>2 DEF Wake
<1>3. ASSUME NEW p \in Procs, RecoverNothing(p) \/ RecoverEnded(p) PROVE OnItsWay'
  BY <1>3 DEF RecoverNothing, RecoverEnded
<1>4. ASSUME NEW p \in Procs, RecoverJudges(p) \/ RecoverRemoves(p) PROVE OnItsWay'
  BY <1>4 DEF RecoverJudges, RecoverRemoves
<1>5. ASSUME NEW p \in Procs, RecoverRequeues(p) PROVE OnItsWay'
  BY <1>5 DEF RecoverRequeues
<1>6. ASSUME NEW p \in Procs, EnqueueNothing(p) \/ EnqueueSelects(p) PROVE OnItsWay'
  BY <1>6 DEF EnqueueNothing, EnqueueSelects
<1>7. ASSUME NEW p \in Procs, NEW j \in Jobs, EnqueueJob(p, j) PROVE OnItsWay'
  BY <1>7 DEF EnqueueJob
<1>8. ASSUME NEW p \in Procs, RunNext(p) PROVE OnItsWay'
  BY <1>8 DEF RunNext
<1>9. ASSUME NEW p \in Procs, Acquire(p) \/ Judge(p) \/ Steal(p) \/ Release(p) PROVE OnItsWay'
  BY <1>9 DEF Acquire, Judge, Steal, Release
<1>10. ASSUME NEW p \in Procs, Read(p) \/ Start(p) PROVE OnItsWay'
  BY <1>10 DEF Read, Start
<1>11. ASSUME NEW p \in Procs, Pipeline(p) PROVE OnItsWay'
  BY <1>11 DEF Pipeline
<1>12. ASSUME NEW p \in Procs, Consume(p) PROVE OnItsWay'
  BY <1>12 DEF Consume
<1>13. ASSUME NEW p \in Procs, Conclude(p) \/ FailJob(p) PROVE OnItsWay'
  BY <1>13 DEF Conclude, FailJob
<1>14. ASSUME NEW p \in Procs, Finalize(p) \/ FinalizeTimesOut(p) PROVE OnItsWay'
  BY <1>14 DEF Finalize, FinalizeTimesOut
<1>15. ASSUME NEW p \in Procs, TimesOut(p) \/ Refused(p) \/ Die(p) PROVE OnItsWay'
  BY <1>15 DEF TimesOut, Refused, Die
<1> QED
  BY <1>1, <1>2, <1>3, <1>4, <1>5, <1>6, <1>7, <1>8, <1>9, <1>10, <1>11, <1>12, <1>13, <1>14, <1>15
     DEF Next, Recovery, Enqueue, Run

LEMMA AloneStep ==
  ASSUME TypeOK, OnItsWay, Alone, [Next]_vars, ~overtaken'
  PROVE  Alone'
<1> USE Names DEF Alone, OnItsWay, Overtakes, NoWorker, Stealable, Interrupted, TypeOK, At, Goes,
                  Leaves, Sets, Stages, Working, Ended
<1>1. CASE UNCHANGED vars
  BY <1>1 DEF vars
<1>2. ASSUME NEW p \in Procs, Wake(p, "enqueue") \/ Wake(p, "next") PROVE Alone'
  BY <1>2 DEF Wake
<1>3. ASSUME NEW p \in Procs, RecoverNothing(p) \/ RecoverEnded(p) PROVE Alone'
  BY <1>3 DEF RecoverNothing, RecoverEnded
<1>4. ASSUME NEW p \in Procs, RecoverJudges(p) \/ RecoverRemoves(p) PROVE Alone'
  BY <1>4 DEF RecoverJudges, RecoverRemoves
<1>5. ASSUME NEW p \in Procs, RecoverRequeues(p) PROVE Alone'
  BY <1>5 DEF RecoverRequeues
<1>6. ASSUME NEW p \in Procs, EnqueueNothing(p) \/ EnqueueSelects(p) PROVE Alone'
  BY <1>6 DEF EnqueueNothing, EnqueueSelects
<1>7. ASSUME NEW p \in Procs, NEW j \in Jobs, EnqueueJob(p, j) PROVE Alone'
  BY <1>7 DEF EnqueueJob
<1>8. ASSUME NEW p \in Procs, RunNext(p) PROVE Alone'
  BY <1>8 DEF RunNext
<1>9. ASSUME NEW p \in Procs, Acquire(p) \/ Judge(p) \/ Steal(p) \/ Release(p) PROVE Alone'
  <2>1. CASE Acquire(p)
    <3>1. worker = None /\ worker' = p /\ pc' = [pc EXCEPT ![p] = "read"] /\ UNCHANGED dead /\ p \notin dead
      BY <2>1 DEF Acquire
    <3>2. \A q \in Procs : pc[q] \notin {"judged", "stealing"}
      BY <2>1 DEF Acquire
    <3>3. \A q \in Procs : pc[q] \notin Working
      BY <3>1
    <3> QED BY <3>1, <3>2, <3>3
  <2>2. CASE Judge(p)
    BY <2>2 DEF Judge
  <2>3. CASE Steal(p)
    BY <2>3 DEF Steal
  <2>4. CASE Release(p)
    BY <2>4 DEF Release
  <2> QED BY <1>9, <2>1, <2>2, <2>3, <2>4
<1>10. ASSUME NEW p \in Procs, Read(p) \/ Start(p) PROVE Alone'
  BY <1>10 DEF Read, Start
<1>11. ASSUME NEW p \in Procs, Pipeline(p) PROVE Alone'
  BY <1>11 DEF Pipeline
<1>12. ASSUME NEW p \in Procs, Consume(p) PROVE Alone'
  BY <1>12 DEF Consume
<1>13. ASSUME NEW p \in Procs, Conclude(p) \/ FailJob(p) PROVE Alone'
  BY <1>13 DEF Conclude, FailJob
<1>14. ASSUME NEW p \in Procs, Finalize(p) \/ FinalizeTimesOut(p) PROVE Alone'
  BY <1>14 DEF Finalize, FinalizeTimesOut
<1>15. ASSUME NEW p \in Procs, TimesOut(p) \/ Refused(p) \/ Die(p) PROVE Alone'
  BY <1>15 DEF TimesOut, Refused, Die
<1> QED
  BY <1>1, <1>2, <1>3, <1>4, <1>5, <1>6, <1>7, <1>8, <1>9, <1>10, <1>11, <1>12, <1>13, <1>14, <1>15
     DEF Next, Recovery, Enqueue, Run

LEMMA LockedStep ==
  ASSUME TypeOK, Alone, Locked, [Next]_vars
  PROVE  Locked'
<1> USE Names DEF Locked, Alone, OnItsWay, StateFree, TypeOK, At, Goes, Leaves, Sets, Stages,
                  Working, Ended
<1>1. CASE UNCHANGED vars
  BY <1>1 DEF vars
<1>2. ASSUME NEW p \in Procs, Wake(p, "enqueue") \/ Wake(p, "next") PROVE Locked'
  BY <1>2 DEF Wake
<1>3. ASSUME NEW p \in Procs, RecoverNothing(p) \/ RecoverEnded(p) PROVE Locked'
  BY <1>3 DEF RecoverNothing, RecoverEnded
<1>4. ASSUME NEW p \in Procs, RecoverJudges(p) \/ RecoverRemoves(p) PROVE Locked'
  BY <1>4 DEF RecoverJudges, RecoverRemoves
<1>5. ASSUME NEW p \in Procs, RecoverRequeues(p) PROVE Locked'
  BY <1>5 DEF RecoverRequeues
<1>6. ASSUME NEW p \in Procs, EnqueueNothing(p) \/ EnqueueSelects(p) PROVE Locked'
  BY <1>6 DEF EnqueueNothing, EnqueueSelects
<1>7. ASSUME NEW p \in Procs, NEW j \in Jobs, EnqueueJob(p, j) PROVE Locked'
  BY <1>7 DEF EnqueueJob
<1>8. ASSUME NEW p \in Procs, RunNext(p) PROVE Locked'
  BY <1>8 DEF RunNext
<1>9. ASSUME NEW p \in Procs, Acquire(p) \/ Judge(p) \/ Steal(p) \/ Release(p) PROVE Locked'
  BY <1>9 DEF Acquire, Judge, Steal, Release
<1>10. ASSUME NEW p \in Procs, Read(p) \/ Start(p) PROVE Locked'
  BY <1>10 DEF Read, Start
<1>11. ASSUME NEW p \in Procs, Pipeline(p) PROVE Locked'
  BY <1>11 DEF Pipeline
<1>12. ASSUME NEW p \in Procs, Consume(p) PROVE Locked'
  BY <1>12 DEF Consume
<1>13. ASSUME NEW p \in Procs, Conclude(p) \/ FailJob(p) PROVE Locked'
  BY <1>13 DEF Conclude, FailJob
<1>14. ASSUME NEW p \in Procs, Finalize(p) \/ FinalizeTimesOut(p) PROVE Locked'
  BY <1>14 DEF Finalize, FinalizeTimesOut
<1>15. ASSUME NEW p \in Procs, TimesOut(p) \/ Refused(p) \/ Die(p) PROVE Locked'
  BY <1>15 DEF TimesOut, Refused, Die
<1> QED
  BY <1>1, <1>2, <1>3, <1>4, <1>5, <1>6, <1>7, <1>8, <1>9, <1>10, <1>11, <1>12, <1>13, <1>14, <1>15
     DEF Next, Recovery, Enqueue, Run

LEMMA KnownStep ==
  ASSUME IInv, [Next]_vars, ~overtaken'
  PROVE  Known'
<1> USE Names DEF IInv, Known, Alone, Locked, Selected, Running, Requeued, OnItsWay,
                  Interrupted, TypeOK, At, Goes, Leaves, Sets, Stages, Working, Ended
<1>1. CASE UNCHANGED vars
  BY <1>1 DEF vars
<1>2. ASSUME NEW p \in Procs, Wake(p, "enqueue") \/ Wake(p, "next") PROVE Known'
  BY <1>2 DEF Wake
<1>3. ASSUME NEW p \in Procs, RecoverNothing(p) \/ RecoverEnded(p) PROVE Known'
  BY <1>3 DEF RecoverNothing, RecoverEnded
<1>4. ASSUME NEW p \in Procs, RecoverJudges(p) \/ RecoverRemoves(p) PROVE Known'
  BY <1>4 DEF RecoverJudges, RecoverRemoves
<1>5. ASSUME NEW p \in Procs, RecoverRequeues(p) PROVE Known'
  BY <1>5 DEF RecoverRequeues
<1>6. ASSUME NEW p \in Procs, EnqueueNothing(p) \/ EnqueueSelects(p) PROVE Known'
  BY <1>6 DEF EnqueueNothing, EnqueueSelects
<1>7. ASSUME NEW p \in Procs, NEW j \in Jobs, EnqueueJob(p, j) PROVE Known'
  BY <1>7 DEF EnqueueJob
<1>8. ASSUME NEW p \in Procs, RunNext(p) PROVE Known'
  BY <1>8 DEF RunNext
<1>9. ASSUME NEW p \in Procs, Acquire(p) \/ Judge(p) \/ Steal(p) \/ Release(p) PROVE Known'
  BY <1>9 DEF Acquire, Judge, Steal, Release
<1>10. ASSUME NEW p \in Procs, Read(p) \/ Start(p) PROVE Known'
  BY <1>10 DEF Read, Start
<1>11. ASSUME NEW p \in Procs, Pipeline(p) PROVE Known'
  BY <1>11 DEF Pipeline
<1>12. ASSUME NEW p \in Procs, Consume(p) PROVE Known'
  BY <1>12 DEF Consume
<1>13. ASSUME NEW p \in Procs, Conclude(p) \/ FailJob(p) PROVE Known'
  BY <1>13 DEF Conclude, FailJob
<1>14. ASSUME NEW p \in Procs, Finalize(p) \/ FinalizeTimesOut(p) PROVE Known'
  BY <1>14 DEF Finalize, FinalizeTimesOut
<1>15. ASSUME NEW p \in Procs, TimesOut(p) \/ Refused(p) \/ Die(p) PROVE Known'
  BY <1>15 DEF TimesOut, Refused, Die
<1> QED
  BY <1>1, <1>2, <1>3, <1>4, <1>5, <1>6, <1>7, <1>8, <1>9, <1>10, <1>11, <1>12, <1>13, <1>14, <1>15
     DEF Next, Recovery, Enqueue, Run

LEMMA SelectedStep ==
  ASSUME IInv, [Next]_vars, ~overtaken'
  PROVE  Selected'
<1> USE Names DEF IInv, Known, Alone, Locked, Selected, Running, Requeued, OnItsWay, StateFree,
                  TypeOK, At, Goes, Leaves, Sets, Stages, Working, Ended
<1>1. CASE UNCHANGED vars
  BY <1>1 DEF vars
<1>2. ASSUME NEW p \in Procs, Wake(p, "enqueue") \/ Wake(p, "next") PROVE Selected'
  BY <1>2 DEF Wake
<1>3. ASSUME NEW p \in Procs, RecoverNothing(p) \/ RecoverEnded(p) PROVE Selected'
  BY <1>3 DEF RecoverNothing, RecoverEnded
<1>4. ASSUME NEW p \in Procs, RecoverJudges(p) \/ RecoverRemoves(p) PROVE Selected'
  BY <1>4 DEF RecoverJudges, RecoverRemoves
<1>5. ASSUME NEW p \in Procs, RecoverRequeues(p) PROVE Selected'
  BY <1>5 DEF RecoverRequeues
<1>6. ASSUME NEW p \in Procs, EnqueueNothing(p) \/ EnqueueSelects(p) PROVE Selected'
  BY <1>6 DEF EnqueueNothing, EnqueueSelects
<1>7. ASSUME NEW p \in Procs, NEW j \in Jobs, EnqueueJob(p, j) PROVE Selected'
  BY <1>7 DEF EnqueueJob
<1>8. ASSUME NEW p \in Procs, RunNext(p) PROVE Selected'
  BY <1>8 DEF RunNext
<1>9. ASSUME NEW p \in Procs, Acquire(p) \/ Judge(p) \/ Steal(p) \/ Release(p) PROVE Selected'
  BY <1>9 DEF Acquire, Judge, Steal, Release
<1>10. ASSUME NEW p \in Procs, Read(p) \/ Start(p) PROVE Selected'
  BY <1>10 DEF Read, Start
<1>11. ASSUME NEW p \in Procs, Pipeline(p) PROVE Selected'
  BY <1>11 DEF Pipeline
<1>12. ASSUME NEW p \in Procs, Consume(p) PROVE Selected'
  BY <1>12 DEF Consume
<1>13. ASSUME NEW p \in Procs, Conclude(p) \/ FailJob(p) PROVE Selected'
  BY <1>13 DEF Conclude, FailJob
<1>14. ASSUME NEW p \in Procs, Finalize(p) \/ FinalizeTimesOut(p) PROVE Selected'
  BY <1>14 DEF Finalize, FinalizeTimesOut
<1>15. ASSUME NEW p \in Procs, TimesOut(p) \/ Refused(p) \/ Die(p) PROVE Selected'
  BY <1>15 DEF TimesOut, Refused, Die
<1> QED
  BY <1>1, <1>2, <1>3, <1>4, <1>5, <1>6, <1>7, <1>8, <1>9, <1>10, <1>11, <1>12, <1>13, <1>14, <1>15
     DEF Next, Recovery, Enqueue, Run

LEMMA RunningStep ==
  ASSUME IInv, [Next]_vars, ~overtaken'
  PROVE  Running'
<1> USE Names DEF IInv, Known, Alone, Locked, Selected, Running, Requeued, OnItsWay, Overtakes,
                  TypeOK, At, Goes, Leaves, Sets, Stages, Working, Ended
<1>1. CASE UNCHANGED vars
  BY <1>1 DEF vars
<1>2. ASSUME NEW p \in Procs, Wake(p, "enqueue") \/ Wake(p, "next") PROVE Running'
  BY <1>2 DEF Wake
<1>3. ASSUME NEW p \in Procs, RecoverNothing(p) \/ RecoverEnded(p) PROVE Running'
  BY <1>3 DEF RecoverNothing, RecoverEnded
<1>4. ASSUME NEW p \in Procs, RecoverJudges(p) \/ RecoverRemoves(p) PROVE Running'
  BY <1>4 DEF RecoverJudges, RecoverRemoves
<1>5. ASSUME NEW p \in Procs, RecoverRequeues(p) PROVE Running'
  BY <1>5 DEF RecoverRequeues
<1>6. ASSUME NEW p \in Procs, EnqueueNothing(p) \/ EnqueueSelects(p) PROVE Running'
  BY <1>6 DEF EnqueueNothing, EnqueueSelects
<1>7. ASSUME NEW p \in Procs, NEW j \in Jobs, EnqueueJob(p, j) PROVE Running'
  BY <1>7 DEF EnqueueJob
<1>8. ASSUME NEW p \in Procs, RunNext(p) PROVE Running'
  BY <1>8 DEF RunNext
<1>9. ASSUME NEW p \in Procs, Acquire(p) \/ Judge(p) \/ Steal(p) \/ Release(p) PROVE Running'
  BY <1>9 DEF Acquire, Judge, Steal, Release
<1>10. ASSUME NEW p \in Procs, Read(p) \/ Start(p) PROVE Running'
  BY <1>10 DEF Read, Start
<1>11. ASSUME NEW p \in Procs, Pipeline(p) PROVE Running'
  BY <1>11 DEF Pipeline
<1>12. ASSUME NEW p \in Procs, Consume(p) PROVE Running'
  BY <1>12 DEF Consume
<1>13. ASSUME NEW p \in Procs, Conclude(p) \/ FailJob(p) PROVE Running'
  BY <1>13 DEF Conclude, FailJob
<1>14. ASSUME NEW p \in Procs, Finalize(p) \/ FinalizeTimesOut(p) PROVE Running'
  BY <1>14 DEF Finalize, FinalizeTimesOut
<1>15. ASSUME NEW p \in Procs, TimesOut(p) \/ Refused(p) \/ Die(p) PROVE Running'
  BY <1>15 DEF TimesOut, Refused, Die
<1> QED
  BY <1>1, <1>2, <1>3, <1>4, <1>5, <1>6, <1>7, <1>8, <1>9, <1>10, <1>11, <1>12, <1>13, <1>14, <1>15
     DEF Next, Recovery, Enqueue, Run

LEMMA RequeuedStep ==
  ASSUME IInv, [Next]_vars, ~overtaken'
  PROVE  Requeued'
<1> USE Names DEF IInv, Known, Alone, Locked, Selected, Running, Requeued, OnItsWay, Overtakes,
                  Interrupted, NoWorker, StateFree, TypeOK, At, Goes, Leaves, Sets, Stages,
                  Working, Ended
<1>1. CASE UNCHANGED vars
  BY <1>1 DEF vars
<1>2. ASSUME NEW p \in Procs, Wake(p, "enqueue") \/ Wake(p, "next") PROVE Requeued'
  BY <1>2 DEF Wake
<1>3. ASSUME NEW p \in Procs, RecoverNothing(p) \/ RecoverEnded(p) PROVE Requeued'
  BY <1>3 DEF RecoverNothing, RecoverEnded
<1>4. ASSUME NEW p \in Procs, RecoverJudges(p) \/ RecoverRemoves(p) PROVE Requeued'
  BY <1>4 DEF RecoverJudges, RecoverRemoves
<1>5. ASSUME NEW p \in Procs, RecoverRequeues(p) PROVE Requeued'
  BY <1>5 DEF RecoverRequeues
<1>6. ASSUME NEW p \in Procs, EnqueueNothing(p) \/ EnqueueSelects(p) PROVE Requeued'
  BY <1>6 DEF EnqueueNothing, EnqueueSelects
<1>7. ASSUME NEW p \in Procs, NEW j \in Jobs, EnqueueJob(p, j) PROVE Requeued'
  BY <1>7 DEF EnqueueJob
<1>8. ASSUME NEW p \in Procs, RunNext(p) PROVE Requeued'
  BY <1>8 DEF RunNext
<1>9. ASSUME NEW p \in Procs, Acquire(p) \/ Judge(p) \/ Steal(p) \/ Release(p) PROVE Requeued'
  BY <1>9 DEF Acquire, Judge, Steal, Release
<1>10. ASSUME NEW p \in Procs, Read(p) \/ Start(p) PROVE Requeued'
  BY <1>10 DEF Read, Start
<1>11. ASSUME NEW p \in Procs, Pipeline(p) PROVE Requeued'
  BY <1>11 DEF Pipeline
<1>12. ASSUME NEW p \in Procs, Consume(p) PROVE Requeued'
  BY <1>12 DEF Consume
<1>13. ASSUME NEW p \in Procs, Conclude(p) \/ FailJob(p) PROVE Requeued'
  <2>1. /\ pc[p] \in Working /\ p \notin dead /\ \A q \in Procs : pc[q] # "requeue"
        /\ UNCHANGED active /\ \E to \in {"finalize", "failed"} : pc' = [pc EXCEPT ![p] = to]
    BY <1>13 DEF Conclude, FailJob
  <2>2. worker = p
    BY <2>1
  <2>3. \A q \in Procs : pc[q] # "judged"
    BY <2>1, <2>2
  <2>4. \A q \in Procs : pc'[q] \notin {"judged", "requeue"}
    BY <2>1, <2>3
  <2> QED BY <2>4
<1>14. ASSUME NEW p \in Procs, Finalize(p) \/ FinalizeTimesOut(p) PROVE Requeued'
  BY <1>14 DEF Finalize, FinalizeTimesOut
<1>15. ASSUME NEW p \in Procs, TimesOut(p) \/ Refused(p) \/ Die(p) PROVE Requeued'
  BY <1>15 DEF TimesOut, Refused, Die
<1> QED
  BY <1>1, <1>2, <1>3, <1>4, <1>5, <1>6, <1>7, <1>8, <1>9, <1>10, <1>11, <1>12, <1>13, <1>14, <1>15
     DEF Next, Recovery, Enqueue, Run

LEMMA InitInv == Init => IInv
<1>1. Init => TypeOK
  <2>1. Init => overtaken \in BOOLEAN
    BY DEF Init
  <2> QED BY <2>1, Names DEF Init, TypeOK, Stages, Working, Ended
<1>2. Init => OnItsWay /\ Alone /\ Locked /\ Known /\ Selected /\ Running /\ Requeued
  BY Names DEF Init, OnItsWay, Alone, Locked, Known, Selected, Running, Requeued,
               NoWorker, Stages, Working, Ended
<1> QED BY <1>1, <1>2 DEF IInv

LEMMA StepInv ==
  ASSUME IInv, [Next]_vars, ~overtaken'
  PROVE  IInv'
<1>1. TypeOK /\ OnItsWay /\ Alone /\ Locked
  BY DEF IInv
<1>2. TypeOK' /\ OnItsWay'
  BY <1>1, TypesStep, WayStep
<1>3. Alone'
  BY <1>1, AloneStep
<1>4. Locked'
  BY <1>1, LockedStep
<1>5. Known' /\ Selected'
  BY KnownStep, SelectedStep
<1>6. Running' /\ Requeued'
  BY RunningStep, RequeuedStep
<1> QED BY <1>2, <1>3, <1>4, <1>5, <1>6 DEF IInv

LEMMA SafeStep == Safe /\ [Next]_vars => Safe'
<1> SUFFICES ASSUME Safe, [Next]_vars PROVE Safe'
  OBVIOUS
<1>1. TypeOK' /\ OnItsWay'
  BY TypesStep, WayStep DEF Safe
<1>2. overtaken => overtaken'
  BY DEF vars, Next, Wake, Recovery, RecoverNothing, RecoverEnded, RecoverJudges, RecoverRemoves,
         RecoverRequeues, Enqueue, EnqueueNothing, EnqueueJob, EnqueueSelects, Run, RunNext,
         Acquire, Judge, Steal, Read, Start, Pipeline, Consume, Conclude, FailJob, Finalize,
         Release, TimesOut, FinalizeTimesOut, Refused, Die, Overtakes
<1>3. CASE ~overtaken'
  BY <1>1, <1>2, <1>3, StepInv DEF Safe
<1> QED BY <1>1, <1>3 DEF Safe

LEMMA SafeAlways == Spec => []Safe
<1>1. Init => Safe
  BY InitInv DEF Safe, IInv
<1> QED BY <1>1, SafeStep, PTL DEF Spec

\* Every variable keeps its type, also when a recovery is overtaken.
THEOREM TypeCorrect == Spec => []TypeOK
<1>1. Safe => TypeOK
  BY DEF Safe
<1> QED BY <1>1, SafeAlways, PTL

\* Until a recovery is overtaken, whoever dies, wakes or recovers beside another,
\* what a process has read stays true until it writes.
THEOREM Invariance == Spec => [](overtaken \/ IInv)
<1>1. Safe => (overtaken \/ IInv)
  BY DEF Safe
<1> QED BY <1>1, SafeAlways, PTL

\* For any number of processes that wake, time out and die, at most one runs a
\* job, and it owns the worker lock from its acquisition to its release, until a
\* worker starts between another's look at a dead worker's lock and its removal.
THEOREM WorkerIsAlone == Spec => []OneWorker
<1>1. overtaken \/ IInv => OneWorker
  BY DEF IInv, Alone, OneWorker, Working
<1> QED BY <1>1, Invariance, PTL

-----------------------------------------------------------------------------
(* The queue *)

\* How the phases follow the status of one job.
LEMMA PhaseStep ==
  ASSUME TypeOK, NEW j \in Jobs, NEW to \in {"queued", "running"} \cup Ended, Sets(j, to)
  PROVE  /\ Phase' = [Phase EXCEPT ![j] = IF to \in Ended THEN "ended" ELSE to]
         /\ Phase[j] = IF status[j] \in Ended THEN "ended" ELSE status[j]
BY DEF TypeOK, Phase, Sets, Ended

\* A step that leaves activeJobId and the phases as they are.
Stutters == UNCHANGED <<Phase, active>>

LEMMA QueueStep ==
  ASSUME IInv, [Next]_vars
  PROVE  [Queue!Next]_(Queue!vars)
<1> USE Names DEF IInv, TypeOK, OnItsWay, Known, At
<1>1. ASSUME UNCHANGED <<status, active>> PROVE Stutters
  BY <1>1 DEF Stutters, Phase
<1>2. ASSUME NEW p \in Procs, RecoverEnded(p) PROVE Queue!Settle(active) /\ active \in Jobs
  BY <1>2 DEF RecoverEnded, Queue!Settle, Phase
<1>3. ASSUME NEW p \in Procs, RecoverRequeues(p) PROVE Queue!Again(active) /\ active \in Jobs
  <2>1. active \in Jobs /\ status[active] = "running" /\ Sets(active, "queued") /\ UNCHANGED active
    BY <1>3 DEF RecoverRequeues, Requeued
  <2> QED BY <2>1, PhaseStep DEF Ended, Queue!Again, Queue!Moves
<1>4. ASSUME NEW p \in Procs, NEW j \in Jobs, EnqueueJob(p, j) PROVE Queue!Create(j)
  <2>1. active = None /\ status[j] = "absent" /\ Sets(j, "queued") /\ UNCHANGED active
    BY <1>4 DEF EnqueueJob
  <2> QED BY <2>1, PhaseStep DEF Ended, Queue!Create, Queue!Moves
<1>5. ASSUME NEW p \in Procs, EnqueueSelects(p) PROVE Queue!Select(job[p]) /\ job[p] \in Jobs
  BY <1>5 DEF EnqueueSelects, Selected, Queue!Select, Phase, Ended
<1>6. ASSUME NEW p \in Procs, Start(p) \/ Pipeline(p)
      PROVE  Stutters \/ (Queue!Run(job[p]) /\ job[p] \in Jobs)
  <2>1. job[p] \in Jobs /\ active = job[p] /\ status[job[p]] \in {"queued", "running"}
    BY <1>6 DEF Start, Pipeline, Running, Working, Ended
  <2>2. UNCHANGED active /\ (UNCHANGED status \/ Sets(job[p], "running"))
    BY <1>6 DEF Start, Pipeline
  <2>3. CASE UNCHANGED status
    BY <2>2, <2>3, <1>1
  <2>4. CASE Sets(job[p], "running")
    <3>1. /\ Phase' = [Phase EXCEPT ![job[p]] = "running"]
          /\ Phase[job[p]] = status[job[p]]
      BY <2>1, <2>4, PhaseStep DEF Ended
    <3>2. CASE status[job[p]] = "running"
      BY <2>2, <3>1, <3>2 DEF Stutters, Phase
    <3>3. CASE status[job[p]] = "queued"
      BY <2>1, <2>2, <3>1, <3>3 DEF Queue!Run, Queue!Moves
    <3> QED BY <2>1, <3>2, <3>3
  <2> QED BY <2>2, <2>3, <2>4
<1>7. ASSUME NEW p \in Procs, Conclude(p) \/ FailJob(p)
      PROVE  Stutters \/ (Queue!End(job[p]) /\ job[p] \in Jobs)
  <2>1. job[p] \in Jobs /\ status[job[p]] # "absent"
        /\ (active = job[p] \/ status[job[p]] \in Ended)
    BY <1>7 DEF Conclude, FailJob, Working
  <2>2. UNCHANGED active /\ \E to \in Ended : Sets(job[p], to)
    BY <1>7 DEF Conclude, FailJob, Ended
  <2>3. /\ Phase' = [Phase EXCEPT ![job[p]] = "ended"]
        /\ Phase[job[p]] = IF status[job[p]] \in Ended THEN "ended" ELSE status[job[p]]
    BY <2>1, <2>2, PhaseStep
  <2>4. CASE status[job[p]] \in Ended
    <3>1. Phase' = Phase
      BY <2>1, <2>3, <2>4 DEF Phase
    <3> QED BY <2>2, <3>1 DEF Stutters
  <2>5. CASE status[job[p]] \notin Ended
    <3>1. Phase[job[p]] \in {"queued", "running"}
      BY <2>1, <2>3, <2>5
    <3> QED BY <2>1, <2>2, <2>3, <2>5, <3>1 DEF Queue!End, Queue!Moves
  <2> QED BY <2>4, <2>5
<1>8. ASSUME NEW p \in Procs, Finalize(p)
      PROVE  Stutters \/ (Queue!Settle(job[p]) /\ job[p] \in Jobs)
  <2>1. job[p] \in Jobs /\ status[job[p]] \in Ended
    BY <1>8 DEF Finalize, Running, Working
  <2>2. UNCHANGED Phase
    BY <1>8 DEF Finalize, Phase
  <2>3. IF active = job[p] THEN active' = None ELSE UNCHANGED active
    BY <1>8 DEF Finalize
  <2>4. Phase[job[p]] = "ended"
    BY <2>1 DEF Phase
  <2> QED BY <2>2, <2>3, <2>4 DEF Stutters, Queue!Settle
<1>9. ASSUME NEW p \in Procs,
             \/ Wake(p, "enqueue") \/ Wake(p, "next")
             \/ RecoverNothing(p) \/ RecoverJudges(p) \/ RecoverRemoves(p) \/ EnqueueNothing(p)
             \/ RunNext(p) \/ Acquire(p) \/ Judge(p) \/ Steal(p) \/ Read(p) \/ Consume(p)
             \/ Release(p) \/ TimesOut(p) \/ FinalizeTimesOut(p) \/ Refused(p) \/ Die(p)
      PROVE  Stutters
  <2>1. UNCHANGED <<status, active>>
    BY <1>9 DEF Wake, RecoverNothing, RecoverJudges, RecoverRemoves, EnqueueNothing, RunNext,
                Acquire, Judge, Steal, Read, Consume, Release, TimesOut, FinalizeTimesOut,
                Refused, Die
  <2> QED BY <2>1, <1>1
<1>10. ASSUME UNCHANGED vars PROVE Stutters
  BY <1>10, <1>1 DEF vars
<1>11. ASSUME NEW p \in Procs,
              Recovery(p) \/ Enqueue(p) \/ Run(p)
       PROVE  Stutters \/ Queue!Next
  BY <1>2, <1>3, <1>4, <1>5, <1>6, <1>7, <1>8, <1>9, <1>11
     DEF Recovery, Enqueue, Run, Queue!Next
<1> QED
  BY <1>9, <1>10, <1>11 DEF Next, Stutters, Queue!vars

\* Until a recovery is overtaken, whatever the processes do to the job files and to
\* activeJobId is one job after the other, each until it has ended, and never
\* again then.
THEOREM Refinement == Spec => ImplementsQueue
<1>1. Init => Queue!Init
  BY DEF Init, Phase, Ended, Queue!Init
<1>2. (overtaken \/ IInv) /\ [Next]_vars => [Queue!Next \/ overtaken]_<<Phase, active>>
  BY QueueStep DEF Queue!vars
<1> QED BY <1>1, <1>2, Invariance, PTL DEF Spec, ImplementsQueue

-----------------------------------------------------------------------------
(* The provider of one process *)

CONSTANTS Calls, Rollers, Newest, Faults
VARIABLES published, stored, storedHold, engine, current, pending, hold, promise,
          same, stranded, beside, call

\* SnapshotProvider, whose active snapshot is not the updater's active job.
Provider == INSTANCE SnapshotProvider WITH active <- current

LEMMA ProviderNames ==
  Provider!ProviderAssumption =>
    /\ None \notin Provider!Bundles /\ None \notin Calls /\ 0 \in Provider!Bundles
    /\ Rollers \subseteq Calls
BY DEF Provider!ProviderAssumption, Provider!Bundles

Modes == {"none", "acquire", "status", "release", "rollback", "force"}

Records == [pc : Provider!Stages, mode : Modes,
            on : Calls \cup {None}, seen : Provider!Maybe, pointer : Provider!Maybe,
            held : Provider!Maybe, lease : Provider!Maybe]

\* A call that loads or activates a bundle knows which, and where the pointer was.
Loaded(r) ==
  /\ r.pc \in {"load", "status", "publish", "switch", "unhold", "restore", "retain", "archive", "engaged"} =>
       r.seen # None
  /\ r.pc \in {"publish", "switch", "unhold", "restore", "retain"} =>
       r.pointer # None

\* Every variable keeps its type, and no bundle is lost on the way.
TypeInv == Provider!TypeOK /\ \A c \in Calls : Loaded(call[c])

\* The inductive invariant behind OneSnapshot: an activation that ran beside no
\* other is the promised one, the only one, and began when no lease was out.
OneActivation ==
  \A c \in Provider!Activating \ beside :
    promise = c /\ Provider!Activating = {c} /\ Provider!Leased = {} /\ pending # None

LEMMA CallTyped ==
  ASSUME TypeInv
  PROVE  /\ call \in [Calls -> Records]
         /\ \A c \in Calls : call[c] \in Records /\ Loaded(call[c])
BY DEF TypeInv, Provider!TypeOK, Records, Modes

-----------------------------------------------------------------------------
(* The record of a call, when one of its fields is set *)

LEMMA SetPc ==
  ASSUME NEW r \in Records, NEW x \in Provider!Stages
  PROVE  LET s == [r EXCEPT !.pc = x] IN
         /\ s \in Records /\ s.pc = x
         /\ s.mode = r.mode /\ s.on = r.on /\ s.seen = r.seen
         /\ s.pointer = r.pointer /\ s.held = r.held /\ s.lease = r.lease
BY DEF Records

LEMMA SetMode ==
  ASSUME NEW r \in Records, NEW x \in Modes
  PROVE  LET s == [r EXCEPT !.mode = x] IN
         /\ s \in Records /\ s.mode = x
         /\ s.pc = r.pc /\ s.on = r.on /\ s.seen = r.seen
         /\ s.pointer = r.pointer /\ s.held = r.held /\ s.lease = r.lease
BY DEF Records

LEMMA SetOn ==
  ASSUME NEW r \in Records, NEW x \in Calls \cup {None}
  PROVE  LET s == [r EXCEPT !.on = x] IN
         /\ s \in Records /\ s.on = x
         /\ s.pc = r.pc /\ s.mode = r.mode /\ s.seen = r.seen
         /\ s.pointer = r.pointer /\ s.held = r.held /\ s.lease = r.lease
BY DEF Records

LEMMA SetSeen ==
  ASSUME NEW r \in Records, NEW x \in Provider!Maybe
  PROVE  LET s == [r EXCEPT !.seen = x] IN
         /\ s \in Records /\ s.seen = x
         /\ s.pc = r.pc /\ s.mode = r.mode /\ s.on = r.on
         /\ s.pointer = r.pointer /\ s.held = r.held /\ s.lease = r.lease
BY DEF Records

LEMMA SetPointer ==
  ASSUME NEW r \in Records, NEW x \in Provider!Maybe
  PROVE  LET s == [r EXCEPT !.pointer = x] IN
         /\ s \in Records /\ s.pointer = x
         /\ s.pc = r.pc /\ s.mode = r.mode /\ s.on = r.on
         /\ s.seen = r.seen /\ s.held = r.held /\ s.lease = r.lease
BY DEF Records

LEMMA SetHeld ==
  ASSUME NEW r \in Records, NEW x \in Provider!Maybe
  PROVE  LET s == [r EXCEPT !.held = x] IN
         /\ s \in Records /\ s.held = x
         /\ s.pc = r.pc /\ s.mode = r.mode /\ s.on = r.on
         /\ s.seen = r.seen /\ s.pointer = r.pointer /\ s.lease = r.lease
BY DEF Records

LEMMA IdleTyped ==
  ASSUME Provider!ProviderAssumption
  PROVE  Provider!Idle \in Records /\ Loaded(Provider!Idle) /\ Provider!Idle.lease = None /\ Provider!Idle.pc = "idle"
BY ProviderNames DEF Provider!Idle, Records, Modes, Loaded, Provider!Stages, Provider!Maybe

\* A call that need not wait is done, or takes its lease if it is an acquisition.
LEMMA ThroughTyped ==
  ASSUME Provider!ProviderAssumption, current' \in Provider!Bundles, NEW r \in Records
  PROVE  /\ Provider!Through(r) \in Records /\ Loaded(Provider!Through(r))
         /\ Provider!Through(r).pc \in {"idle", "persist"}
         /\ r.mode # "acquire" => Provider!Through(r).lease = None
BY ProviderNames DEF Provider!Through, Provider!Idle, Records, Modes, Loaded, Provider!Stages,
                     Provider!Maybe

LEMMA AwaitTyped ==
  ASSUME Provider!ProviderAssumption, promise \in Calls \cup {None}, NEW r \in Records
  PROVE  /\ Provider!Await(r) \in Records /\ Loaded(Provider!Await(r))
         /\ Provider!Await(r).pc = "await" /\ Provider!Await(r).lease = r.lease
<1>1. "await" \in Provider!Stages /\ None \in Provider!Maybe
  BY DEF Provider!Stages, Provider!Maybe
<1> DEFINE awaits == [r EXCEPT !.pc = "await"]
           another == [awaits EXCEPT !.on = promise]
           record == [another EXCEPT !.seen = None]
<1>2. awaits \in Records /\ awaits.pc = "await" /\ awaits.lease = r.lease
  BY <1>1, SetPc
<1> HIDE DEF awaits
<1>3. another \in Records /\ another.pc = "await" /\ another.lease = r.lease
  BY <1>2, SetOn
<1> HIDE DEF another
<1>4. record \in Records /\ record.pc = "await" /\ record.lease = r.lease
  BY <1>1, <1>3, SetSeen
<1> HIDE DEF record
<1>5. Provider!Await(r) = record
  BY DEF Provider!Await, awaits, another, record
<1> QED BY <1>4, <1>5 DEF Loaded

Sees(r, to, b) == [r EXCEPT !.pc = to, !.seen = b]

LEMMA SeesTyped ==
  ASSUME NEW r \in Records, NEW to \in Provider!Stages, NEW b \in Provider!Maybe
  PROVE  LET s == Sees(r, to, b) IN
         /\ s \in Records /\ s.pc = to /\ s.seen = b
         /\ s.pointer = r.pointer /\ s.lease = r.lease
<1> DEFINE goes == [r EXCEPT !.pc = to]
           record == [goes EXCEPT !.seen = b]
<1>1. goes \in Records /\ goes.pc = to /\ goes.pointer = r.pointer /\ goes.lease = r.lease
  BY SetPc
<1> HIDE DEF goes
<1>2. record \in Records /\ record.pc = to /\ record.seen = b
      /\ record.pointer = r.pointer /\ record.lease = r.lease
  BY <1>1, SetSeen
<1> HIDE DEF record
<1>3. Sees(r, to, b) = record
  BY DEF Sees, goes, record
<1> QED BY <1>2, <1>3

Remembers(r, to, b, h) == [r EXCEPT !.pc = to, !.pointer = b, !.held = h]

LEMMA RemembersTyped ==
  ASSUME NEW r \in Records, NEW to \in Provider!Stages, NEW b \in Provider!Maybe,
         NEW h \in Provider!Maybe
  PROVE  LET s == Remembers(r, to, b, h) IN
         /\ s \in Records /\ s.pc = to /\ s.seen = r.seen
         /\ s.pointer = b /\ s.lease = r.lease
<1> DEFINE goes == [r EXCEPT !.pc = to]
           points == [goes EXCEPT !.pointer = b]
           record == [points EXCEPT !.held = h]
<1>1. goes \in Records /\ goes.pc = to /\ goes.seen = r.seen /\ goes.lease = r.lease
  BY SetPc
<1> HIDE DEF goes
<1>2. points \in Records /\ points.pc = to /\ points.seen = r.seen
      /\ points.pointer = b /\ points.lease = r.lease
  BY <1>1, SetPointer
<1> HIDE DEF points
<1>3. record \in Records /\ record.pc = to /\ record.seen = r.seen
      /\ record.pointer = b /\ record.lease = r.lease
  BY <1>2, SetHeld
<1> HIDE DEF record
<1>4. Remembers(r, to, b, h) = record
  BY DEF Remembers, goes, points, record
<1> QED BY <1>3, <1>4

Begins(to, m) == [Provider!Idle EXCEPT !.pc = to, !.mode = m]

LEMMA BeginsTyped ==
  ASSUME Provider!ProviderAssumption, NEW to \in Provider!Stages, NEW m \in Modes
  PROVE  LET s == Begins(to, m) IN
         /\ s \in Records /\ s.pc = to /\ s.seen = None /\ s.pointer = None /\ s.lease = None
<1> DEFINE goes == [Provider!Idle EXCEPT !.pc = to]
           record == [goes EXCEPT !.mode = m]
<1>1. Provider!Idle \in Records /\ Provider!Idle.lease = None /\ Provider!Idle.seen = None /\ Provider!Idle.pointer = None
  BY ProviderNames DEF Provider!Idle, Records, Modes, Provider!Stages, Provider!Maybe
<1>2. goes \in Records /\ goes.pc = to /\ goes.lease = None /\ goes.seen = None /\ goes.pointer = None
  BY <1>1, SetPc
<1> HIDE DEF goes
<1>3. record \in Records /\ record.pc = to /\ record.lease = None /\ record.seen = None
      /\ record.pointer = None
  BY <1>2, SetMode
<1> HIDE DEF record
<1>4. Begins(to, m) = record
  BY DEF Begins, goes, record
<1> QED BY <1>3, <1>4

\* A call takes no lease while an activation is promised.
Idles(r, old) ==
  /\ r \in Records /\ Loaded(r)
  /\ r.pc \in {"idle", "persist", "await", "check"}
  /\ r.pc = "check" => promise = None
  /\ r.lease \in {old.lease, None} \/ promise = None

LEMMA ReturnedIdles ==
  ASSUME Provider!ProviderAssumption, promise \in Calls \cup {None},
         current' \in Provider!Bundles, NEW r \in Records
  PROVE  Idles(Provider!Returned(r), r)
<1>1. CASE promise # None /\ r.mode = "acquire"
  BY <1>1, AwaitTyped DEF Provider!Returned, Idles
<1>2. CASE ~(promise # None /\ r.mode = "acquire")
  <2>1. Provider!Returned(r) = Provider!Through(r)
    BY <1>2 DEF Provider!Returned
  <2> QED BY <1>2, <2>1, ThroughTyped DEF Idles
<1> QED BY <1>1, <1>2

LEMMA AttemptIdles ==
  ASSUME Provider!ProviderAssumption, promise \in Calls \cup {None},
         current' \in Provider!Bundles, NEW r \in Records
  PROVE  Idles(Provider!Attempt(r), r)
<1>1. CASE promise # None
  BY <1>1, AwaitTyped DEF Provider!Attempt, Idles
<1>2. CASE promise = None /\ pending' = None
  <2>1. Provider!Attempt(r) = Provider!Through(r)
    BY <1>2 DEF Provider!Attempt
  <2> QED BY <1>2, <2>1, ThroughTyped DEF Idles
<1>3. CASE promise = None /\ pending' # None
  <2> DEFINE checking == [r EXCEPT !.pc = "check", !.seen = None]
  <2>1. Provider!Attempt(r) = checking
    BY <1>3 DEF Provider!Attempt
  <2>2. "check" \in Provider!Stages /\ None \in Provider!Maybe
    BY DEF Provider!Stages, Provider!Maybe
  <2>3. checking \in Records /\ checking.pc = "check" /\ checking.lease = r.lease
    <3>1. checking = Sees(r, "check", None)
      BY DEF Sees
    <3> QED BY <2>2, <3>1, SeesTyped
  <2> HIDE DEF checking
  <2> QED BY <1>3, <2>1, <2>3 DEF Idles, Loaded
<1> QED BY <1>1, <1>2, <1>3

\* Nothing that is loaded or activated is lost on the way.
LEMMA GoesTyped ==
  ASSUME NEW r \in Records, Loaded(r), NEW to \in Provider!Stages,
         to \in {"load", "status", "publish", "switch", "unhold", "restore", "retain", "archive", "engaged"}
           => r.seen # None,
         to \in {"publish", "switch", "unhold", "restore", "retain"} => r.pointer # None
  PROVE  /\ [r EXCEPT !.pc = to] \in Records /\ Loaded([r EXCEPT !.pc = to])
         /\ [r EXCEPT !.pc = to].pc = to
         /\ [r EXCEPT !.pc = to].lease = r.lease /\ [r EXCEPT !.pc = to].seen = r.seen
BY DEF Records, Loaded

LEMMA BecomesTyped ==
  ASSUME Provider!ProviderAssumption, TypeInv, NEW c \in Calls, NEW r \in Records, Loaded(r),
         Provider!Becomes(c, r)
  PROVE  call' \in [Calls -> Records] /\ \A d \in Calls : Loaded(call'[d])
BY CallTyped DEF Provider!Becomes

\* The part of TypeInv that is about the variables of the process and the store.
SharedOK ==
  /\ published \in Provider!Bundles /\ stored \in Provider!Bundles /\ storedHold \in Provider!Maybe
  /\ engine \in Provider!Bundles /\ current \in Provider!Bundles
  /\ pending \in Provider!Maybe /\ hold \in Provider!Maybe
  /\ promise \in Calls \cup {None}
  /\ same \subseteq Calls /\ beside \subseteq Calls /\ stranded \in BOOLEAN

LEMMA TypeParts ==
  TypeInv <=> SharedOK /\ call \in [Calls -> Records] /\ \A c \in Calls : Loaded(call[c])
BY DEF TypeInv, Provider!TypeOK, SharedOK, Records, Modes

\* One call moves: its record and the shared variables keep their types.
LEMMA Typed ==
  ASSUME Provider!ProviderAssumption, TypeInv, SharedOK', NEW c \in Calls, NEW r \in Records,
         Loaded(r), Provider!Becomes(c, r)
  PROVE  TypeInv'
<1>1. call' \in [Calls -> Records] /\ \A d \in Calls : Loaded(call'[d])
  BY BecomesTyped
<1>2. TypeInv' <=> (SharedOK /\ call \in [Calls -> Records] /\ \A d \in Calls : Loaded(call[d]))'
  BY DEF TypeInv, Provider!TypeOK, SharedOK, Records, Modes
<1> QED BY <1>1, <1>2 DEF Loaded
-----------------------------------------------------------------------------
(* Types *)

LEMMA RollsBackTyped ==
  ASSUME Provider!ProviderAssumption, NEW b \in Provider!Bundles
  PROVE  LET s == [Provider!Idle EXCEPT !.pc = "archive", !.mode = "rollback", !.seen = b] IN
         s \in Records /\ Loaded(s) /\ s.pc = "archive" /\ s.lease = None
BY ProviderNames DEF Provider!Idle, Records, Modes, Loaded, Provider!Stages, Provider!Maybe

LEMMA SeesLoaded ==
  ASSUME Provider!ProviderAssumption, NEW r \in Records, NEW to \in {"load", "status"},
         NEW b \in Provider!Bundles
  PROVE  /\ Sees(r, to, b) \in Records /\ Loaded(Sees(r, to, b))
         /\ Sees(r, to, b).pc = to /\ Sees(r, to, b).lease = r.lease
<1>1. to \in Provider!Stages /\ b \in Provider!Maybe /\ b # None
  BY ProviderNames DEF Provider!Stages, Provider!Maybe
<1> DEFINE record == Sees(r, to, b)
<1>2. record \in Records /\ record.pc = to /\ record.seen = b /\ record.lease = r.lease
  BY <1>1, SeesTyped
<1> HIDE DEF record
<1>3. Loaded(record)
  BY <1>1, <1>2 DEF Loaded
<1> QED BY <1>2, <1>3 DEF record

LEMMA RemembersLoaded ==
  ASSUME Provider!ProviderAssumption, NEW r \in Records, r.seen # None,
         NEW b \in Provider!Bundles, NEW h \in Provider!Maybe
  PROVE  LET s == Remembers(r, "publish", b, h) IN
         s \in Records /\ Loaded(s) /\ s.pc = "publish" /\ s.lease = r.lease
<1>1. "publish" \in Provider!Stages /\ b \in Provider!Maybe /\ b # None
  BY ProviderNames DEF Provider!Stages, Provider!Maybe
<1> DEFINE record == Remembers(r, "publish", b, h)
<1>2. /\ record \in Records /\ record.pc = "publish" /\ record.seen = r.seen
      /\ record.pointer = b /\ record.lease = r.lease
  BY <1>1, RemembersTyped
<1> HIDE DEF record
<1>3. Loaded(record)
  BY <1>1, <1>2 DEF Loaded
<1> QED BY <1>2, <1>3 DEF record

\* The names of the stages, for the steps that go to one of them.
LEMMA StageNames ==
  {"idle", "hold", "pointer", "load", "check", "await", "status", "publish", "switch",
   "unhold", "restore", "retain", "persist", "using", "releasing", "archive", "engaged", "lift", "lifted"}
     = Provider!Stages
BY DEF Provider!Stages

\* A call that goes on, and changes nothing else of its record.
LEMMA GoesOn ==
  ASSUME Provider!ProviderAssumption, TypeInv, SharedOK', NEW c \in Calls,
         NEW to \in Provider!Stages, Provider!Goes(c, to),
         to \in {"load", "status", "publish", "switch", "unhold", "restore", "retain", "archive", "engaged"}
           => call[c].seen # None,
         to \in {"publish", "switch", "unhold", "restore", "retain"} => call[c].pointer # None
  PROVE  TypeInv'
BY CallTyped, GoesTyped, Typed DEF Provider!Goes

\* The records of those that awaited an activation keep their type when it ends.
LEMMA EndsTyped ==
  ASSUME Provider!ProviderAssumption, TypeInv, current' \in Provider!Bundles, NEW c \in Calls,
         NEW well \in BOOLEAN, Provider!Ends(c, well)
  PROVE  /\ call' \in [Calls -> Records] /\ \A d \in Calls : Loaded(call'[d])
         /\ pending' \in {pending, None} /\ promise' = None /\ stranded' = stranded
         /\ same' \subseteq same /\ beside' \subseteq beside
<1>1. ASSUME NEW d \in Calls
      PROVE  /\ Provider!Through(call[d]) \in Records /\ Loaded(Provider!Through(call[d]))
             /\ Provider!Idle \in Records /\ Loaded(Provider!Idle)
             /\ call[d] \in Records /\ Loaded(call[d])
  BY CallTyped, ThroughTyped, IdleTyped
<1>2. ASSUME NEW d \in Calls
      PROVE  call'[d] \in {call[d], Provider!Through(call[d]), Provider!Idle}
  BY DEF Provider!Ends
<1>3. call' \in [Calls -> Records]
  BY <1>1 DEF Provider!Ends
<1> QED BY <1>1, <1>2, <1>3 DEF Provider!Ends

LEMMA TypedParts ==
  ASSUME Provider!ProviderAssumption, SharedOK', call' \in [Calls -> Records],
         \A d \in Calls : Loaded(call'[d])
  PROVE  TypeInv'
<1>1. TypeInv' <=> (SharedOK /\ call \in [Calls -> Records] /\ \A d \in Calls : Loaded(call[d]))'
  BY DEF TypeInv, Provider!TypeOK, SharedOK, Records, Modes
<1> QED BY <1>1 DEF Loaded

LEMMA Shared == ASSUME TypeInv PROVE SharedOK
BY DEF TypeInv, Provider!TypeOK, SharedOK

LEMMA CallsTyped ==
  ASSUME Provider!ProviderAssumption, TypeInv, [Provider!Next]_Provider!vars
  PROVE  TypeInv'
<1> USE ProviderNames, Shared, CallTyped, StageNames
        DEF Provider!At, SharedOK, Provider!Maybe, Provider!calls
<1>1. CASE UNCHANGED Provider!vars
  BY <1>1 DEF Provider!vars, Provider!store, TypeInv, Provider!TypeOK, Loaded
<1>2. CASE Provider!Update
  <2>1. call' = call /\ SharedOK'
    BY <1>2 DEF Provider!ProviderAssumption, Provider!Update, Provider!Bundles
  <2> QED BY <2>1, TypedParts DEF Loaded
<1>3. ASSUME NEW c \in Calls, NEW m \in {"acquire", "status", "force"}, Provider!Start(c, m)
      PROVE  TypeInv'
  <2>1. Provider!Becomes(c, Begins("hold", m)) /\ SharedOK'
    BY <1>3 DEF Provider!Start, Begins, Provider!store
  <2>2. Begins("hold", m) \in Records /\ Loaded(Begins("hold", m))
    BY BeginsTyped DEF Modes, Loaded
  <2> QED BY <2>1, <2>2, Typed
<1>4. ASSUME NEW c \in Calls, NEW b \in Provider!Bundles, Provider!Rollback(c, b) PROVE TypeInv'
  <2>1. SharedOK'
    BY <1>4 DEF Provider!Rollback, Provider!store
  <2> QED BY <1>4, <2>1, RollsBackTyped, Typed DEF Provider!Rollback
<1>5. ASSUME NEW c \in Calls,
             Provider!ReadHold(c) \/ Provider!Use(c) \/ Provider!ClearStoredHold(c)
      PROVE  TypeInv'
  <2>1. SharedOK' /\ \E to \in {"pointer", "releasing", "lifted"} : Provider!Goes(c, to)
    BY <1>5 DEF Provider!ReadHold, Provider!Use, Provider!ClearStoredHold, Provider!store
  <2> QED BY <2>1, GoesOn
<1>6. ASSUME NEW c \in Calls, Provider!ReadPointer(c) PROVE TypeInv'
  <2>1. SharedOK' /\ Provider!Persisted \in Provider!Bundles
    BY <1>6 DEF Provider!ReadPointer, Provider!store, Provider!Persisted
  <2>2. CASE Provider!Becomes(c, Provider!Returned(call[c]))
    BY <2>1, <2>2, ReturnedIdles, Typed DEF Idles
  <2>3. CASE Provider!Becomes(c, Sees(call[c], "load", Provider!Persisted))
    <3>1. Sees(call[c], "load", Provider!Persisted) \in Records /\ Loaded(Sees(call[c], "load", Provider!Persisted))
      BY <2>1, SeesLoaded
    <3> QED BY <2>1, <2>3, <3>1, Typed
  <2> QED BY <1>6, <2>2, <2>3 DEF Provider!ReadPointer, Sees
<1>7. ASSUME NEW c \in Calls, Provider!Load(c) PROVE TypeInv'
  <2>1. SharedOK'
    BY <1>7 DEF Provider!Load, Provider!Proposes, Provider!store, TypeInv, Provider!TypeOK
  <2>2. Provider!Becomes(c, Provider!Attempt(call[c])) \/ Provider!Becomes(c, Provider!Idle)
    BY <1>7 DEF Provider!Load
  <2> QED BY <2>1, <2>2, AttemptIdles, IdleTyped, Typed DEF Idles
<1>8. ASSUME NEW c \in Calls, Provider!Check(c) PROVE TypeInv'
  <2>0. Provider!Activating \subseteq Calls
    BY DEF Provider!Activating
  <2>1. SharedOK'
    BY <1>8, <2>0 DEF Provider!Check, Provider!store
  <2>2. \/ Provider!Becomes(c, Provider!Returned(call[c])) \/ Provider!Becomes(c, Provider!Idle)
        \/ pending # None /\ Provider!Becomes(c, Sees(call[c], "status", pending))
    BY <1>8 DEF Provider!Check, Sees
  <2>3. ASSUME pending # None
        PROVE  /\ Sees(call[c], "status", pending) \in Records
               /\ Loaded(Sees(call[c], "status", pending))
    <3>1. pending \in Provider!Bundles
      BY <2>3
    <3> QED BY <3>1, SeesLoaded
  <2> QED BY <2>1, <2>2, <2>3, ReturnedIdles, IdleTyped, Typed DEF Idles
<1>9. ASSUME NEW c \in Calls, Provider!ReadStatus(c) PROVE TypeInv'
  <2> DEFINE record == Remembers(call[c], "publish", stored, storedHold)
  <2>1. CASE Provider!Becomes(c, record) /\ UNCHANGED <<current, pending, same, Provider!calls>>
    <3>1. SharedOK'
      BY <1>9, <2>1 DEF Provider!ReadStatus, Provider!store
    <3>2. call[c].seen # None
      BY <1>9 DEF Provider!ReadStatus, Loaded
    <3>3. record \in Records /\ Loaded(record)
      BY <3>2, RemembersLoaded
    <3> HIDE DEF record
    <3> QED BY <2>1, <3>1, <3>3, Typed
  <2>2. CASE Provider!Fails(c)
    BY <1>9, <2>2, EndsTyped, TypedParts DEF Provider!ReadStatus, Provider!Fails, Provider!store
  <2> QED BY <1>9, <2>1, <2>2 DEF Provider!ReadStatus, Remembers
<1>10. ASSUME NEW c \in Calls, Provider!Publish(c) PROVE TypeInv'
  <2>1. call[c].seen \in Provider!Bundles /\ call[c].pointer # None
    BY <1>10 DEF Provider!Publish, Loaded, Records
  <2>2. /\ published' \in Provider!Bundles /\ stored' \in Provider!Bundles
        /\ storedHold' \in Provider!Maybe /\ UNCHANGED <<engine, hold>>
    BY <1>10, <2>1 DEF Provider!Publish, Provider!Points, Provider!store
  <2>3. CASE Provider!Fails(c)
    BY <2>2, <2>3, EndsTyped, TypedParts DEF Provider!Fails
  <2>4. CASE Provider!Proceed(c, "switch")
    <3>1. SharedOK'
      BY <2>2, <2>4 DEF Provider!Proceed
    <3> QED BY <2>1, <2>4, <3>1, GoesOn DEF Provider!Proceed
  <2> QED BY <1>10, <2>3, <2>4 DEF Provider!Publish
<1>11. ASSUME NEW c \in Calls, Provider!Switch(c) PROVE TypeInv'
  <2>1. call[c].seen \in Provider!Bundles /\ call[c].pointer # None
    BY <1>11 DEF Provider!Switch, Loaded, Records
  <2>2. engine' \in Provider!Bundles /\ UNCHANGED <<published, stored, storedHold, hold>>
    BY <1>11, <2>1 DEF Provider!Switch, Provider!store
  <2>3. CASE Provider!Fails(c)
    BY <2>2, <2>3, EndsTyped, TypedParts DEF Provider!Fails
  <2>4. ASSUME NEW to \in {"retain", "unhold", "restore"}, Provider!Proceed(c, to) PROVE TypeInv'
    <3>1. SharedOK'
      BY <2>2, <2>4 DEF Provider!Proceed
    <3> QED BY <2>1, <2>4, <3>1, GoesOn DEF Provider!Proceed
  <2> QED BY <1>11, <2>3, <2>4 DEF Provider!Switch
<1>12. ASSUME NEW c \in Calls, Provider!Unhold(c) \/ Provider!Restore(c) PROVE TypeInv'
  <2>1. call[c].pointer \in Provider!Bundles /\ call[c].seen # None
    BY <1>12 DEF Provider!Unhold, Provider!Restore, Loaded, Records
  <2>2. /\ published' \in Provider!Bundles /\ stored' \in Provider!Bundles
        /\ storedHold' \in Provider!Maybe /\ engine' \in Provider!Bundles /\ hold' = hold
    BY <1>12, <2>1 DEF Provider!Unhold, Provider!Restore, Provider!Points, Provider!store
  <2>3. CASE Provider!Fails(c)
    BY <2>2, <2>3, EndsTyped, TypedParts DEF Provider!Fails
  <2>4. CASE Provider!Proceed(c, "restore")
    <3>1. SharedOK'
      BY <2>2, <2>4 DEF Provider!Proceed
    <3> QED BY <2>1, <2>4, <3>1, GoesOn, ProviderNames DEF Provider!Proceed
  <2> QED BY <1>12, <2>3, <2>4 DEF Provider!Unhold, Provider!Restore
<1>13. ASSUME NEW c \in Calls, Provider!Retain(c) PROVE TypeInv'
  <2>1. call[c].seen \in Provider!Bundles
    BY <1>13 DEF Provider!Retain, Loaded, Records
  <2>2. current' \in Provider!Bundles /\ \E well \in BOOLEAN : Provider!Ends(c, well)
    BY <1>13, <2>1 DEF Provider!Retain, Provider!Fails
  <2> QED BY <1>13, <2>2, EndsTyped, TypedParts DEF Provider!Retain, Provider!store
<1>14. ASSUME NEW c \in Calls, Provider!Persist(c) \/ Provider!Release(c) PROVE TypeInv'
  <2>1. stranded' \in BOOLEAN /\ UNCHANGED <<published, stored, storedHold, engine, current, pending,
                                           hold, same, promise, beside>>
    BY <1>14 DEF Provider!Persist, Provider!Release, Provider!GivesBack, Provider!store
  <2>2. SharedOK'
    BY <2>1
  <2>3. \/ Provider!Becomes(c, Provider!Attempt([Provider!Idle EXCEPT !.mode = "release"]))
        \/ Provider!Becomes(c, Provider!Idle) \/ Provider!Goes(c, "using")
    BY <1>14 DEF Provider!Persist, Provider!Release, Provider!GivesBack
  <2>4. [Provider!Idle EXCEPT !.mode = "release"] \in Records
    BY IdleTyped, SetMode DEF Modes
  <2> QED BY <2>2, <2>3, <2>4, AttemptIdles, IdleTyped, Typed, GoesOn DEF Idles
<1>15. ASSUME NEW c \in Calls, Provider!PersistHold(c) PROVE TypeInv'
  <2>1. call[c].seen \in Provider!Bundles
    BY <1>15 DEF Provider!PersistHold, Loaded, Records
  <2>2. SharedOK'
    BY <1>15, <2>1 DEF Provider!PersistHold
  <2>3. CASE Provider!Goes(c, "engaged")
    BY <2>1, <2>2, <2>3, GoesOn
  <2>4. CASE Provider!Becomes(c, Provider!Idle)
    BY <2>2, <2>4, IdleTyped, Typed
  <2> QED BY <1>15, <2>3, <2>4 DEF Provider!PersistHold
<1>16. ASSUME NEW c \in Calls, Provider!Engage(c) PROVE TypeInv'
  <2>1. call[c].seen \in Provider!Bundles
    BY <1>16 DEF Provider!Engage, Loaded, Records
  <2>2. SharedOK' /\ Provider!Becomes(c, Provider!Attempt(call[c]))
    BY <1>16, <2>1 DEF Provider!Engage, Provider!Proposes, Provider!store
  <2> QED BY <2>2, AttemptIdles, Typed DEF Idles
<1>17. ASSUME NEW c \in Calls, Provider!ReadHoldToLift(c) \/ Provider!Lift(c) PROVE TypeInv'
  <2>1. SharedOK' /\ (Provider!Becomes(c, Provider!Idle) \/ Provider!Goes(c, "lift"))
    BY <1>17 DEF Provider!ReadHoldToLift, Provider!Lift, Provider!store
  <2> QED BY <2>1, IdleTyped, Typed, GoesOn
<1>18. ASSUME NEW c \in Calls, Provider!Proceeds(c) PROVE TypeInv'
  BY <1>5, <1>6, <1>7, <1>8, <1>9, <1>10, <1>11, <1>12, <1>13, <1>14, <1>15, <1>16, <1>17, <1>18
     DEF Provider!Proceeds, Provider!Activation
<1> QED BY <1>1, <1>2, <1>3, <1>4, <1>18 DEF Provider!Next

-----------------------------------------------------------------------------
(* One activation at a time, and none while a lease is out *)

\* What a call leaves alone that activates nothing, or goes on with its activation.
Aside == UNCHANGED <<promise, beside>> /\ (pending' = pending \/ pending' # None)

\* A call moves that activates nothing and takes no lease from under a promise.
LEMMA MovesAside ==
  ASSUME Provider!ProviderAssumption, TypeInv, OneActivation, NEW c \in Calls \ Provider!Activating,
         NEW r \in Records, Provider!Becomes(c, r),
         Aside,
         r.pc \notin {"status", "publish", "switch", "unhold", "restore", "retain"},
         r.lease \in {call[c].lease, None} \/ promise = None
  PROVE  OneActivation'
<1>1. \A d \in Calls : call'[d] = IF d = c THEN r ELSE call[d]
  BY CallTyped DEF Provider!Becomes
<1>2. Provider!Activating' = Provider!Activating
  BY <1>1 DEF Provider!Activating
<1>3. ASSUME NEW d \in Provider!Activating \ beside PROVE Provider!Leased' = {}
  <2>1. promise = d /\ Provider!Leased = {} /\ d \in Calls
    BY <1>3 DEF OneActivation, Provider!Activating
  <2>2. r.lease \in {call[c].lease, None}
    BY <2>1, ProviderNames
  <2>3. \A x \in Calls : call[x].lease = None
    BY <2>1 DEF Provider!Leased
  <2>4. \A x \in Calls : call'[x].lease = None
    BY <1>1, <2>2, <2>3
  <2> QED BY <2>4 DEF Provider!Leased
<1> QED BY <1>2, <1>3 DEF OneActivation, Aside

\* A call goes on with its activation.
LEMMA MovesAhead ==
  ASSUME Provider!ProviderAssumption, TypeInv, OneActivation, NEW c \in Provider!Activating,
         NEW r \in Records, Provider!Becomes(c, r),
         Aside, r.lease = call[c].lease,
         r.pc \in {"status", "publish", "switch", "unhold", "restore", "retain"}
  PROVE  OneActivation'
<1>1. c \in Calls /\ \A d \in Calls : call'[d] = IF d = c THEN r ELSE call[d]
  BY CallTyped DEF Provider!Becomes, Provider!Activating
<1>2. Provider!Activating' = Provider!Activating
  BY <1>1 DEF Provider!Activating
<1>3. Provider!Leased' = Provider!Leased
  BY <1>1 DEF Provider!Leased
<1> QED BY <1>2, <1>3 DEF OneActivation, Aside

\* When the activation of a call ends, no other is under way or all others
\* have run beside it.
LEMMA EndsAll ==
  ASSUME Provider!ProviderAssumption, TypeInv, OneActivation, current' \in Provider!Bundles,
         NEW c \in Provider!Activating, NEW well \in BOOLEAN,
         Provider!Ends(c, well)
  PROVE  OneActivation'
<1>1. c \in Calls
  BY DEF Provider!Activating
<1>2. ASSUME NEW d \in Calls
      PROVE  Provider!Through(call[d]).pc \in {"idle", "persist"} /\ Provider!Idle.pc = "idle"
  BY CallTyped, ThroughTyped, IdleTyped
<1>3. ASSUME NEW d \in Calls, call'[d].pc \notin {"idle", "persist"}
      PROVE  d # c /\ call'[d] = call[d]
  BY <1>2, <1>3 DEF Provider!Ends
<1>4. Provider!Activating' \subseteq Provider!Activating \ {c}
  BY <1>3 DEF Provider!Activating
<1>5. ASSUME NEW d \in Provider!Activating, d # c PROVE d \in beside
  BY <1>5 DEF OneActivation
<1>6. beside' = beside \ {c}
  BY DEF Provider!Ends
<1>7. Provider!Activating' \subseteq beside'
  BY <1>4, <1>5, <1>6
<1> QED BY <1>7 DEF OneActivation

LEMMA ActivationStep ==
  ASSUME Provider!ProviderAssumption, TypeInv, OneActivation,
         current' \in Provider!Bundles, [Provider!Next]_Provider!vars
  PROVE  OneActivation'
<1> USE ProviderNames, CallTyped, Shared, StageNames DEF Provider!At, Provider!calls, Aside
<1>1. CASE UNCHANGED <<call, promise, beside, pending>>
  BY <1>1 DEF OneActivation, Provider!Activating, Provider!Leased
<1>2. ASSUME NEW c \in Calls, NEW m \in {"acquire", "status", "force"}, Provider!Start(c, m)
      PROVE  OneActivation'
  <2>1. /\ Begins("hold", m) \in Records /\ Begins("hold", m).pc = "hold"
        /\ Begins("hold", m).lease = None
    BY BeginsTyped DEF Modes
  <2>2. /\ Provider!Becomes(c, Begins("hold", m)) /\ Aside
        /\ c \notin Provider!Activating
    BY <1>2 DEF Provider!Start, Begins, Provider!Activating
  <2> QED BY <2>1, <2>2, MovesAside
<1>3. ASSUME NEW c \in Calls, NEW b \in Provider!Bundles, Provider!Rollback(c, b)
      PROVE  OneActivation'
  BY <1>3, RollsBackTyped, MovesAside DEF Provider!Rollback, Provider!Activating
<1>4. ASSUME NEW c \in Calls \ Provider!Activating, NEW to \in Provider!Stages,
             Provider!Goes(c, to), Aside,
             to \notin {"status", "publish", "switch", "unhold", "restore", "retain"}
      PROVE  OneActivation'
  <2> DEFINE record == [call[c] EXCEPT !.pc = to]
  <2>1. record \in Records /\ record.pc = to /\ record.lease = call[c].lease
    BY SetPc
  <2>2. Provider!Becomes(c, record)
    BY <1>4 DEF Provider!Goes
  <2> HIDE DEF record
  <2> QED BY <1>4, <2>1, <2>2, MovesAside
<1>5. ASSUME NEW c \in Provider!Activating, NEW to \in Provider!Stages, Provider!Proceed(c, to),
             to \in {"status", "publish", "switch", "unhold", "restore", "retain"}
      PROVE  OneActivation'
  <2> DEFINE record == [call[c] EXCEPT !.pc = to]
  <2>1. c \in Calls
    BY DEF Provider!Activating
  <2>2. record \in Records /\ record.pc = to /\ record.lease = call[c].lease
    BY <2>1, SetPc
  <2>3. Provider!Becomes(c, record) /\ Aside
    BY <1>5 DEF Provider!Proceed, Provider!Goes
  <2> HIDE DEF record
  <2> QED BY <1>5, <2>2, <2>3, MovesAhead
<1>6. ASSUME NEW c \in Calls \ Provider!Activating, NEW r \in Records, Idles(r, call[c]),
             Provider!Becomes(c, r), Aside
      PROVE  OneActivation'
  BY <1>6, MovesAside DEF Idles
<1>7. ASSUME NEW c \in Calls \ Provider!Activating, Provider!Becomes(c, Provider!Idle),
             Aside
      PROVE  OneActivation'
  BY <1>7, IdleTyped, MovesAside
<1>8. ASSUME NEW c \in Calls,
             \/ Provider!ReadHold(c) \/ Provider!Use(c) \/ Provider!PersistHold(c)
             \/ Provider!ReadHoldToLift(c) \/ Provider!ClearStoredHold(c) \/ Provider!Lift(c)
      PROVE  OneActivation'
  <2>1. /\ Aside /\ c \notin Provider!Activating
        /\ \/ Provider!Becomes(c, Provider!Idle)
           \/ \E to \in {"pointer", "releasing", "engaged", "lift", "lifted"} : Provider!Goes(c, to)
    BY <1>8 DEF Provider!ReadHold, Provider!Use, Provider!PersistHold, Provider!Activating,
                Provider!ReadHoldToLift, Provider!ClearStoredHold, Provider!Lift
  <2> QED BY <2>1, <1>4, <1>7
<1>9. ASSUME NEW c \in Calls, Provider!ReadPointer(c) PROVE OneActivation'
  <2>1. /\ Aside /\ promise \in Calls \cup {None}
        /\ c \notin Provider!Activating
    BY <1>9 DEF Provider!ReadPointer, SharedOK, Provider!Activating
  <2>2. CASE Provider!Becomes(c, Provider!Returned(call[c]))
    BY <2>1, <2>2, <1>6, ReturnedIdles DEF Idles
  <2>3. CASE Provider!Becomes(c, Sees(call[c], "load", Provider!Persisted))
    <3>1. Provider!Persisted \in Provider!Bundles
      BY DEF Provider!Persisted, SharedOK, Provider!Maybe
    <3> QED BY <2>1, <2>3, <3>1, SeesLoaded, MovesAside
  <2> QED BY <1>9, <2>2, <2>3 DEF Provider!ReadPointer, Sees
<1>10. ASSUME NEW c \in Calls, Provider!Load(c) \/ Provider!Engage(c) PROVE OneActivation'
  <2>1. /\ Aside /\ promise \in Calls \cup {None}
        /\ c \notin Provider!Activating
        /\ Provider!Becomes(c, Provider!Attempt(call[c])) \/ Provider!Becomes(c, Provider!Idle)
    BY <1>10 DEF Provider!Load, Provider!Engage, Provider!Proposes, SharedOK, Loaded,
                 Provider!Activating
  <2> QED BY <2>1, <1>6, <1>7, AttemptIdles DEF Idles
<1>11. ASSUME NEW c \in Calls, Provider!Persist(c) \/ Provider!Release(c) PROVE OneActivation'
  <2> DEFINE released == [Provider!Idle EXCEPT !.mode = "release"]
  <2>1. released \in Records /\ released.lease = None
    BY IdleTyped, SetMode DEF Modes
  <2>2. /\ Aside /\ promise \in Calls \cup {None}
        /\ c \notin Provider!Activating
        /\ \/ Provider!Becomes(c, Provider!Attempt(released)) \/ Provider!Becomes(c, Provider!Idle)
           \/ Provider!Goes(c, "using")
    BY <1>11 DEF Provider!Persist, Provider!Release, Provider!GivesBack, SharedOK,
                 Provider!Activating
  <2> HIDE DEF released
  <2>3. Idles(Provider!Attempt(released), released)
    BY <2>1, <2>2, AttemptIdles
  <2>4. CASE Provider!Becomes(c, Provider!Attempt(released))
    BY <2>1, <2>2, <2>3, <2>4, MovesAside DEF Idles
  <2> QED BY <2>2, <2>4, <1>4, <1>7
<1>12. ASSUME NEW c \in Calls, Provider!Check(c) PROVE OneActivation'
  <2>1. c \notin Provider!Activating /\ promise \in Calls \cup {None}
    BY <1>12 DEF Provider!Check, Provider!Activating, SharedOK
  <2>2. CASE Aside /\ (\/ Provider!Becomes(c, Provider!Returned(call[c]))
                      \/ Provider!Becomes(c, Provider!Idle))
    BY <2>1, <2>2, <1>6, <1>7, ReturnedIdles DEF Idles
  <2>3. CASE /\ promise' = None /\ beside' = beside /\ pending = None
             /\ pending' = None /\ Provider!Becomes(c, Provider!Idle)
    <3>1. Provider!Activating \subseteq beside
      BY <2>3 DEF OneActivation
    <3>2. Provider!Activating' = Provider!Activating
      BY <2>1, <2>3, IdleTyped DEF Provider!Becomes, Provider!Activating
    <3> QED BY <2>3, <3>1, <3>2 DEF OneActivation
  <2>4. CASE /\ ~Provider!Busy /\ promise' = c /\ pending # None
             /\ beside' = IF Provider!Activating = {} THEN beside
                          ELSE beside \cup Provider!Activating \cup {c}
             /\ Provider!Becomes(c, Sees(call[c], "status", pending))
    <3>1. pending \in Provider!Bundles
      BY <2>4 DEF SharedOK, Provider!Maybe
    <3>2. /\ Sees(call[c], "status", pending).pc = "status"
          /\ Sees(call[c], "status", pending).lease = call[c].lease
      BY <3>1, SeesLoaded
    <3>3. \A d \in Calls :
            call'[d] = IF d = c THEN Sees(call[c], "status", pending) ELSE call[d]
      BY <2>4 DEF Provider!Becomes
    <3>4. Provider!Activating' = Provider!Activating \cup {c}
      BY <3>2, <3>3 DEF Provider!Activating
    <3>5. Provider!Leased' = {}
      BY <2>4, <3>2, <3>3 DEF Provider!Leased, Provider!Busy
    <3>6. pending' = pending
      BY <1>12 DEF Provider!Check
    <3> QED BY <2>4, <3>4, <3>5, <3>6 DEF OneActivation
  <2> QED BY <1>12, <2>2, <2>3, <2>4 DEF Provider!Check, Sees
<1>13. ASSUME NEW c \in Provider!Activating, NEW well \in BOOLEAN, Provider!Ends(c, well)
       PROVE  OneActivation'
  BY <1>13, EndsAll
<1>14. ASSUME NEW c \in Calls, Provider!ReadStatus(c) PROVE OneActivation'
  <2> DEFINE record == Remembers(call[c], "publish", stored, storedHold)
  <2>1. c \in Provider!Activating /\ call[c].seen # None
    BY <1>14 DEF Provider!ReadStatus, Provider!Activating, Loaded
  <2>2. CASE Provider!Becomes(c, record) /\ Aside
    <3>1. record \in Records /\ record.pc = "publish" /\ record.lease = call[c].lease
      BY <2>1, RemembersLoaded DEF SharedOK
    <3> HIDE DEF record
    <3> QED BY <2>1, <2>2, <3>1, MovesAhead
  <2>3. CASE Provider!Fails(c)
    BY <2>1, <2>3, <1>13 DEF Provider!Fails
  <2> QED BY <1>14, <2>2, <2>3 DEF Provider!ReadStatus, Remembers
<1>15. ASSUME NEW c \in Calls,
              \/ Provider!Publish(c) \/ Provider!Switch(c) \/ Provider!Unhold(c)
              \/ Provider!Restore(c) \/ Provider!Retain(c)
       PROVE  OneActivation'
  <2>1. c \in Provider!Activating
    BY <1>15 DEF Provider!Publish, Provider!Switch, Provider!Unhold, Provider!Restore,
                 Provider!Retain, Provider!Activating
  <2>2. \/ \E well \in BOOLEAN : Provider!Ends(c, well)
        \/ \E to \in {"switch", "retain", "unhold", "restore"} : Provider!Proceed(c, to)
    BY <1>15 DEF Provider!Publish, Provider!Switch, Provider!Unhold, Provider!Restore,
                 Provider!Retain, Provider!Fails
  <2> QED BY <2>1, <2>2, <1>5, <1>13
<1>16. ASSUME NEW c \in Calls, Provider!Proceeds(c) PROVE OneActivation'
  BY <1>8, <1>9, <1>10, <1>11, <1>12, <1>14, <1>15, <1>16
     DEF Provider!Proceeds, Provider!Activation
<1>17. Provider!Update \/ UNCHANGED Provider!vars => UNCHANGED <<call, promise, beside, pending>>
  BY DEF Provider!Update, Provider!vars
<1> QED BY <1>1, <1>2, <1>3, <1>16, <1>17 DEF Provider!Next

\* The data set moves only in an activation.
LEMMA EngineStep ==
  ASSUME Provider!ProviderAssumption, TypeInv, OneActivation, [Provider!Next]_Provider!vars,
         engine' # engine
  PROVE  Provider!Leased = {} \/ beside # {}
<1>1. PICK c \in Calls : Provider!Switch(c) \/ Provider!Restore(c)
  BY DEF Provider!Next, Provider!Update, Provider!Start, Provider!Rollback, Provider!Proceeds,
         Provider!Activation, Provider!ReadHold, Provider!ReadPointer, Provider!Load,
         Provider!Check, Provider!ReadStatus, Provider!Publish, Provider!Unhold,
         Provider!Retain, Provider!Persist, Provider!Use, Provider!Release,
         Provider!PersistHold, Provider!Engage, Provider!ReadHoldToLift,
         Provider!ClearStoredHold, Provider!Lift, Provider!store, Provider!vars
<1>2. c \in Provider!Activating
  BY <1>1 DEF Provider!Switch, Provider!Restore, Provider!At, Provider!Activating
<1> QED BY <1>2 DEF OneActivation

LEMMA InitTyped ==
  Provider!ProviderAssumption /\ Provider!Init => TypeInv /\ OneActivation
<1> SUFFICES ASSUME Provider!ProviderAssumption, Provider!Init PROVE TypeInv /\ OneActivation
  OBVIOUS
<1>1. \A c \in Calls : call[c] = Provider!Idle
  BY DEF Provider!Init
<1>2. call \in [Calls -> Records] /\ \A c \in Calls : Loaded(call[c])
  BY IdleTyped DEF Provider!Init
<1>3. SharedOK
  BY ProviderNames DEF Provider!Init, SharedOK, Provider!Maybe
<1>4. TypeInv
  BY <1>2, <1>3, TypeParts
<1>5. OneActivation
  BY <1>1, IdleTyped DEF OneActivation, Provider!Activating
<1> QED BY <1>4, <1>5

\* Every variable of the provider keeps its type, whatever fails and however the
\* calls of the process come between each other's awaits.
THEOREM ProviderTypes == Provider!ProviderAssumption => (Provider!Spec => []Provider!TypeOK)
<1> SUFFICES ASSUME Provider!ProviderAssumption PROVE Provider!Spec => []Provider!TypeOK
  OBVIOUS
<1>1. Provider!Init => TypeInv
  BY InitTyped
<1>2. TypeInv /\ [Provider!Next]_Provider!vars => TypeInv'
  BY CallsTyped
<1>3. TypeInv => Provider!TypeOK
  BY DEF TypeInv
<1> QED BY <1>1, <1>2, <1>3, PTL DEF Provider!Spec

\* Whatever is activated, rolled back or fails, for any number of calls and
\* bundles and however they come between each other's awaits, the data set of
\* the process is replaced under a lease only by an activation that ran beside
\* another one, or while one does.
THEOREM OneSnapshotAtATime ==
  Provider!ProviderAssumption => (Provider!Spec => Provider!OneSnapshot)
<1> SUFFICES ASSUME Provider!ProviderAssumption PROVE Provider!Spec => Provider!OneSnapshot
  OBVIOUS
<1>1. TypeInv /\ OneActivation /\ [Provider!Next]_Provider!vars => (TypeInv /\ OneActivation)'
  <2> SUFFICES ASSUME TypeInv, OneActivation, [Provider!Next]_Provider!vars
               PROVE  (TypeInv /\ OneActivation)'
    OBVIOUS
  <2>1. TypeInv'
    BY CallsTyped
  <2>2. current' \in Provider!Bundles
    BY <2>1 DEF TypeInv, Provider!TypeOK
  <2> QED BY <2>1, <2>2, ActivationStep
<1>2. TypeInv /\ OneActivation /\ [Provider!Next]_Provider!vars =>
        [engine' # engine => Provider!Leased = {} \/ beside # {}]_Provider!vars
  BY EngineStep
<1> QED BY InitTyped, <1>1, <1>2, PTL DEF Provider!Spec, Provider!OneSnapshot

=============================================================================
