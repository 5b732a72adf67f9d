------------------------------ MODULE TaskPool ------------------------------
(***************************************************************************)
(* One batch of runLocalEngineTaskPool                                     *)
(* (local/tessera/local-engine-task-pool.ts): loops, one per process slot, *)
(* take the tasks in order and have a child process run each.  A child     *)
(* that exits is replaced and its task tried again; any other failure, or  *)
(* an abort, fails the batch and terminates the children.                  *)
(***************************************************************************)
EXTENDS Naturals, FiniteSets

CONSTANTS
  Slots,         \* the process slots
  Tasks,         \* the number of tasks
  MaxAttempts,   \* maxTaskAttempts
  MayAbort       \* TRUE: the caller's signal may abort the batch

ASSUME PoolAssumption ==
  /\ Tasks \in Nat \ {0}
  /\ MaxAttempts \in Nat \ {0}
  /\ MayAbort \in BOOLEAN
  /\ Slots # {} /\ IsFiniteSet(Slots)

\* An attempt at a task spawns one child at most, which is named after it.
Children == (1..Tasks) \X (1..MaxAttempts)
NoChild  == <<0, 0>>
Failures == {"aborted", "startup", "task", "exited"}

VARIABLES
  next,      \* tasks handed out
  pc,        \* where the loop of each slot is
  task,      \* the task each loop runs
  attempt,   \* the attempt at it
  slot,      \* slot.child
  using,     \* the child each loop listens to
  child,     \* what each child process is doing
  killed,    \* children told to terminate
  failure,   \* batchFailure
  results,   \* tasks with a result
  verdict,   \* whether a child has answered for each task, and if it was judged
  pool       \* what the caller sees

vars == <<next, pc, task, attempt, slot, using, child, killed, failure, results, verdict, pool>>
loop == <<task, attempt>>

Places == {"idle", "attempt", "prepared", "starting", "working", "answered", "checking",
           "exited", "done", "failed"}
Alive  == {"starting", "ready", "busy", "cut off"}

TypeOK ==
  /\ next \in 0..Tasks
  /\ pc \in [Slots -> Places]
  /\ task \in [Slots -> 0..Tasks]
  /\ attempt \in [Slots -> 0..MaxAttempts]
  /\ slot \in [Slots -> Children \cup {NoChild}]
  /\ using \in [Slots -> Children \cup {NoChild}]
  /\ child \in [Children -> Alive \cup {"unborn", "dead"}]
  /\ killed \subseteq Children
  /\ failure \in Failures \cup {"none"}
  /\ results \subseteq 1..Tasks
  /\ verdict \in [1..Tasks -> {"none", "answered", "judged"}]
  /\ pool \in {"open", "returning", "rejecting", "returned", "rejected"}

Init ==
  /\ next = 0
  /\ pc = [s \in Slots |-> "idle"]
  /\ task = [s \in Slots |-> 0] /\ attempt = [s \in Slots |-> 0]
  /\ slot = [s \in Slots |-> NoChild] /\ using = [s \in Slots |-> NoChild]
  /\ child = [c \in Children |-> "unborn"]
  /\ killed = {}
  /\ failure = "none"
  /\ results = {} /\ verdict = [t \in 1..Tasks |-> "none"]
  /\ pool = "open"

-----------------------------------------------------------------------------
Goto(s, from, to) == pc[s] = from /\ pc' = [pc EXCEPT ![s] = to]

InSlots == {slot[s] : s \in Slots} \ {NoChild}

\* Mutant: a failed batch leaves the other children to finish.
RecordOnly(f) == IF failure = "none" THEN failure' = f /\ UNCHANGED killed
                                     ELSE UNCHANGED <<failure, killed>>

\* failBatch: the first failure is kept and terminates every child in a slot.
FailBatch(f) == IF failure = "none" THEN failure' = f /\ killed' = killed \cup InSlots
                                    ELSE UNCHANGED <<failure, killed>>

\* What throws in a loop ends it and fails the batch.
Throw(s, from, f) == Goto(s, from, "failed") /\ FailBatch(f)

-----------------------------------------------------------------------------
(* A loop *)

\* workerLoop: take the next task, unless the batch has failed.
TakeTask(s) ==
  /\ failure = "none" /\ next < Tasks
  /\ Goto(s, "idle", "attempt")
  /\ next' = next + 1
  /\ task' = [task EXCEPT ![s] = next + 1] /\ attempt' = [attempt EXCEPT ![s] = 1]
  /\ UNCHANGED <<slot, using, child, killed, failure, results, verdict, pool>>

LoopEnds(s) ==
  /\ \/ failure = "none" /\ next = Tasks /\ Goto(s, "idle", "done")
     \/ failure # "none" /\ Goto(s, "idle", "failed")
  /\ UNCHANGED <<next, loop, slot, using, child, killed, failure, results, verdict, pool>>

\* runAttempt checks for a failure, writes the sealed task file, checks again.
Prepare(s) ==
  /\ IF failure = "none" THEN Goto(s, "attempt", "prepared") /\ UNCHANGED <<failure, killed>>
                         ELSE Throw(s, "attempt", failure)
  /\ UNCHANGED <<next, loop, slot, using, child, results, verdict, pool>>

StopPrepared(s) ==
  /\ failure # "none" /\ Throw(s, "prepared", failure)
  /\ UNCHANGED <<next, loop, slot, using, child, results, verdict, pool>>

Usable(s) == slot[s] # NoChild /\ child[slot[s]] = "ready"

\* startSlot replaces a child that has exited or lost its channel.
Spawn(s) ==
  /\ failure = "none" /\ ~Usable(s)
  /\ Goto(s, "prepared", "starting")
  /\ child' = [child EXCEPT ![<<task[s], attempt[s]>>] = "starting"]
  /\ slot' = [slot EXCEPT ![s] = <<task[s], attempt[s]>>]
  /\ using' = [using EXCEPT ![s] = <<task[s], attempt[s]>>]
  /\ UNCHANGED <<next, loop, killed, failure, results, verdict, pool>>

\* The task is sent to the child of the slot, or to the one just started.
Send(s) ==
  /\ \/ failure = "none" /\ Usable(s) /\ using' = [using EXCEPT ![s] = slot[s]]
        /\ Goto(s, "prepared", "working")
     \/ Goto(s, "starting", "working") /\ child[using[s]] = "ready" /\ UNCHANGED using
  /\ child' = [child EXCEPT ![using'[s]] = "busy"]
  /\ UNCHANGED <<next, loop, slot, killed, failure, results, verdict, pool>>

\* The channel is closed: the child is not reached and ends by itself.
SendFails(s) ==
  /\ \/ failure = "none" /\ Usable(s) /\ using' = [using EXCEPT ![s] = slot[s]]
        /\ Goto(s, "prepared", "exited")
     \/ Goto(s, "starting", "exited") /\ child[using[s]] = "ready" /\ UNCHANGED using
  /\ child' = [child EXCEPT ![using'[s]] = "cut off"]
  /\ UNCHANGED <<next, loop, slot, killed, failure, results, verdict, pool>>

\* The child could not be started at all.
StartFails(s) ==
  /\ Throw(s, "starting", "startup")
  /\ child[using[s]] = "starting" /\ child' = [child EXCEPT ![using[s]] = "dead"]
  /\ UNCHANGED <<next, loop, slot, using, results, verdict, pool>>

\* The answer is looked at, unless the batch has failed by now.
Hear(s) ==
  /\ IF failure = "none" THEN Goto(s, "answered", "checking") /\ UNCHANGED <<failure, killed>>
                         ELSE Throw(s, "answered", failure)
  /\ UNCHANGED <<next, loop, slot, using, child, results, verdict, pool>>

Judge(s) == verdict' = [verdict EXCEPT ![task[s]] = "judged"]

\* Mutant: a failed task is tried again like a lost child.
CheckRetries(s) ==
  /\ Goto(s, "checking", "exited") /\ Judge(s)
  /\ UNCHANGED <<next, loop, slot, using, child, killed, failure, results, pool>>

\* The result is an error, or not what the task asked for.
CheckFails(s) ==
  /\ Throw(s, "checking", "task") /\ Judge(s)
  /\ UNCHANGED <<next, loop, slot, using, child, results, pool>>

\* The result verifies; the batch may have failed meanwhile.
CheckSucceeds(s) ==
  /\ Goto(s, "checking", "idle") /\ Judge(s)
  /\ results' = results \cup {task[s]}
  /\ UNCHANGED <<next, loop, slot, using, child, killed, failure, pool>>

\* The file system fails while an attempt is prepared or its answer is read:
\* no error of the pool's own, and therefore taken for a lost child, which is
\* still there and keeps its slot.
Breaks(s) ==
  /\ \/ failure = "none" /\ Goto(s, "attempt", "exited")
     \/ Goto(s, "checking", "exited")
  /\ UNCHANGED <<next, loop, slot, using, child, killed, failure, results, verdict, pool>>

\* runTask: only a lost child is worth another attempt.
Retry(s) ==
  /\ failure = "none" /\ attempt[s] < MaxAttempts
  /\ Goto(s, "exited", "attempt")
  /\ attempt' = [attempt EXCEPT ![s] = @ + 1]
  /\ UNCHANGED <<next, task, slot, using, child, killed, failure, results, verdict, pool>>

\* Mutant: the task whose attempts are used up is left out.
GiveUpQuietly(s) ==
  /\ failure # "none" \/ attempt[s] = MaxAttempts
  /\ Goto(s, "exited", "idle")
  /\ UNCHANGED <<next, loop, slot, using, child, killed, failure, results, verdict, pool>>

GiveUp(s) ==
  /\ failure # "none" \/ attempt[s] = MaxAttempts
  /\ Throw(s, "exited", "exited")
  /\ UNCHANGED <<next, loop, slot, using, child, results, verdict, pool>>

-----------------------------------------------------------------------------
(* The children *)

\* Loops that listen to child c.
Listening(c) == {s \in Slots : using[s] = c /\ pc[s] \in {"starting", "working"}}

ChildReady(c) ==
  /\ child[c] = "starting" /\ child' = [child EXCEPT ![c] = "ready"]
  /\ UNCHANGED <<next, pc, loop, slot, using, killed, failure, results, verdict, pool>>

\* The child wrote a result, success or error, and says so.
ChildAnswers(c) ==
  /\ child[c] = "busy" /\ child' = [child EXCEPT ![c] = "ready"]
  /\ \E s \in Listening(c) :
       /\ Goto(s, "working", "answered")
       /\ verdict' = [verdict EXCEPT ![task[s]] = "answered"]
  /\ UNCHANGED <<next, loop, slot, using, killed, failure, results, pool>>

\* Mutant: nobody listens to a child that has not said it is ready.
ChildExitsUnheard(c) ==
  /\ child[c] \in Alive /\ child' = [child EXCEPT ![c] = "dead"]
  /\ LET lost == {s \in Listening(c) : pc[s] = "working"} IN
       /\ pc' = [s \in Slots |-> IF s \in lost THEN "exited" ELSE pc[s]]
       /\ slot' = [s \in Slots |-> IF s \in lost THEN NoChild ELSE slot[s]]
  /\ UNCHANGED <<next, loop, using, killed, failure, results, verdict, pool>>

\* The child crashes, or ends as it was told to.
ChildExits(c) ==
  /\ child[c] \in Alive /\ child' = [child EXCEPT ![c] = "dead"]
  /\ pc' = [s \in Slots |-> IF s \in Listening(c) THEN "exited" ELSE pc[s]]
  /\ slot' = [s \in Slots |-> IF s \in Listening(c) THEN NoChild ELSE slot[s]]
  /\ UNCHANGED <<next, loop, using, killed, failure, results, verdict, pool>>

-----------------------------------------------------------------------------
(* The batch *)

Abort ==
  /\ MayAbort
  /\ pool = "open" /\ failure = "none"
  /\ FailBatch("aborted")
  /\ UNCHANGED <<next, pc, loop, slot, using, child, results, verdict, pool>>

Verdict == IF failure = "none" THEN "returning" ELSE "rejecting"

\* Mutant: the children are stopped only when the batch has failed.
SettleKeeping ==
  /\ pool = "open" /\ pool' = Verdict
  /\ (\E s \in Slots : pc[s] = "failed") \/ (\A s \in Slots : pc[s] = "done")
  /\ killed' = IF failure = "none" THEN killed ELSE killed \cup InSlots
  /\ slot' = [s \in Slots |-> NoChild]
  /\ UNCHANGED <<next, pc, loop, using, child, failure, results, verdict>>

\* Promise.all settles, with the first loop that failed or with the last one
\* that is done; then the children of all slots are stopped.
Settle ==
  /\ pool = "open" /\ pool' = Verdict
  /\ (\E s \in Slots : pc[s] = "failed") \/ (\A s \in Slots : pc[s] = "done")
  /\ killed' = killed \cup InSlots
  /\ slot' = [s \in Slots |-> NoChild]
  /\ UNCHANGED <<next, pc, loop, using, child, failure, results, verdict>>

\* The caller has its answer once the children have ended or a second passed.
Close ==
  /\ \/ pool = "returning" /\ pool' = "returned"
     \/ pool = "rejecting" /\ pool' = "rejected"
  /\ UNCHANGED <<next, pc, loop, slot, using, child, killed, failure, results, verdict>>

-----------------------------------------------------------------------------
Run(s) ==
  \/ TakeTask(s) \/ LoopEnds(s) \/ Prepare(s) \/ StopPrepared(s) \/ Spawn(s) \/ Send(s)
  \/ Hear(s) \/ CheckFails(s) \/ CheckSucceeds(s) \/ Retry(s) \/ GiveUp(s)

Next ==
  \/ \E s \in Slots : Run(s) \/ Breaks(s) \/ SendFails(s) \/ StartFails(s)
  \/ \E c \in Children : ChildReady(c) \/ ChildAnswers(c) \/ ChildExits(c)
  \/ Abort \/ Settle \/ Close

Spec == Init /\ [][Next]_vars

\* A child starts, or exits, and its task returns in the end; the pool has no
\* time limit of its own.
FairSpec ==
  /\ Spec
  /\ WF_vars(Settle) /\ WF_vars(Close)
  /\ \A s \in Slots : WF_vars(Run(s))
  /\ \A c \in Children : WF_vars(ChildReady(c)) /\ WF_vars(ChildAnswers(c))

-----------------------------------------------------------------------------
(* The inductive invariant behind the properties *)

Tried     == {"attempt", "prepared", "starting", "working", "exited"}
Active    == Tried \cup {"answered", "checking"}
Listens   == {"starting", "working"}
Live      == {"starting", "ready", "busy"}

\* Each task handed out is with one loop, has a result or failed the batch,
\* and was not judged while it may be tried again.
TaskInv ==
  /\ \A s \in Slots :
       /\ pc[s] \in Active =>
            /\ task[s] \in 1..next /\ attempt[s] \in 1..MaxAttempts
            /\ verdict[task[s]] # "judged"
       /\ pc[s] = "done" => next = Tasks
       /\ pc[s] = "failed" => failure # "none"
  /\ \A s, u \in Slots : pc[s] \in Active /\ pc[u] \in Active /\ task[s] = task[u] => s = u
  /\ \A t \in 1..Tasks :
       /\ t > next => verdict[t] # "judged"
       /\ t <= next /\ failure = "none" =>
            t \in results \/ (\E s \in Slots : pc[s] \in Active /\ task[s] = t)

\* An attempt that is still to start its child has none.
FreshInv ==
  /\ \A c \in Children : c[1] > next => child[c] = "unborn"
  /\ \A s \in Slots : \A a \in 1..MaxAttempts :
       pc[s] \in Active /\ (a > attempt[s] \/ (a = attempt[s] /\ pc[s] \in {"attempt", "prepared"}))
         => child[<<task[s], a>>] = "unborn"

\* A loop listens to the child of its slot, which has been told to terminate
\* once the slot has let go of it or the batch has failed.
LoopInv(s) ==
  /\ pc[s] \in Listens =>
       /\ using[s] # NoChild
       /\ slot[s] = using[s] \/ (slot[s] = NoChild /\ using[s] \in killed)
       /\ failure # "none" => using[s] \in killed
  /\ pc[s] = "starting" => child[using[s]] \in {"starting", "ready"}
  /\ pc[s] = "working" => child[using[s]] = "busy"
  /\ pc[s] \notin Listens /\ slot[s] # NoChild
       => child[slot[s]] \in {"ready", "cut off", "dead"}
  /\ slot[s] # NoChild => child[slot[s]] # "unborn"

\* No two loops share a child.
PairInv(s, u) ==
  /\ slot[s] = slot[u] => slot[s] = NoChild
  /\ pc[s] \in Listens => slot[u] # using[s]
  /\ pc[s] \in Listens /\ pc[u] \in Listens => using[s] # using[u]

\* A child is in a slot or has been told to terminate.
LiveInv(c) == child[c] \in Live => c \in killed \/ \E s \in Slots : slot[s] = c

ChildInv ==
  /\ \A s \in Slots : LoopInv(s)
  /\ \A s, u \in Slots : s # u => PairInv(s, u)
  /\ \A c \in Children : LiveInv(c)

PoolInv ==
  /\ pool # "open" => InSlots = {} /\ (failure # "none" \/ \A s \in Slots : pc[s] = "done")
  /\ pool \in {"returning", "returned"} => failure = "none"
  /\ pool \in {"rejecting", "rejected"} => failure # "none"

IInv == TypeOK /\ TaskInv /\ FreshInv /\ ChildInv /\ PoolInv

-----------------------------------------------------------------------------
(* Properties *)

\* A batch that succeeds has a result of every task; a batch that was aborted
\* or lost a task does not succeed.
CompleteOrFailed ==
  pool \in {"returning", "returned"} => results = 1..Tasks /\ failure = "none"

\* Process crashes may be retried; task and integrity failures never are: a
\* task whose result was accepted, or found to be a failure, is with no loop that
\* may still run it.
VerdictIsFinal == \A s \in Slots : pc[s] \in Tried => verdict[task[s]] # "judged"

\* Whatever happens to a child, no more of them run than there are slots.
Bounded ==
  Cardinality({c \in Children : child[c] \in {"starting", "ready", "busy"} /\ c \notin killed})
    <= Cardinality(Slots)

\* When the caller has its answer every child has ended or has been told to,
\* except one whose closed channel lets it end by itself.
NoOrphans ==
  pool \in {"returned", "rejected"} =>
    \A c \in Children : child[c] \in {"starting", "ready", "busy"} => c \in killed

\* Once the batch has failed a child is started, or given a task, only if it
\* has been told to terminate.
FailureStops ==
  [][failure # "none" =>
       \A c \in Children : child'[c] # child[c] /\ child'[c] \in {"starting", "busy"}
         => c \in killed']_vars

\* The caller gets an answer, however many children are lost on the way.
BatchEnds == <>(pool \in {"returned", "rejected"})

=============================================================================
