--------------------------- MODULE TaskPool_proofs ---------------------------
(***************************************************************************)
(* TaskPool for any number of slots, tasks and attempts: a batch that      *)
(* succeeds is complete, no task is run after its verdict, neither a failed *)
(* nor a finished batch leaves a child to itself.                          *)
(***************************************************************************)
EXTENDS TaskPool, FiniteSetTheorems, TLAPS

LEMMA Numbers == Tasks \in Nat /\ Tasks > 0 /\ MaxAttempts \in Nat /\ MaxAttempts > 0
BY PoolAssumption

LEMMA NoChildIsNoChild == NoChild \notin Children
BY DEF NoChild, Children

LEMMA InitInv == Init => IInv
<1> SUFFICES ASSUME Init PROVE IInv
  OBVIOUS
<1> USE Numbers, NoChildIsNoChild DEF Init
<1>1. TypeOK
  BY DEF TypeOK, Places, Alive, Failures
<1>2. TaskInv /\ FreshInv
  BY DEF TaskInv, FreshInv, Active, Tried, Children
<1>3. ChildInv /\ PoolInv
  BY DEF ChildInv, LoopInv, PairInv, LiveInv, PoolInv, Listens, Live, InSlots
<1> QED BY <1>1, <1>2, <1>3 DEF IInv

-----------------------------------------------------------------------------
(* Types *)

\* A loop at work has a task and an attempt.
LEMMA AtWork ==
  ASSUME IInv, NEW s \in Slots, pc[s] \in Active
  PROVE  /\ task[s] \in 1..Tasks /\ attempt[s] \in 1..MaxAttempts /\ task[s] <= next
         /\ <<task[s], attempt[s]>> \in Children
<1>1. next \in 0..Tasks /\ task[s] \in 1..next /\ attempt[s] \in 1..MaxAttempts
  BY DEF IInv, TypeOK, TaskInv
<1>2. task[s] \in 1..Tasks /\ task[s] <= next
  BY <1>1, Numbers
<1> QED BY <1>1, <1>2 DEF Children

LEMMA FailType ==
  ASSUME TypeOK, NEW f \in Failures, FailBatch(f)
  PROVE  /\ failure' \in Failures /\ killed' \subseteq Children
         /\ killed \subseteq killed'
         /\ failure # "none" => UNCHANGED <<failure, killed>>
         /\ failure = "none" => killed' = killed \cup InSlots
BY DEF TypeOK, FailBatch, InSlots, Failures

LEMMA RunType ==
  ASSUME IInv, NEW s \in Slots, Run(s) \/ Breaks(s) \/ SendFails(s) \/ StartFails(s)
  PROVE  TypeOK'
<1>1. TypeOK /\ TaskInv
  BY DEF IInv
<1> USE <1>1, Numbers DEF Goto, loop
<1>2. CASE TakeTask(s)
  BY <1>2 DEF TypeOK, TakeTask, Places
<1>3. CASE LoopEnds(s)
  BY <1>3 DEF TypeOK, LoopEnds, Places
<1>4. CASE \/ Prepare(s) \/ StopPrepared(s) \/ StartFails(s) \/ Hear(s) \/ CheckFails(s)
           \/ GiveUp(s) \/ Breaks(s)
  <2>1. /\ \E place \in Places : pc' = [pc EXCEPT ![s] = place]
        /\ child' = child \/ child' = [child EXCEPT ![using[s]] = "dead"]
        /\ UNCHANGED <<next, task, attempt, slot, using, results, pool>>
    BY <1>4 DEF Prepare, StopPrepared, StartFails, Hear, CheckFails, GiveUp, Breaks, Throw, Places
  <2>4. verdict' = verdict \/ verdict' = [verdict EXCEPT ![task[s]] = "judged"]
    BY <1>4 DEF Prepare, StopPrepared, StartFails, Hear, CheckFails, GiveUp, Breaks, Judge
  <2>2. UNCHANGED <<failure, killed>> \/ \E f \in Failures : FailBatch(f)
    <3>1. CASE StopPrepared(s) \/ StartFails(s) \/ CheckFails(s) \/ GiveUp(s)
      <4>1. FailBatch("startup") \/ FailBatch("task") \/ FailBatch("exited")
              \/ (failure # "none" /\ FailBatch(failure))
        BY <3>1 DEF StopPrepared, StartFails, CheckFails, GiveUp, Throw
      <4> QED BY <4>1 DEF TypeOK, Failures
    <3>2. CASE Prepare(s) \/ Hear(s)
      <4>1. UNCHANGED <<failure, killed>>
        BY <3>2 DEF Prepare, Hear, Throw, FailBatch
      <4> QED BY <4>1
    <3>3. CASE Breaks(s)
      BY <3>3 DEF Breaks
    <3> QED BY <1>4, <3>1, <3>2, <3>3
  <2>3. failure' \in Failures \cup {"none"} /\ killed' \subseteq Children
    BY <2>2, FailType DEF TypeOK
  <2>5. verdict' \in [1..Tasks -> {"none", "answered", "judged"}]
    BY <2>4 DEF TypeOK
  <2> QED BY <2>1, <2>3, <2>5 DEF TypeOK
<1>5. CASE Spawn(s)
  <2>1. <<task[s], attempt[s]>> \in Children
    BY <1>5, AtWork DEF Spawn, Active, Tried
  <2> QED BY <1>5, <2>1 DEF TypeOK, Spawn, Places, Alive
<1>6. CASE Send(s) \/ SendFails(s)
  <2>1. \E place \in Places : pc' = [pc EXCEPT ![s] = place]
    BY <1>6 DEF Send, SendFails, Places
  <2>2. using' = using \/ (using' = [using EXCEPT ![s] = slot[s]])
    BY <1>6 DEF Send, SendFails
  <2>3. \E state \in Alive : child' = [child EXCEPT ![using'[s]] = state]
    BY <1>6 DEF Send, SendFails, Alive
  <2>4. UNCHANGED <<next, loop, slot, killed, failure, results, verdict, pool>>
    BY <1>6 DEF Send, SendFails
  <2>5. pc' \in [Slots -> Places]
    BY <2>1 DEF TypeOK
  <2>6. using' \in [Slots -> Children \cup {NoChild}]
    BY <2>2 DEF TypeOK
  <2>7. child' \in [Children -> Alive \cup {"unborn", "dead"}]
    BY <2>3 DEF TypeOK
  <2> QED BY <2>4, <2>5, <2>6, <2>7 DEF TypeOK
<1>7. CASE CheckSucceeds(s)
  <2>1. task[s] \in 1..Tasks
    BY <1>7, AtWork DEF CheckSucceeds, Active
  <2> QED BY <1>7, <2>1 DEF TypeOK, CheckSucceeds, Judge, Places
<1>8. CASE Retry(s)
  BY <1>8 DEF TypeOK, Retry, Places
<1> QED BY <1>2, <1>3, <1>4, <1>5, <1>6, <1>7, <1>8 DEF Run

LEMMA OtherType ==
  ASSUME IInv,
         \/ \E c \in Children : ChildReady(c) \/ ChildAnswers(c) \/ ChildExits(c)
         \/ Abort \/ Settle \/ Close
  PROVE  TypeOK'
<1>1. TypeOK /\ TaskInv
  BY DEF IInv
<1> USE <1>1 DEF loop
<1>2. ASSUME NEW c \in Children, ChildReady(c) \/ ChildExits(c) PROVE TypeOK'
  BY <1>2 DEF TypeOK, ChildReady, ChildExits, Places, Alive
<1>3. ASSUME NEW c \in Children, ChildAnswers(c) PROVE TypeOK'
  <2>1. PICK s \in Slots :
          /\ pc[s] = "working" /\ pc' = [pc EXCEPT ![s] = "answered"]
          /\ verdict' = [verdict EXCEPT ![task[s]] = "answered"]
    BY <1>3 DEF ChildAnswers, Listening, Goto
  <2> QED BY <1>3, <2>1 DEF TypeOK, ChildAnswers, Places, Alive
<1>4. CASE Abort
  <2>1. failure' \in Failures /\ killed' \subseteq Children
    BY <1>4, FailType DEF Abort, Failures
  <2> QED BY <1>4, <2>1 DEF TypeOK, Abort
<1>5. CASE Settle
  BY <1>5 DEF TypeOK, Settle, Verdict, InSlots
<1>6. CASE Close
  BY <1>6 DEF TypeOK, Close
<1> QED BY <1>2, <1>3, <1>4, <1>5, <1>6

-----------------------------------------------------------------------------
(* Tasks and their verdicts *)

LEMMA TakeTaskInv ==
  ASSUME IInv, NEW s \in Slots, TakeTask(s)
  PROVE  TaskInv'
<1>1. TypeOK /\ TaskInv /\ next \in Nat /\ next < Tasks
  BY Numbers DEF IInv, TypeOK, TakeTask
<1>2. /\ pc[s] = "idle" /\ pc' = [pc EXCEPT ![s] = "attempt"] /\ next' = next + 1
      /\ task' = [task EXCEPT ![s] = next + 1] /\ attempt' = [attempt EXCEPT ![s] = 1]
      /\ failure = "none" /\ UNCHANGED <<failure, results, verdict>>
  BY DEF TakeTask, Goto
<1>3. \A u \in Slots :
        /\ pc[u] \in Active => task[u] \in 1..next /\ task[u] # next + 1
        /\ pc[u] # "done"
  BY <1>1 DEF TaskInv
<1>4. /\ pc'[s] = "attempt" /\ task'[s] = next + 1 /\ attempt'[s] = 1
      /\ \A u \in Slots \ {s} :
           pc'[u] = pc[u] /\ task'[u] = task[u] /\ attempt'[u] = attempt[u]
  BY <1>1, <1>2 DEF TypeOK
<1>5. next + 1 \in 1..Tasks /\ verdict[next + 1] # "judged" /\ next' \in Nat /\ 1 \in 1..MaxAttempts
  BY <1>1, <1>2, Numbers DEF TaskInv
<1>6. \A u \in Slots :
        /\ pc'[u] \in Active =>
             /\ task'[u] \in 1..next' /\ attempt'[u] \in 1..MaxAttempts
             /\ verdict'[task'[u]] # "judged"
        /\ pc'[u] = "done" => next' = Tasks
        /\ pc'[u] = "failed" => failure' # "none"
  BY <1>1, <1>2, <1>3, <1>4, <1>5 DEF TaskInv, Active, Tried
<1>7. \A u, v \in Slots :
        pc'[u] \in Active /\ pc'[v] \in Active /\ task'[u] = task'[v] => u = v
  BY <1>1, <1>3, <1>4 DEF TaskInv
<1>8. ASSUME NEW t \in 1..Tasks
      PROVE  /\ t > next' => verdict'[t] # "judged"
             /\ t <= next' /\ failure' = "none" =>
                  t \in results' \/ (\E u \in Slots : pc'[u] \in Active /\ task'[u] = t)
  <2>1. CASE t = next + 1
    BY <1>2, <1>4, <1>5, <2>1 DEF Active, Tried
  <2>2. CASE t # next + 1
    <3>1. t <= next' => t <= next
      BY <1>1, <1>2, <2>2
    <3>2. \A u \in Slots : pc[u] \in Active => pc'[u] \in Active
      BY <1>2, <1>4 DEF Active, Tried
    <3>3. \A u \in Slots : pc[u] \in Active => task'[u] = task[u]
      BY <1>2, <1>4 DEF Active, Tried
    <3> QED BY <1>1, <1>2, <2>2, <3>1, <3>2, <3>3 DEF TaskInv
  <2> QED BY <2>1, <2>2
<1> QED BY <1>6, <1>7, <1>8 DEF TaskInv

\* A step of a loop that neither takes a task nor delivers a result.
LEMMA MoveTaskInv ==
  ASSUME IInv, NEW s \in Slots,
         \/ LoopEnds(s) \/ Prepare(s) \/ StopPrepared(s) \/ Spawn(s) \/ Send(s) \/ Hear(s)
         \/ Breaks(s) \/ Retry(s) \/ GiveUp(s) \/ SendFails(s) \/ StartFails(s)
  PROVE  TaskInv'
<1>1. TypeOK /\ TaskInv
  BY DEF IInv
<1>2. /\ UNCHANGED <<next, task, results, verdict>>
      /\ attempt' = attempt \/ (attempt' = [attempt EXCEPT ![s] = @ + 1] /\ attempt[s] < MaxAttempts)
      /\ failure' = failure \/ failure = "none"
  BY DEF LoopEnds, Prepare, StopPrepared, Spawn, Send, Hear, Breaks, Retry, GiveUp,
         SendFails, StartFails, Throw, FailBatch, loop
<1>3. \E place \in Places :
        /\ pc' = [pc EXCEPT ![s] = place]
        /\ place = "done" => next = Tasks /\ pc[s] = "idle"
        /\ place = "failed" => failure' # "none"
        /\ place \in Active <=> pc[s] \in Active /\ place # "failed"
  BY DEF LoopEnds, Prepare, StopPrepared, Spawn, Send, Hear, Breaks, Retry, GiveUp,
         SendFails, StartFails, Throw, FailBatch, Goto, Places, Active, Tried, Failures
<1> QED BY <1>1, <1>2, <1>3, Numbers DEF TypeOK, TaskInv, Active, Tried

LEMMA SucceedTaskInv ==
  ASSUME IInv, NEW s \in Slots, CheckSucceeds(s)
  PROVE  TaskInv'
<1>1. /\ TypeOK /\ TaskInv /\ pc[s] = "checking" /\ pc' = [pc EXCEPT ![s] = "idle"]
      /\ results' = results \cup {task[s]} /\ UNCHANGED <<next, task, attempt, failure>>
      /\ verdict' = [verdict EXCEPT ![task[s]] = "judged"]
  BY DEF IInv, CheckSucceeds, Judge, Goto, loop
<1>2. \A u \in Slots : pc'[u] \in Active => u # s /\ pc'[u] = pc[u] /\ task[u] # task[s]
  BY <1>1 DEF TypeOK, TaskInv, Active, Tried
<1>3. task[s] \in 1..next /\ next \in 0..Tasks
  BY <1>1 DEF TypeOK, TaskInv, Active
<1> QED BY <1>1, <1>2, <1>3, Numbers DEF TypeOK, TaskInv, Active, Tried

LEMMA FailTaskInv ==
  ASSUME IInv, NEW s \in Slots, CheckFails(s)
  PROVE  TaskInv'
<1>1. /\ TypeOK /\ TaskInv /\ pc[s] = "checking" /\ pc' = [pc EXCEPT ![s] = "failed"]
      /\ failure' # "none" /\ UNCHANGED <<next, task, attempt, results>>
      /\ verdict' = [verdict EXCEPT ![task[s]] = "judged"]
  BY DEF IInv, CheckFails, Judge, Throw, FailBatch, Goto, loop
<1>2. \A u \in Slots : pc'[u] \in Active => u # s /\ pc'[u] = pc[u] /\ task[u] # task[s]
  BY <1>1 DEF TypeOK, TaskInv, Active, Tried
<1>3. task[s] \in 1..next /\ next \in 0..Tasks
  BY <1>1 DEF TypeOK, TaskInv, Active
<1> QED BY <1>1, <1>2, <1>3, Numbers DEF TypeOK, TaskInv, Active, Tried

LEMMA OtherTaskInv ==
  ASSUME IInv,
         \/ \E c \in Children : ChildReady(c) \/ ChildAnswers(c) \/ ChildExits(c)
         \/ Abort \/ Settle \/ Close
  PROVE  TaskInv'
<1>1. TypeOK /\ TaskInv
  BY DEF IInv
<1>2. CASE Abort \/ Settle \/ Close \/ \E c \in Children : ChildReady(c)
  <2>1. /\ UNCHANGED <<next, pc, task, attempt, results, verdict>>
        /\ failure' = failure \/ (failure = "none" /\ failure' = "aborted")
    BY <1>2 DEF Abort, Settle, Close, ChildReady, FailBatch, loop
  <2> QED BY <1>1, <2>1 DEF TaskInv
<1>3. ASSUME NEW c \in Children, ChildAnswers(c) PROVE TaskInv'
  <2>1. PICK s \in Slots :
          /\ pc[s] = "working" /\ pc' = [pc EXCEPT ![s] = "answered"]
          /\ verdict' = [verdict EXCEPT ![task[s]] = "answered"]
    BY <1>3 DEF ChildAnswers, Listening, Goto
  <2>2. UNCHANGED <<next, task, attempt, failure, results>>
    BY <1>3 DEF ChildAnswers, loop
  <2>3. /\ pc[s] \in Active /\ pc'[s] \in Active
        /\ \A u \in Slots \ {s} : pc'[u] = pc[u]
        /\ \A t \in 1..Tasks : verdict'[t] \in {verdict[t], "answered"}
    BY <1>1, <2>1 DEF TypeOK, Active, Tried
  <2> QED BY <1>1, <2>1, <2>2, <2>3, AtWork DEF TaskInv, Active, Tried
<1>4. ASSUME NEW c \in Children, ChildExits(c) PROVE TaskInv'
  <2>1. UNCHANGED <<next, task, attempt, failure, results, verdict>>
    BY <1>4 DEF ChildExits, loop
  <2>2. \A s \in Slots :
          pc'[s] = pc[s] \/ (pc'[s] = "exited" /\ pc[s] \in {"starting", "working"})
    BY <1>4 DEF ChildExits, Listening
  <2> QED BY <1>1, <2>1, <2>2 DEF TaskInv, Active, Tried
<1> QED BY <1>2, <1>3, <1>4

-----------------------------------------------------------------------------
(* Attempts that have no child yet *)

\* Attempt a of loop u is still to start its child.
Fresh(u, a) ==
  /\ pc[u] \in Active
  /\ a > attempt[u] \/ (a = attempt[u] /\ pc[u] \in {"attempt", "prepared"})

\* Whatever becomes of children that exist, what is fresh and remains so has
\* no child.
LEMMA FreshKept ==
  ASSUME IInv, next' = next,
         \A c \in Children : child[c] = "unborn" => child'[c] = "unborn",
         \A u \in Slots, a \in 1..MaxAttempts :
           Fresh(u, a)' => Fresh(u, a) /\ task'[u] = task[u]
  PROVE  FreshInv'
<1>1. \A u \in Slots, a \in 1..MaxAttempts : Fresh(u, a)' =>
        /\ child[<<task[u], a>>] = "unborn" /\ <<task[u], a>> \in Children
        /\ task'[u] = task[u]
  <2> SUFFICES ASSUME NEW u \in Slots, NEW a \in 1..MaxAttempts, Fresh(u, a)'
               PROVE  /\ child[<<task[u], a>>] = "unborn" /\ <<task[u], a>> \in Children
                      /\ task'[u] = task[u]
    OBVIOUS
  <2>1. task[u] \in 1..Tasks
    BY AtWork DEF Fresh
  <2> QED BY <2>1 DEF IInv, FreshInv, Fresh, Children
<1> QED BY <1>1 DEF IInv, FreshInv, Fresh

LEMMA TakeFresh ==
  ASSUME IInv, NEW s \in Slots, TakeTask(s)
  PROVE  FreshInv'
<1>1. /\ next \in Nat /\ next + 1 \in 1..Tasks /\ next' = next + 1 /\ child' = child
      /\ pc'[s] = "attempt" /\ task'[s] = next + 1 /\ attempt'[s] = 1
      /\ \A u \in Slots \ {s} :
           pc'[u] = pc[u] /\ task'[u] = task[u] /\ attempt'[u] = attempt[u]
  BY Numbers DEF IInv, TypeOK, TakeTask, Goto
<1>2. \A c \in Children : c[1] > next' => child'[c] = "unborn"
  <2> SUFFICES ASSUME NEW c \in Children, c[1] > next' PROVE child'[c] = "unborn"
    OBVIOUS
  <2>1. c[1] \in 1..Tasks /\ c[1] > next
    BY <1>1 DEF Children
  <2> QED BY <1>1, <2>1 DEF IInv, FreshInv
<1>3. \A a \in 1..MaxAttempts : child'[<<next + 1, a>>] = "unborn"
  <2> SUFFICES ASSUME NEW a \in 1..MaxAttempts PROVE child[<<next + 1, a>>] = "unborn"
    BY <1>1
  <2>1. <<next + 1, a>> \in Children /\ <<next + 1, a>>[1] > next
    BY <1>1 DEF Children
  <2> QED BY <2>1 DEF IInv, FreshInv
<1> QED BY <1>1, <1>2, <1>3 DEF IInv, FreshInv

LEMMA SpawnFresh ==
  ASSUME IInv, NEW s \in Slots, Spawn(s)
  PROVE  FreshInv' /\ child[<<task[s], attempt[s]>>] = "unborn"
<1>1. /\ pc[s] = "prepared" /\ pc[s] \in Active /\ TypeOK /\ TaskInv /\ FreshInv
      /\ UNCHANGED <<next, task, attempt>> /\ pc' = [pc EXCEPT ![s] = "starting"]
      /\ child' = [child EXCEPT ![<<task[s], attempt[s]>>] = "starting"]
  BY DEF IInv, Spawn, Goto, loop, Active, Tried
<1>2. /\ task[s] <= next /\ next \in Nat /\ task[s] \in Nat /\ attempt[s] \in 1..MaxAttempts
      /\ <<task[s], attempt[s]>> \in Children
  BY <1>1, AtWork, Numbers DEF TypeOK
<1>3. child[<<task[s], attempt[s]>>] = "unborn"
  BY <1>1, <1>2 DEF FreshInv
<1>4. \A c \in Children : c # <<task[s], attempt[s]>> => child'[c] = child[c]
  BY <1>1 DEF TypeOK
<1>5. \A c \in Children : c[1] > next => c # <<task[s], attempt[s]>>
  BY <1>2
<1>6. ASSUME NEW u \in Slots, NEW a \in 1..MaxAttempts, pc'[u] \in Active,
             a > attempt[u] \/ (a = attempt[u] /\ pc'[u] \in {"attempt", "prepared"})
      PROVE  child'[<<task[u], a>>] = "unborn"
  <2>1. /\ pc[u] \in Active /\ (u # s => pc'[u] = pc[u]) /\ pc'[s] = "starting"
        /\ attempt[u] \in Nat
    BY <1>1, <1>6 DEF TypeOK
  <2>2. /\ child[<<task[u], a>>] = "unborn" /\ <<task[u], a>> \in Children
        /\ <<task[u], a>> # <<task[s], attempt[s]>>
    <3>1. <<task[u], a>> \in Children
      BY <2>1, AtWork DEF Children
    <3>2. child[<<task[u], a>>] = "unborn"
      BY <1>1, <1>6, <2>1 DEF FreshInv
    <3>3. CASE u = s
      BY <1>2, <1>6, <2>1, <3>1, <3>2, <3>3
    <3>4. CASE u # s
      BY <1>1, <2>1, <3>1, <3>2, <3>4 DEF TaskInv
    <3> QED BY <3>3, <3>4
  <2> QED BY <1>4, <2>2
<1> QED BY <1>1, <1>3, <1>4, <1>5, <1>6 DEF FreshInv

LEMMA NextFresh ==
  ASSUME IInv,
         \/ \E s \in Slots :
              \/ LoopEnds(s) \/ Prepare(s) \/ StopPrepared(s) \/ Send(s) \/ Hear(s)
              \/ CheckFails(s) \/ CheckSucceeds(s) \/ Retry(s) \/ GiveUp(s)
              \/ Breaks(s) \/ SendFails(s) \/ StartFails(s)
         \/ \E c \in Children : ChildReady(c) \/ ChildAnswers(c) \/ ChildExits(c)
         \/ Abort \/ Settle \/ Close
  PROVE  FreshInv'
<1>1. TypeOK /\ TaskInv /\ ChildInv
  BY DEF IInv
<1>2. ASSUME NEW s \in Slots,
             \/ LoopEnds(s) \/ Prepare(s) \/ StopPrepared(s) \/ Send(s) \/ Hear(s)
             \/ CheckFails(s) \/ CheckSucceeds(s) \/ Retry(s) \/ GiveUp(s)
             \/ Breaks(s) \/ SendFails(s) \/ StartFails(s)
      PROVE  FreshInv'
  <2>1. /\ UNCHANGED <<next, task>>
        /\ \/ attempt' = attempt
           \/ attempt' = [attempt EXCEPT ![s] = @ + 1] /\ pc[s] = "exited"
        /\ \E place \in Places :
             /\ pc' = [pc EXCEPT ![s] = place]
             /\ place \in Active => pc[s] \in Active
             /\ place = "prepared" => pc[s] = "attempt"
             /\ place = "attempt" => attempt' # attempt /\ pc[s] = "exited"
    <3>1. CASE Retry(s)
      <4>1. attempt[s] \in Nat /\ attempt' = [attempt EXCEPT ![s] = @ + 1]
        BY <1>1, <3>1 DEF Retry, TypeOK
      <4>2. attempt' # attempt
        BY <1>1, <4>1 DEF TypeOK
      <4> QED BY <3>1, <4>1, <4>2 DEF Retry, Goto, Places, Active, Tried
    <3>2. CASE ~Retry(s)
      BY <1>2, <3>2
         DEF LoopEnds, Prepare, StopPrepared, Send, Hear, CheckFails, CheckSucceeds, GiveUp,
             Breaks, SendFails, StartFails, Throw, Goto, loop, Places, Active, Tried
    <3> QED BY <3>1, <3>2
  <2>2. \A u \in Slots, a \in 1..MaxAttempts :
          Fresh(u, a)' => Fresh(u, a) /\ task'[u] = task[u]
    BY <1>1, <2>1 DEF Fresh, TypeOK
  <2>3. \A c \in Children : child[c] = "unborn" => child'[c] = "unborn"
    <3>1. child' = child \/ \E state \in Alive \cup {"dead"}, d \in Children :
            child' = [child EXCEPT ![d] = state] /\ child[d] # "unborn"
      <4>1. CASE Send(s) \/ SendFails(s)
        <5>1. /\ \E state \in Alive : child' = [child EXCEPT ![using'[s]] = state]
              /\ \/ using' = [using EXCEPT ![s] = slot[s]] /\ slot[s] # NoChild
                    /\ child[slot[s]] = "ready"
                 \/ using' = using /\ pc[s] = "starting" /\ child[using[s]] = "ready"
          BY <4>1 DEF Send, SendFails, Usable, Goto, Alive
        <5>2. using'[s] \in Children /\ child[using'[s]] = "ready"
          BY <1>1, <5>1 DEF TypeOK, ChildInv, LoopInv, Listens
        <5> QED BY <5>1, <5>2
      <4>2. CASE StartFails(s)
        BY <1>1, <4>2 DEF StartFails, Throw, Goto, TypeOK, ChildInv, LoopInv, Listens
      <4>3. CASE ~Send(s) /\ ~SendFails(s) /\ ~StartFails(s)
        BY <1>2, <4>3
           DEF LoopEnds, Prepare, StopPrepared, Hear, CheckFails, CheckSucceeds, Retry, GiveUp,
               Breaks
      <4> QED BY <4>1, <4>2, <4>3
    <3> QED BY <1>1, <3>1 DEF TypeOK
  <2> QED BY <2>1, <2>2, <2>3, FreshKept
<1>3. ASSUME NEW c \in Children, ChildReady(c) \/ ChildAnswers(c) \/ ChildExits(c)
      PROVE  FreshInv'
  <2>1. UNCHANGED <<next, task, attempt>>
    BY <1>3 DEF ChildReady, ChildAnswers, ChildExits, loop
  <2>2. child[c] # "unborn" /\ \E state \in Alive \cup {"dead"} : child' = [child EXCEPT ![c] = state]
    BY <1>3 DEF ChildReady, ChildAnswers, ChildExits, Alive
  <2>3. \A u \in Slots :
          pc'[u] = pc[u] \/ (pc'[u] \in {"answered", "exited"} /\ pc[u] \in Active)
    BY <1>1, <1>3
       DEF ChildReady, ChildAnswers, ChildExits, Listening, Goto, TypeOK, Active, Tried
  <2>4. \A u \in Slots, a \in 1..MaxAttempts :
          Fresh(u, a)' => Fresh(u, a) /\ task'[u] = task[u]
    BY <2>1, <2>3 DEF Fresh
  <2> QED BY <1>1, <2>1, <2>2, <2>4, FreshKept DEF TypeOK
<1>4. CASE Abort \/ Settle \/ Close
  BY <1>4 DEF IInv, FreshInv, Abort, Settle, Close, loop
<1> QED BY <1>2, <1>3, <1>4

-----------------------------------------------------------------------------
(* Children and the loops that listen to them *)

LEMMA ChildTypes ==
  ASSUME IInv
  PROVE  /\ pc \in [Slots -> Places]
         /\ slot \in [Slots -> Children \cup {NoChild}]
         /\ using \in [Slots -> Children \cup {NoChild}]
         /\ child \in [Children -> Alive \cup {"unborn", "dead"}]
         /\ \A u \in Slots : LoopInv(u)
         /\ \A u, v \in Slots : u # v => PairInv(u, v)
         /\ \A c \in Children : LiveInv(c)
BY DEF IInv, TypeOK, ChildInv

\* The first failure of the batch, or no change of its verdict.
Fails == (UNCHANGED <<failure, killed>>) \/ (\E f \in Failures : FailBatch(f))

\* Nothing happens to a child, but the batch may fail.
LEMMA QuietChild ==
  ASSUME IInv, UNCHANGED <<slot, using, child>>, Fails,
         \A u \in Slots : pc'[u] = pc[u] \/ (pc[u] \notin Listens /\ pc'[u] \notin Listens)
  PROVE  ChildInv'
<1>1. /\ killed \subseteq killed'
      /\ failure' # "none" /\ failure = "none" => killed' = killed \cup InSlots
      /\ failure # "none" => UNCHANGED <<failure, killed>>
  BY DEF Fails, FailBatch
<1>2. ASSUME NEW u \in Slots PROVE LoopInv(u)'
  <2>1. slot[u] # NoChild => slot[u] \in InSlots
    BY DEF InSlots
  <2> QED BY <1>1, <2>1, ChildTypes DEF LoopInv, Listens
<1>3. ASSUME NEW u \in Slots, NEW v \in Slots, u # v PROVE PairInv(u, v)'
  BY <1>3, ChildTypes DEF PairInv, Listens
<1>4. ASSUME NEW c \in Children PROVE LiveInv(c)'
  BY <1>1, ChildTypes DEF LiveInv
<1> QED BY <1>2, <1>3, <1>4 DEF ChildInv

LEMMA QuietSteps ==
  ASSUME IInv,
         \/ \E s \in Slots :
              \/ TakeTask(s) \/ LoopEnds(s) \/ Prepare(s) \/ StopPrepared(s) \/ Hear(s)
              \/ CheckFails(s) \/ CheckSucceeds(s) \/ Retry(s) \/ GiveUp(s) \/ Breaks(s)
         \/ Abort \/ Close
  PROVE  ChildInv'
<1>1. CASE Abort \/ Close
  BY <1>1, QuietChild DEF Abort, Close, Fails, Failures
<1>2. ASSUME NEW s \in Slots,
             \/ TakeTask(s) \/ LoopEnds(s) \/ Prepare(s) \/ StopPrepared(s) \/ Hear(s)
             \/ CheckFails(s) \/ CheckSucceeds(s) \/ Retry(s) \/ GiveUp(s) \/ Breaks(s)
      PROVE  ChildInv'
  <2>1. UNCHANGED <<slot, using, child>> /\ pc[s] \notin Listens
        /\ \E place \in Places \ Listens : pc' = [pc EXCEPT ![s] = place]
    BY <1>2
       DEF TakeTask, LoopEnds, Prepare, StopPrepared, Hear, CheckFails, CheckSucceeds, Retry,
           GiveUp, Breaks, Throw, Goto, Places, Listens
  <2>2. Fails
    BY <1>2
       DEF IInv, TypeOK, TakeTask, LoopEnds, Prepare, StopPrepared, Hear, CheckFails,
           CheckSucceeds, Retry, GiveUp, Breaks, Throw, Fails, Failures
  <2> QED BY <2>1, <2>2, QuietChild, ChildTypes
<1> QED BY <1>1, <1>2

LEMMA SpawnChild ==
  ASSUME IInv, NEW s \in Slots, Spawn(s)
  PROVE  ChildInv'
<1> DEFINE c == <<task[s], attempt[s]>>
<1>1. /\ c \in Children /\ child[c] = "unborn" /\ c # NoChild
  BY AtWork, SpawnFresh, NoChildIsNoChild DEF Spawn, Goto, Active, Tried
<1>2. /\ pc[s] = "prepared" /\ pc' = [pc EXCEPT ![s] = "starting"]
      /\ slot' = [slot EXCEPT ![s] = c] /\ using' = [using EXCEPT ![s] = c]
      /\ child' = [child EXCEPT ![c] = "starting"] /\ failure = "none"
      /\ UNCHANGED <<killed, failure>>
      /\ slot[s] # NoChild => child[slot[s]] # "ready"
  BY DEF Spawn, Goto, Usable
<1> HIDE DEF c
<1>3. \A u \in Slots : slot[u] # c /\ (pc[u] \in Listens => using[u] # c)
  BY <1>1, ChildTypes DEF LoopInv, Listens
<1>4. /\ pc'[s] = "starting" /\ slot'[s] = c /\ using'[s] = c /\ child'[c] = "starting"
      /\ \A u \in Slots \ {s} : pc'[u] = pc[u] /\ slot'[u] = slot[u] /\ using'[u] = using[u]
      /\ \A d \in Children : d # c => child'[d] = child[d]
  BY <1>1, <1>2, ChildTypes
<1>5. ASSUME NEW u \in Slots PROVE LoopInv(u)'
  <2>1. CASE u = s
    BY <1>1, <1>2, <1>4, <2>1 DEF LoopInv, Listens
  <2>2. CASE u # s
    <3>1. (slot[u] # NoChild => slot[u] \in Children) /\ (using[u] # NoChild => using[u] \in Children)
      BY ChildTypes
    <3> QED BY <1>2, <1>3, <1>4, <2>2, <3>1, ChildTypes DEF LoopInv, Listens
  <2> QED BY <2>1, <2>2
<1>6. ASSUME NEW u \in Slots, NEW v \in Slots, u # v PROVE PairInv(u, v)'
  BY <1>1, <1>3, <1>4, <1>6, ChildTypes DEF PairInv, Listens
<1>7. ASSUME NEW d \in Children PROVE LiveInv(d)'
  <2>1. CASE d = c
    BY <1>4, <2>1 DEF LiveInv
  <2>2. CASE d # c
    <3>1. slot[s] = d => child[d] \notin Live
      BY <1>2, NoChildIsNoChild, ChildTypes DEF LoopInv, Listens, Live
    <3> QED BY <1>2, <1>4, <2>2, <3>1, ChildTypes DEF LiveInv
  <2> QED BY <2>1, <2>2
<1> QED BY <1>5, <1>6, <1>7 DEF ChildInv

LEMMA SendChild ==
  ASSUME IInv, NEW s \in Slots, Send(s) \/ SendFails(s)
  PROVE  ChildInv'
<1>1. PICK place \in {"working", "exited"}, state \in {"busy", "cut off"} :
        /\ pc' = [pc EXCEPT ![s] = place] /\ child' = [child EXCEPT ![using'[s]] = state]
        /\ place = "working" <=> state = "busy"
  BY DEF Send, SendFails, Goto
<1>2. \/ /\ pc[s] = "prepared" /\ using' = [using EXCEPT ![s] = slot[s]] /\ slot[s] # NoChild
         /\ child[slot[s]] = "ready" /\ failure = "none"
      \/ pc[s] = "starting" /\ using' = using /\ child[using[s]] = "ready"
  BY DEF Send, SendFails, Goto, Usable
<1>3. UNCHANGED <<slot, killed, failure>>
  BY DEF Send, SendFails
<1> DEFINE c == using'[s]
<1>4. /\ c \in Children /\ child[c] = "ready"
      /\ slot[s] = c \/ (slot[s] = NoChild /\ c \in killed)
      /\ failure # "none" => c \in killed
      /\ \A u \in Slots \ {s} : slot[u] # c /\ (pc[u] \in Listens => using[u] # c)
  <2>1. LoopInv(s) /\ \A u \in Slots \ {s} : PairInv(s, u) /\ PairInv(u, s)
    BY ChildTypes
  <2>2. CASE /\ using' = [using EXCEPT ![s] = slot[s]] /\ slot[s] # NoChild
             /\ child[slot[s]] = "ready" /\ failure = "none"
    <3>1. c = slot[s] /\ c \in Children
      BY <2>2, ChildTypes
    <3> QED BY <2>1, <2>2, <3>1 DEF PairInv
  <2>3. CASE pc[s] = "starting" /\ using' = using /\ child[using[s]] = "ready"
    <3>1. c = using[s] /\ c # NoChild /\ pc[s] \in Listens
      BY <2>1, <2>3 DEF LoopInv, Listens
    <3>2. c \in Children
      BY <3>1, ChildTypes
    <3> QED BY <2>1, <2>3, <3>1, <3>2 DEF LoopInv, PairInv
  <2> QED BY <1>2, <2>2, <2>3
<1>5. /\ pc'[s] = place /\ using'[s] = c /\ child'[c] = state
      /\ \A u \in Slots \ {s} : pc'[u] = pc[u] /\ using'[u] = using[u]
      /\ \A d \in Children : d # c => child'[d] = child[d]
  BY <1>1, <1>2, <1>4, ChildTypes
<1> HIDE DEF c
<1>6. ASSUME NEW u \in Slots PROVE LoopInv(u)'
  <2>1. CASE u = s
    BY <1>1, <1>3, <1>4, <1>5, <2>1, NoChildIsNoChild DEF LoopInv, Listens
  <2>2. CASE u # s
    <3>1. (slot[u] # NoChild => slot[u] \in Children) /\ (using[u] # NoChild => using[u] \in Children)
      BY ChildTypes
    <3> QED BY <1>3, <1>4, <1>5, <2>2, <3>1, ChildTypes DEF LoopInv, Listens
  <2> QED BY <2>1, <2>2
<1>7. ASSUME NEW u \in Slots, NEW v \in Slots, u # v PROVE PairInv(u, v)'
  <2>1. PairInv(u, v) /\ c # NoChild
    BY <1>4, <1>7, ChildTypes, NoChildIsNoChild
  <2>2. slot'[u] = slot[u] /\ slot'[v] = slot[v]
    BY <1>3
  <2>3. CASE u # s /\ v # s
    BY <1>5, <2>1, <2>2, <2>3 DEF PairInv
  <2>4. CASE u = s
    BY <1>4, <1>5, <1>7, <2>1, <2>2, <2>4 DEF PairInv
  <2>5. CASE v = s
    <3>1. /\ u \in Slots \ {s} /\ pc'[u] = pc[u] /\ using'[u] = using[u] /\ using'[s] = c
          /\ pc[u] \in Listens => using[u] # c
      BY <1>4, <1>5, <1>7, <2>5
    <3>2. PairInv(u, s) /\ slot'[u] = slot[u] /\ slot'[s] = slot[s]
      BY <2>1, <2>2, <2>5
    <3>3. PairInv(u, s)'
      BY <3>1, <3>2 DEF PairInv
    <3> QED BY <2>5, <3>3
  <2> QED BY <2>3, <2>4, <2>5
<1>8. ASSUME NEW d \in Children PROVE LiveInv(d)'
  <2>1. LiveInv(d) /\ slot' = slot /\ killed \subseteq killed'
    BY <1>3, ChildTypes
  <2>2. child'[d] \in Live => child[d] \in Live
    <3>1. CASE d = c
      BY <1>4, <3>1 DEF Live
    <3>2. CASE d # c
      BY <1>5, <3>2
    <3> QED BY <3>1, <3>2
  <2> QED BY <2>1, <2>2 DEF LiveInv
<1> QED BY <1>6, <1>7, <1>8 DEF ChildInv

LEMMA StartFailsChild ==
  ASSUME IInv, NEW s \in Slots, StartFails(s)
  PROVE  ChildInv'
<1>1. /\ pc[s] = "starting" /\ pc' = [pc EXCEPT ![s] = "failed"]
      /\ child' = [child EXCEPT ![using[s]] = "dead"] /\ UNCHANGED <<slot, using>>
      /\ child[using[s]] = "starting"
  BY DEF StartFails, Throw, Goto
<1>2. /\ killed \subseteq killed'
      /\ failure' # "none" /\ failure = "none" => killed' = killed \cup InSlots
      /\ failure # "none" => UNCHANGED <<failure, killed>>
  BY DEF StartFails, Throw, FailBatch
<1>3. /\ using[s] \in Children /\ (slot[s] = using[s] \/ slot[s] = NoChild)
      /\ \A u \in Slots \ {s} : slot[u] # using[s] /\ (pc[u] \in Listens => using[u] # using[s])
  BY <1>1, ChildTypes DEF LoopInv, PairInv, Listens
<1>4. /\ pc'[s] = "failed" /\ child'[using[s]] = "dead"
      /\ \A u \in Slots \ {s} : pc'[u] = pc[u]
      /\ \A d \in Children : d # using[s] => child'[d] = child[d]
  BY <1>1, <1>3, ChildTypes
<1>5. ASSUME NEW u \in Slots PROVE LoopInv(u)'
  <2>1. CASE u = s
    BY <1>1, <1>3, <1>4, <2>1 DEF LoopInv, Listens
  <2>2. CASE u # s
    <3>1. /\ (slot[u] # NoChild => slot[u] \in Children /\ slot[u] \in InSlots)
          /\ (using[u] # NoChild => using[u] \in Children)
      BY ChildTypes DEF InSlots
    <3> QED BY <1>1, <1>2, <1>3, <1>4, <2>2, <3>1, ChildTypes DEF LoopInv, Listens
  <2> QED BY <2>1, <2>2
<1>6. ASSUME NEW u \in Slots, NEW v \in Slots, u # v PROVE PairInv(u, v)'
  BY <1>1, <1>4, <1>6, ChildTypes DEF PairInv, Listens
<1>7. ASSUME NEW d \in Children PROVE LiveInv(d)'
  BY <1>1, <1>2, <1>4, ChildTypes DEF LiveInv, Live
<1> QED BY <1>5, <1>6, <1>7 DEF ChildInv

LEMMA ReadyChild ==
  ASSUME IInv, NEW c \in Children, ChildReady(c)
  PROVE  ChildInv'
<1>1. /\ child[c] = "starting" /\ UNCHANGED <<pc, slot, using, killed, failure>>
      /\ child'[c] = "ready" /\ \A d \in Children : d # c => child'[d] = child[d]
  BY ChildTypes DEF ChildReady
<1>2. ASSUME NEW u \in Slots PROVE LoopInv(u)'
  <2>1. (slot[u] # NoChild => slot[u] \in Children) /\ (using[u] # NoChild => using[u] \in Children)
    BY ChildTypes
  <2> QED BY <1>1, <2>1, ChildTypes DEF LoopInv, Listens
<1>3. ASSUME NEW u \in Slots, NEW v \in Slots, u # v PROVE PairInv(u, v)'
  BY <1>1, <1>3, ChildTypes DEF PairInv
<1>4. ASSUME NEW d \in Children PROVE LiveInv(d)'
  BY <1>1, ChildTypes DEF LiveInv, Live
<1> QED BY <1>2, <1>3, <1>4 DEF ChildInv

LEMMA AnswerChild ==
  ASSUME IInv, NEW c \in Children, ChildAnswers(c)
  PROVE  ChildInv'
<1>1. PICK s \in Slots : pc[s] = "working" /\ using[s] = c /\ pc' = [pc EXCEPT ![s] = "answered"]
  BY DEF ChildAnswers, Listening, Goto
<1>2. /\ UNCHANGED <<slot, using, killed, failure>> /\ child[c] = "busy" /\ child'[c] = "ready"
      /\ \A d \in Children : d # c => child'[d] = child[d]
      /\ pc'[s] = "answered" /\ \A u \in Slots \ {s} : pc'[u] = pc[u]
  BY <1>1, ChildTypes DEF ChildAnswers
<1>3. /\ slot[s] = c \/ slot[s] = NoChild
      /\ \A u \in Slots \ {s} : slot[u] # c /\ (pc[u] \in Listens => using[u] # c)
  BY <1>1, ChildTypes DEF LoopInv, PairInv, Listens
<1>4. ASSUME NEW u \in Slots PROVE LoopInv(u)'
  <2>1. CASE u = s
    BY <1>2, <1>3, <2>1 DEF LoopInv, Listens
  <2>2. CASE u # s
    <3>1. (slot[u] # NoChild => slot[u] \in Children) /\ (using[u] # NoChild => using[u] \in Children)
      BY ChildTypes
    <3> QED BY <1>2, <1>3, <2>2, <3>1, ChildTypes DEF LoopInv, Listens
  <2> QED BY <2>1, <2>2
<1>5. ASSUME NEW u \in Slots, NEW v \in Slots, u # v PROVE PairInv(u, v)'
  BY <1>2, <1>5, ChildTypes DEF PairInv, Listens
<1>6. ASSUME NEW d \in Children PROVE LiveInv(d)'
  BY <1>2, ChildTypes DEF LiveInv, Live
<1> QED BY <1>4, <1>5, <1>6 DEF ChildInv

LEMMA ExitChild ==
  ASSUME IInv, NEW c \in Children, ChildExits(c)
  PROVE  ChildInv'
<1>1. /\ UNCHANGED <<using, killed, failure>> /\ child'[c] = "dead"
      /\ \A d \in Children : d # c => child'[d] = child[d]
  BY ChildTypes DEF ChildExits
<1>2. \A u \in Slots :
        IF using[u] = c /\ pc[u] \in Listens
          THEN pc'[u] = "exited" /\ slot'[u] = NoChild
          ELSE pc'[u] = pc[u] /\ slot'[u] = slot[u]
  BY DEF ChildExits, Listening, Listens
<1>3. ASSUME NEW u \in Slots PROVE LoopInv(u)'
  <2>1. (slot[u] # NoChild => slot[u] \in Children) /\ (using[u] # NoChild => using[u] \in Children)
    BY ChildTypes
  <2>2. CASE using[u] = c /\ pc[u] \in Listens
    BY <1>1, <1>2, <2>2 DEF LoopInv, Listens
  <2>3. CASE ~(using[u] = c /\ pc[u] \in Listens)
    BY <1>1, <1>2, <2>1, <2>3, ChildTypes DEF LoopInv, Listens
  <2> QED BY <2>2, <2>3
<1>4. ASSUME NEW u \in Slots, NEW v \in Slots, u # v PROVE PairInv(u, v)'
  <2>1. PairInv(u, v) /\ (pc[u] \in Listens => using[u] # NoChild)
    BY <1>4, ChildTypes DEF LoopInv
  <2>2. (pc'[u] \in Listens => pc[u] \in Listens) /\ (pc'[v] \in Listens => pc[v] \in Listens)
    BY <1>2 DEF Listens
  <2>3. slot'[u] \in {slot[u], NoChild} /\ slot'[v] \in {slot[v], NoChild}
    BY <1>2
  <2> QED BY <1>1, <2>1, <2>2, <2>3 DEF PairInv
<1>5. ASSUME NEW d \in Children PROVE LiveInv(d)'
  <2>1. CASE d = c
    BY <1>1, <2>1 DEF LiveInv, Live
  <2>2. CASE d # c
    <3>1. \A u \in Slots : slot[u] = d => slot'[u] = d
      <4>1. \A u \in Slots : pc[u] \in Listens /\ using[u] = c => slot[u] # d
        BY <2>2, NoChildIsNoChild, ChildTypes DEF LoopInv
      <4> QED BY <1>2, <4>1
    <3> QED BY <1>1, <2>2, <3>1, ChildTypes DEF LiveInv
  <2> QED BY <2>1, <2>2
<1> QED BY <1>3, <1>4, <1>5 DEF ChildInv

LEMMA SettleChild ==
  ASSUME IInv, Settle
  PROVE  ChildInv'
<1>1. /\ UNCHANGED <<pc, using, child, failure>> /\ killed' = killed \cup InSlots
      /\ \A u \in Slots : slot'[u] = NoChild
  BY DEF Settle
<1>2. \A u \in Slots : slot[u] # NoChild => slot[u] \in InSlots
  BY DEF InSlots
<1>3. ASSUME NEW u \in Slots PROVE LoopInv(u)'
  BY <1>1, <1>2, ChildTypes DEF LoopInv, Listens
<1>4. ASSUME NEW u \in Slots, NEW v \in Slots, u # v PROVE PairInv(u, v)'
  <2>1. PairInv(u, v) /\ (pc[u] \in Listens => using[u] # NoChild)
    BY <1>4, ChildTypes DEF LoopInv
  <2> QED BY <1>1, <2>1 DEF PairInv
<1>5. ASSUME NEW d \in Children PROVE LiveInv(d)'
  BY <1>1, <1>2, NoChildIsNoChild, ChildTypes DEF LiveInv
<1> QED BY <1>3, <1>4, <1>5 DEF ChildInv

-----------------------------------------------------------------------------
(* The batch *)

LEMMA NextPool ==
  ASSUME IInv, Next
  PROVE  PoolInv'
<1>1. PoolInv /\ TypeOK /\ TaskInv
  BY DEF IInv
<1>2. CASE Settle
  <2>1. InSlots' = {} /\ UNCHANGED <<pc, failure>>
    BY <1>2 DEF Settle, InSlots
  <2>2. failure # "none" \/ \A s \in Slots : pc[s] = "done"
    BY <1>1, <1>2 DEF Settle, TaskInv
  <2> QED BY <1>2, <2>1, <2>2 DEF PoolInv, Settle, Verdict
<1>3. CASE Close \/ Abort
  BY <1>1, <1>3 DEF PoolInv, Close, Abort, InSlots
<1>4. ASSUME NEW c \in Children, ChildReady(c) \/ ChildAnswers(c) \/ ChildExits(c)
      PROVE  PoolInv'
  <2>1. UNCHANGED <<failure, pool>> /\ (InSlots = {} => InSlots' = {})
    BY <1>1, <1>4 DEF ChildReady, ChildAnswers, ChildExits, InSlots
  <2>2. \A s \in Slots : pc[s] = "done" => pc'[s] = "done"
    BY <1>1, <1>4 DEF ChildReady, ChildAnswers, ChildExits, Listening, Goto, TypeOK
  <2> QED BY <1>1, <2>1, <2>2 DEF PoolInv
<1>5. ASSUME NEW s \in Slots, Run(s) \/ Breaks(s) \/ SendFails(s) \/ StartFails(s)
      PROVE  PoolInv'
  <2>1. pool' = pool /\ pc[s] # "done"
    BY <1>5
       DEF Run, TakeTask, LoopEnds, Prepare, StopPrepared, Spawn, Send, Hear, CheckFails,
           CheckSucceeds, Retry, GiveUp, Breaks, SendFails, StartFails, Throw, Goto
  <2>2. failure # "none" => UNCHANGED <<slot, failure>>
    BY <1>5
       DEF Run, TakeTask, LoopEnds, Prepare, StopPrepared, Spawn, Send, Hear, CheckFails,
           CheckSucceeds, Retry, GiveUp, Breaks, SendFails, StartFails, Throw, FailBatch
  <2> QED BY <1>1, <2>1, <2>2 DEF PoolInv, InSlots
<1> QED BY <1>2, <1>3, <1>4, <1>5 DEF Next

LEMMA NextInv ==
  ASSUME IInv, [Next]_vars
  PROVE  IInv'
<1>1. CASE UNCHANGED vars
  <2>1. TypeOK' /\ TaskInv' /\ FreshInv'
    BY <1>1 DEF vars, IInv, TypeOK, TaskInv, FreshInv
  <2>2. ChildInv'
    BY <1>1 DEF vars, IInv, ChildInv, LoopInv, PairInv, LiveInv
  <2>3. PoolInv'
    BY <1>1 DEF vars, IInv, PoolInv, InSlots
  <2> QED BY <2>1, <2>2, <2>3 DEF IInv
<1>2. CASE Next
  <2>1. TypeOK'
    BY <1>2, RunType, OtherType DEF Next
  <2>2. TaskInv'
    BY <1>2, TakeTaskInv, MoveTaskInv, SucceedTaskInv, FailTaskInv, OtherTaskInv DEF Next, Run
  <2>3. FreshInv'
    BY <1>2, TakeFresh, SpawnFresh, NextFresh DEF Next, Run
  <2>4. ChildInv'
    BY <1>2, QuietSteps, SpawnChild, SendChild, StartFailsChild, ReadyChild, AnswerChild,
       ExitChild, SettleChild DEF Next, Run
  <2>5. PoolInv'
    BY <1>2, NextPool
  <2> QED BY <2>1, <2>2, <2>3, <2>4, <2>5 DEF IInv
<1> QED BY <1>1, <1>2

\* Who runs which task, who listens to which child, and which children have
\* been told to terminate, in every reachable state.
THEOREM Invariance == Spec => []IInv
BY InitInv, NextInv, PTL DEF Spec

-----------------------------------------------------------------------------
(* What it is worth *)

\* A task whose result was accepted, or found to be a failure, is not run
\* again, however many children are lost and answers cannot be read.
THEOREM NotRunAfterVerdict == Spec => []VerdictIsFinal
<1>1. IInv => VerdictIsFinal
  BY DEF IInv, TaskInv, VerdictIsFinal, Active
<1> QED BY <1>1, Invariance, PTL

\* A batch succeeds with a result of every task, and not after a failure.
THEOREM SuccessIsComplete == Spec => []CompleteOrFailed
<1>1. IInv => CompleteOrFailed
  <2> SUFFICES ASSUME IInv, pool \in {"returning", "returned"}
               PROVE  results = 1..Tasks /\ failure = "none"
    BY DEF CompleteOrFailed
  <2>1. failure = "none" /\ \A s \in Slots : pc[s] = "done"
    BY DEF IInv, PoolInv
  <2>2. next = Tasks
    BY <2>1, PoolAssumption DEF IInv, TaskInv
  <2>3. ASSUME NEW t \in 1..Tasks PROVE t \in results
    BY <2>1, <2>2, <2>3, PoolAssumption DEF IInv, TaskInv, Active, Tried
  <2>4. results \subseteq 1..Tasks
    BY DEF IInv, TypeOK
  <2> QED BY <2>1, <2>3, <2>4
<1> QED BY <1>1, Invariance, PTL

\* When the caller has its answer no child is left that was not told to end.
THEOREM NobodyLeft == Spec => []NoOrphans
<1>1. IInv => NoOrphans
  <2> SUFFICES ASSUME IInv, pool # "open", NEW c \in Children, child[c] \in Live
               PROVE  c \in killed
    BY DEF NoOrphans, Live
  <2>1. \A s \in Slots : slot[s] = NoChild
    BY DEF IInv, PoolInv, InSlots
  <2> QED BY <2>1, NoChildIsNoChild DEF IInv, ChildInv, LiveInv
<1> QED BY <1>1, Invariance, PTL

\* After the first failure no child is started, and none gets a task that has
\* not been told to terminate.
THEOREM NothingNewAfterFailure == Spec => FailureStops
<1> DEFINE Stops == failure # "none" =>
              \A c \in Children : child'[c] # child[c] /\ child'[c] \in {"starting", "busy"}
                => c \in killed'
<1>1. ASSUME IInv, [Next]_vars PROVE [Stops]_vars
  <2> SUFFICES ASSUME Next, failure # "none", NEW c \in Children, child'[c] # child[c],
                      child'[c] \in {"starting", "busy"}
               PROVE  c \in killed'
    BY <1>1
  <2>1. ASSUME NEW s \in Slots, Send(s) PROVE c \in killed'
    <3>1. /\ pc[s] = "starting" /\ using' = using /\ killed' = killed
          /\ child' = [child EXCEPT ![using[s]] = "busy"]
      BY <2>1 DEF Send, Goto
    <3>2. using[s] \in killed /\ c = using[s]
      BY <1>1, <3>1, ChildTypes DEF LoopInv, Listens
    <3> QED BY <3>1, <3>2
  <2>2. ASSUME NEW s \in Slots, SendFails(s) \/ StartFails(s) \/ Breaks(s) PROVE FALSE
    BY <1>1, <2>2, ChildTypes DEF SendFails, StartFails, Breaks
  <2>3. ASSUME NEW d \in Children, ChildReady(d) \/ ChildAnswers(d) \/ ChildExits(d) PROVE FALSE
    BY <1>1, <2>3, ChildTypes DEF ChildReady, ChildAnswers, ChildExits
  <2>4. ASSUME NEW s \in Slots, Run(s), ~Send(s) PROVE FALSE
    BY <2>4
       DEF Run, TakeTask, LoopEnds, Prepare, StopPrepared, Spawn, Hear, CheckFails,
           CheckSucceeds, Retry, GiveUp
  <2>5. ~(Abort \/ Settle \/ Close)
    BY DEF Abort, Settle, Close
  <2> QED BY <2>1, <2>2, <2>3, <2>4, <2>5 DEF Next
<1> QED BY <1>1, Invariance, PTL DEF Spec, FailureStops

\* No more children run than there are slots: each that runs and was not told
\* to terminate is in a slot.
THEOREM NoMoreThanSlots == Spec => []Bounded
<1>1. IInv => Bounded
  <2> SUFFICES ASSUME IInv PROVE Bounded
    OBVIOUS
  <2> DEFINE Running == {c \in Children : child[c] \in Live /\ c \notin killed}
             Held == {slot[s] : s \in Slots}
             holds == [s \in Slots |-> slot[s]]
  <2>1. Running \subseteq Held
    BY DEF IInv, ChildInv, LiveInv
  <2>2. holds \in Surjection(Slots, Held)
    BY DEF Surjection
  <2>3. IsFiniteSet(Held) /\ Cardinality(Held) <= Cardinality(Slots)
    BY <2>2, PoolAssumption, FS_Surjection
  <2>4. IsFiniteSet(Running) /\ Cardinality(Running) <= Cardinality(Held)
    BY <2>1, <2>3, FS_Subset
  <2>5. /\ Cardinality(Running) \in Nat /\ Cardinality(Held) \in Nat
        /\ Cardinality(Slots) \in Nat
    BY <2>3, <2>4, PoolAssumption, FS_CardinalityType
  <2>6. Cardinality(Running) <= Cardinality(Slots)
    BY <2>3, <2>4, <2>5
  <2> QED BY <2>6 DEF Bounded, Live
<1> QED BY <1>1, Invariance, PTL

=============================================================================
