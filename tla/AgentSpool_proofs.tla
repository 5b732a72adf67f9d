-------------------------- MODULE AgentSpool_proofs --------------------------
(***************************************************************************)
(* AgentSpool for any set of requests, any assignment of them to providers *)
(* and any queue limit: in every life the agent executes a request at most *)
(* once, a provider's browser serves one request at a time and the queues  *)
(* stay within their limit; one that was not started again executes none   *)
(* whose client has its answer.                                            *)
(***************************************************************************)
EXTENDS AgentSpool, SequenceTheorems, FiniteSetTheorems, TLAPS

LEMMA InitType == Init => TypeOK
<1> SUFFICES ASSUME Init PROVE TypeOK
  OBVIOUS
<1>1. ran \in [Requests -> [1..MaxLives -> Nat]]
  BY DEF Init
<1> QED BY <1>1, SpoolAssumption DEF Init, TypeOK, Jobs, Answers

LEMMA ClientType ==
  ASSUME TypeOK, NEW r \in Requests, ClientSends(r) \/ ClientReads(r) \/ ClientTimesOut(r)
  PROVE  TypeOK'
BY DEF TypeOK, ClientSends, ClientReads, ClientTimesOut, agency, memory, files

LEMMA OneMore ==
  ASSUME NEW f \in [Requests -> [1..MaxLives -> Nat]], NEW r \in Requests, NEW l \in 1..MaxLives
  PROVE  /\ [f EXCEPT ![r][l] = @ + 1] \in [Requests -> [1..MaxLives -> Nat]]
         /\ [f EXCEPT ![r][l] = @ + 1][r][l] = f[r][l] + 1
         /\ \A k \in 1..MaxLives : k # l => [f EXCEPT ![r][l] = @ + 1][r][k] = f[r][k]
         /\ \A q \in Requests : q # r => [f EXCEPT ![r][l] = @ + 1][q] = f[q]
<1> DEFINE g == [f[r] EXCEPT ![l] = @ + 1]
<1>1. /\ g \in [1..MaxLives -> Nat] /\ g[l] = f[r][l] + 1
      /\ \A k \in 1..MaxLives : k # l => g[k] = f[r][k]
  <2>1. f[r] \in [1..MaxLives -> Nat]
    OBVIOUS
  <2> QED BY <2>1
<1>2. [f EXCEPT ![r][l] = @ + 1] = [f EXCEPT ![r] = g]
  OBVIOUS
<1> HIDE DEF g
<1> QED BY <1>1, <1>2

LEMMA NoQueues == [p \in Providers |-> <<>>] \in [Providers -> Seq(Requests)]
<1>1. <<>> \in Seq(Requests)
  BY EmptySeq
<1> QED BY <1>1

LEMMA QueueType ==
  ASSUME TypeOK, NEW r \in Requests, Enqueue(r) \/ Start(r)
  PROVE  queue' \in [Providers -> Seq(Requests)]
<1>1. ProviderOf[r] \in Providers /\ queue[ProviderOf[r]] \in Seq(Requests)
  BY SpoolAssumption DEF TypeOK
<1>2. CASE Enqueue(r)
  <2>1. Append(queue[ProviderOf[r]], r) \in Seq(Requests)
    BY <1>1, AppendProperties
  <2> QED BY <1>1, <1>2, <2>1 DEF TypeOK, Enqueue
<1>3. CASE Start(r)
  <2>1. Tail(queue[ProviderOf[r]]) \in Seq(Requests)
    BY <1>1, <1>3, HeadTailProperties DEF Start
  <2> QED BY <1>1, <1>3, <2>1 DEF TypeOK, Start
<1> QED BY <1>2, <1>3

LEMMA WorkType ==
  ASSUME TypeOK, NEW r \in Requests, Work(r)
  PROVE  TypeOK'
<1> USE DEF TypeOK, Step, Answer, Answers, Jobs, agency, files
<1>1. CASE Enqueue(r)
  <2>1. queue' \in [Providers -> Seq(Requests)]
    BY <1>1, QueueType
  <2> QED BY <1>1, <2>1 DEF Enqueue
<1>2. CASE Start(r)
  <2>1. queue' \in [Providers -> Seq(Requests)]
    BY <1>2, QueueType
  <2>2. /\ ran' = [ran EXCEPT ![r][lives] = @ + 1] /\ lives \in 1..MaxLives
        /\ ran \in [Requests -> [1..MaxLives -> Nat]]
    BY <1>2 DEF Start
  <2>3. ran' \in [Requests -> [1..MaxLives -> Nat]]
    BY ONLY <2>2, OneMore, r \in Requests
  <2> QED BY <1>2, <2>1, <2>3 DEF Start
<1>3. CASE HandleThrows(r) \/ EnqueueRefused(r) \/ Finish(r)
  <2>1. answer' \in [Requests -> Answers \cup {"none"}]
    BY <1>3 DEF HandleThrows, EnqueueRefused, Finish
  <2>2. job' \in [Requests -> Jobs]
    BY <1>3 DEF HandleThrows, EnqueueRefused, Finish
  <2>3. UNCHANGED <<files, client, agency, listed, queue, ran>>
    BY <1>3 DEF HandleThrows, EnqueueRefused, Finish
  <2> HIDE DEF Answers, Jobs
  <2> QED BY <2>1, <2>2, <2>3
<1>4. CASE Respond(r) \/ RespondThrows(r) \/ Clear(r)
  BY <1>4 DEF Respond, RespondThrows, Clear
<1> QED BY <1>1, <1>2, <1>3, <1>4 DEF Work

LEMMA AgentType ==
  ASSUME TypeOK,
         \/ \E r \in Requests : Skip(r) \/ Take(r) \/ Clean(r)
         \/ Scan \/ Close \/ Exit \/ Die \/ Restart
  PROVE  TypeOK'
<1> USE DEF TypeOK, Answers, Jobs, agency, memory, files
<1>1. ASSUME NEW r \in Requests, Skip(r) \/ Take(r) PROVE TypeOK'
  BY <1>1 DEF Skip, Take, Look
<1>0. ASSUME NEW r \in Requests, Clean(r) PROVE TypeOK'
  BY <1>0 DEF Clean
<1>2. CASE Scan
  BY <1>2 DEF Scan
<1>5. CASE Close
  <2>1. /\ awaited' \subseteq Requests /\ lives' < MaxLives /\ agent' = "closing"
        /\ UNCHANGED <<client, files, lives, memory, ran>>
    BY <1>5 DEF Close
  <2> QED BY <2>1
<1>3. CASE Restart
  <2>1. MaxLives \in Nat /\ lives \in 1..MaxLives /\ lives < MaxLives /\ lives' = lives + 1
    BY <1>3, SpoolAssumption DEF Restart
  <2>2. lives' \in 1..MaxLives
    BY ONLY <2>1
  <2>3. agent' = "up" /\ UNCHANGED <<client, files, awaited, memory, ran>>
    BY <1>3 DEF Restart
  <2> QED BY <2>2, <2>3
<1>4. CASE Exit \/ Die
  <2>1. /\ job' = [r \in Requests |-> "none"] /\ answer' = [r \in Requests |-> "none"]
        /\ queue' = [p \in Providers |-> <<>>] /\ listed' = {} /\ awaited' = {}
        /\ agent # "down" /\ agent' = "down" /\ UNCHANGED <<client, files, lives, ran>>
    BY <1>4 DEF Exit, Die, ForgetsJobs
  <2>2. lives' < MaxLives
    BY <1>4 DEF Exit, Die
  <2>3. queue' \in [Providers -> Seq(Requests)]
    BY <2>1, NoQueues
  <2> QED BY <2>1, <2>2, <2>3
<1> QED BY <1>0, <1>1, <1>2, <1>3, <1>4, <1>5

LEMMA NextType ==
  ASSUME TypeOK, [Next]_vars
  PROVE  TypeOK'
<1>1. CASE UNCHANGED vars
  BY <1>1 DEF TypeOK, vars
<1>2. CASE Next
  BY <1>2, ClientType, WorkType, AgentType DEF Next
<1> QED BY <1>1, <1>2

\* Every variable of the spool keeps its type, through every restart.
THEOREM TypeCorrect == Spec => []TypeOK
BY InitType, NextType, PTL DEF Spec

-----------------------------------------------------------------------------
(* One life of the agent *)

\* A step of one request leaves what holds of another as it was.
LEMMA Frame ==
  ASSUME TypeOK, NEW r \in Requests, NEW q \in Requests, q # r,
         \/ ClientSends(r) \/ ClientReads(r) \/ ClientTimesOut(r)
         \/ Skip(r) \/ Take(r) \/ Work(r) \/ Clean(r)
  PROVE  /\ client'[q] = client[q] /\ response'[q] = response[q] /\ job'[q] = job[q]
         /\ answer'[q] = answer[q] /\ ran'[q] = ran[q] /\ (q \in request' <=> q \in request)
<1> USE DEF TypeOK, agency, memory, files
<1>1. CASE ClientSends(r) \/ ClientReads(r) \/ ClientTimesOut(r)
  BY <1>1 DEF ClientSends, ClientReads, ClientTimesOut
<1>2. CASE Skip(r) \/ Take(r) \/ Clean(r)
  BY <1>2 DEF Skip, Take, Look, Clean
<1>3. CASE Work(r)
  <2>1. CASE HandleThrows(r) \/ EnqueueRefused(r) \/ Enqueue(r) \/ Start(r)
    BY <2>1 DEF HandleThrows, EnqueueRefused, Enqueue, Start, Step, Answer
  <2>2. CASE Finish(r) \/ Respond(r) \/ RespondThrows(r) \/ Clear(r)
    BY <2>2 DEF Finish, Respond, RespondThrows, Clear, Step, Answer
  <2> QED BY <1>3, <2>1, <2>2 DEF Work
<1> QED BY <1>1, <1>2, <1>3

\* Only Start executes a request.
LEMMA RanStep ==
  ASSUME TypeOK, NEW r \in Requests,
         \/ ClientSends(r) \/ ClientReads(r) \/ ClientTimesOut(r)
         \/ Skip(r) \/ Take(r) \/ Work(r) \/ Clean(r)
  PROVE  /\ lives' = lives
         /\ \/ UNCHANGED ran /\ Ran(r)' = Ran(r)
            \/ /\ job[r] = "queued" /\ job'[r] = "running" /\ Ran(r)' = Ran(r) + 1
               /\ \A l \in 1..MaxLives : l # lives => ran'[r][l] = ran[r][l]
<1>1. CASE Start(r)
  <2>1. /\ ran' = [ran EXCEPT ![r][lives] = @ + 1] /\ lives' = lives /\ lives \in 1..MaxLives
        /\ ran \in [Requests -> [1..MaxLives -> Nat]]
    BY <1>1 DEF Start, Step, TypeOK, agency
  <2>2. job[r] = "queued" /\ job'[r] = "running"
    BY <1>1 DEF Start, Step, TypeOK
  <2> QED BY <2>1, <2>2, OneMore DEF Ran
<1>2. CASE ~Start(r)
  <2>1. UNCHANGED <<ran, lives>>
    BY <1>2 DEF ClientSends, ClientReads, ClientTimesOut, Skip, Take, Look, Clean, Work,
                HandleThrows, EnqueueRefused, Enqueue, Finish, Respond, RespondThrows, Clear, Step,
                memory, agency
  <2> QED BY <1>2, <2>1 DEF Ran
<1> QED BY <1>1, <1>2

LEMMA RequestStep ==
  ASSUME IInv, FirstLife, NEW r \in Requests,
         \/ ClientSends(r) \/ ClientReads(r) \/ ClientTimesOut(r)
         \/ Skip(r) \/ Take(r) \/ Work(r) \/ Clean(r)
  PROVE  RequestInv(r)'
<1>1. /\ RequestInv(r) /\ Ran(r) \in Nat
      /\ r \in DOMAIN client /\ r \in DOMAIN response /\ r \in DOMAIN job
      /\ r \in DOMAIN answer
  BY DEF IInv, TypeOK, Ran
<1>0. \/ Ran(r)' = Ran(r)
      \/ job[r] = "queued" /\ job'[r] = "running" /\ Ran(r)' = Ran(r) + 1
  BY RanStep DEF IInv
<1> USE <1>0, <1>1 DEF RequestInv, agency, memory, files
<1>2. CASE ClientSends(r) \/ ClientReads(r) \/ ClientTimesOut(r)
  BY <1>2 DEF ClientSends, ClientReads, ClientTimesOut
<1>3. CASE Skip(r) \/ Take(r)
  BY <1>3 DEF Skip, Take, Skips, Look
<1>4. CASE Clean(r)
  BY <1>4 DEF Clean, Stale
<1>5. CASE HandleThrows(r) \/ EnqueueRefused(r) \/ Enqueue(r)
  BY <1>5 DEF HandleThrows, EnqueueRefused, Enqueue, Step, Answer
<1>6. CASE Start(r)
  BY <1>6 DEF Start, Step
<1>7. CASE Finish(r)
  BY <1>7 DEF Finish, Step, Answer
<1>8. CASE Respond(r) \/ RespondThrows(r) \/ Clear(r)
  BY <1>8 DEF Respond, RespondThrows, Clear, Step, Answer
<1> HIDE DEF RequestInv
<1> QED BY <1>2, <1>3, <1>4, <1>5, <1>6, <1>7, <1>8 DEF Work

\* No step leads back into the first life.
LEMMA FirstLifeStep ==
  ASSUME TypeOK, Next, FirstLife'
  PROVE  FirstLife /\ (~Close => agent' = agent)
<1>1. lives \in Nat /\ lives # 0
  <2>1. lives \in 1..MaxLives
    BY DEF TypeOK
  <2>2. MaxLives \in Nat
    BY SpoolAssumption
  <2> QED BY <2>1, <2>2
<1>2. ~Restart /\ ~Exit /\ ~Die
  BY <1>1 DEF FirstLife, Restart, Exit, Die
<1>3. CASE Close
  BY <1>3 DEF Close, FirstLife
<1>4. CASE ~Close
  <2>1. UNCHANGED <<agent, lives>>
    BY <1>2, <1>4 DEF Next, ClientSends, ClientReads, ClientTimesOut, Skip, Take, Look, Clean, Scan,
        Work, HandleThrows, EnqueueRefused, Enqueue, Start, Finish, Respond, RespondThrows, Clear,
        Step, agency
  <2> QED BY <2>1 DEF FirstLife
<1> QED BY <1>3, <1>4

\* The inductive invariant of the agent's first life, also while it is closing.
THEOREM Invariance == Spec => []IInv
<1>1. Init => IInv
  <2>1. Init => \A r \in Requests : Ran(r) = 0
    BY SpoolAssumption DEF Init, Ran
  <2> QED BY <2>1, InitType DEF Init, IInv, RequestInv
<1>2. ASSUME IInv, [Next]_vars PROVE IInv'
  <2>1. TypeOK /\ TypeOK'
    BY <1>2, NextType DEF IInv
  <2>2. CASE UNCHANGED vars
    BY <1>2, <2>1, <2>2 DEF IInv, RequestInv, FirstLife, Ran, vars, agency
  <2> SUFFICES ASSUME Next, FirstLife' PROVE \A r \in Requests : RequestInv(r)'
    BY <1>2, <2>1, <2>2 DEF IInv
  <2>0. FirstLife /\ \A r \in Requests : RequestInv(r)
    BY <1>2, <2>1, FirstLifeStep DEF IInv
  <2>3. CASE Scan \/ Close
    BY <2>0, <2>1, <2>3 DEF RequestInv, Ran, Scan, Close, agency, files, memory
  <2>4. ASSUME NEW r \in Requests,
               \/ ClientSends(r) \/ ClientReads(r) \/ ClientTimesOut(r)
               \/ Skip(r) \/ Take(r) \/ Work(r) \/ Clean(r)
        PROVE  \A q \in Requests : RequestInv(q)'
    <3>1. RequestInv(r)'
      BY <1>2, <2>0, <2>4, RequestStep
    <3>2. ASSUME NEW q \in Requests, q # r PROVE RequestInv(q)'
      <4>1. RequestInv(q)
        BY <2>0
      <4>2. Ran(q)' = Ran(q)
        BY <2>1, <2>4, <3>2, Frame, RanStep DEF Ran
      <4> QED BY <2>1, <2>4, <3>2, <4>1, <4>2, Frame DEF RequestInv
    <3> QED BY <3>1, <3>2
  <2>5. ~Die /\ ~Exit /\ ~Restart
    BY <2>0, <2>1, SpoolAssumption DEF Die, Exit, Restart, FirstLife
  <2> QED BY <2>3, <2>4, <2>5 DEF Next
<1> QED BY <1>1, <1>2, PTL DEF Spec

\* Before it is started again, the agent tells no client that the queue is full
\* whose request it has executed or will execute.
THEOREM BusyMeansNotRun == Spec => []BusyWasNotRun
<1>1. Spec => []IInv
  BY Invariance
<1>2. IInv => BusyWasNotRun
  BY DEF IInv, RequestInv, BusyWasNotRun, InBrowser
<1> QED BY <1>1, <1>2, PTL

\* Before the agent is started again, a request is executed only for a client
\* that has not read a response to it.
THEOREM NothingRunsForTheAnswered == Spec => NothingRunsAfterItsAnswer
<1>1. Spec => []IInv
  BY Invariance
<1>2. IInv /\ [Next]_vars =>
        [\A r \in Requests : FirstLife /\ ran'[r] # ran[r] => client[r] # "answered"]_vars
  <2> SUFFICES ASSUME IInv, Next, FirstLife, NEW q \in Requests, ran'[q] # ran[q]
               PROVE  client[q] # "answered"
    OBVIOUS
  <2>1. PICK r \in Requests : Start(r)
    BY DEF Next, Work, ClientSends, ClientReads, ClientTimesOut, Skip, Take, Look, Clean,
           HandleThrows, EnqueueRefused, Enqueue, Finish, Respond, RespondThrows, Clear,
           Scan, Close, Exit, Die, Restart, memory
  <2>2. q = r /\ job[r] = "queued"
    BY <2>1 DEF Start, Step, IInv, TypeOK
  <2> QED BY <2>2 DEF IInv, RequestInv
<1> QED BY <1>1, <1>2, PTL DEF Spec, NothingRunsAfterItsAnswer

-----------------------------------------------------------------------------
(* Every life of the agent *)

LEMMA Counts ==
  ASSUME TypeOK
  PROVE  /\ lives \in 1..MaxLives /\ lives \in Nat /\ 1..MaxLives \subseteq Nat
         /\ \A r \in Requests, l \in 1..MaxLives : ran[r][l] \in Nat
<1>1. lives \in 1..MaxLives /\ ran \in [Requests -> [1..MaxLives -> Nat]]
  BY DEF TypeOK
<1>2. MaxLives \in Nat
  BY SpoolAssumption
<1> QED BY ONLY <1>1, <1>2

LEMMA LifeStep ==
  ASSUME TypeOK, NEW r \in Requests, LifeInv(r),
         \/ ClientSends(r) \/ ClientReads(r) \/ ClientTimesOut(r)
         \/ Skip(r) \/ Take(r) \/ Work(r) \/ Clean(r)
  PROVE  LifeInv(r)' /\ UNCHANGED agency
<1> DEFINE Past(l) == ran[r][l] <= 1 /\ (l > lives => ran[r][l] = 0)
           Rest == /\ client[r] = "idle" => r \notin request /\ job[r] = "none" /\ Ran(r) = 0
                   /\ agent = "down" => job[r] = "none"
                   /\ agent # "down" /\ job[r] = "none" /\ r \in request => Ran(r) = 0
                   /\ job[r] \in {"accepted", "queued"} => Ran(r) = 0
<1>1. /\ Ran(r) \in Nat /\ lives \in 1..MaxLives /\ Rest
      /\ \A l \in 1..MaxLives : l \in Nat /\ ran[r][l] \in Nat /\ Past(l)
      /\ r \in DOMAIN client /\ r \in DOMAIN job
  BY Counts DEF TypeOK, Ran, LifeInv
<1>2. /\ lives' = lives
      /\ \/ UNCHANGED ran /\ Ran(r)' = Ran(r)
         \/ /\ job[r] = "queued" /\ job'[r] = "running" /\ Ran(r)' = Ran(r) + 1
            /\ \A l \in 1..MaxLives : l # lives => ran'[r][l] = ran[r][l]
  BY RanStep
<1>3. \A l \in 1..MaxLives : Past(l)'
  <2>1. CASE UNCHANGED ran
    BY <1>1, <1>2, <2>1
  <2>2. CASE /\ job[r] = "queued" /\ Ran(r)' = Ran(r) + 1
             /\ \A l \in 1..MaxLives : l # lives => ran'[r][l] = ran[r][l]
    <3>1. Ran(r) = 0
      BY <1>1, <2>2
    <3>2. ran'[r][lives] = 1 /\ \A l \in 1..MaxLives : l # lives => ran'[r][l] = ran[r][l]
      BY <1>1, <1>2, <2>2, <3>1 DEF Ran
    <3> QED BY <1>1, <1>2, <3>2
  <2> QED BY <1>2, <2>1, <2>2
<1>4. Rest' /\ UNCHANGED agency
  <2> USE <1>1, <1>2 DEF agency, memory, files
  <2>2. CASE ClientSends(r) \/ ClientReads(r) \/ ClientTimesOut(r)
    BY <2>2 DEF ClientSends, ClientReads, ClientTimesOut
  <2>3. CASE Skip(r) \/ Take(r)
    BY <2>3 DEF Skip, Take, Skips, Look
  <2>4. CASE Clean(r)
    BY <2>4 DEF Clean, Stale
  <2>5. CASE HandleThrows(r) \/ EnqueueRefused(r) \/ Enqueue(r)
    BY <2>5 DEF HandleThrows, EnqueueRefused, Enqueue, Step, Answer
  <2>6. CASE Start(r)
    BY <2>6 DEF Start, Step
  <2>7. CASE Finish(r)
    BY <2>7 DEF Finish, Step, Answer
  <2>8. CASE Respond(r) \/ RespondThrows(r) \/ Clear(r)
    BY <2>8 DEF Respond, RespondThrows, Clear, Step, Answer
  <2> HIDE DEF Rest
  <2> QED BY <2>2, <2>3, <2>4, <2>5, <2>6, <2>7, <2>8 DEF Work
<1> QED BY <1>3, <1>4 DEF LifeInv

\* However often the agent is stopped, dies and starts again, each life of it
\* executes a request at most once, whatever its overlapping scans list.
THEOREM OnceInEachLife == Spec => []OncePerLife
<1> DEFINE Inv == TypeOK /\ \A r \in Requests : LifeInv(r)
<1>1. Init => Inv
  <2>1. Init => \A r \in Requests : Ran(r) = 0 /\ \A l \in 1..MaxLives : ran[r][l] = 0
    BY SpoolAssumption DEF Init, Ran
  <2> QED BY <2>1, InitType DEF Init, LifeInv
<1>2. ASSUME Inv, [Next]_vars PROVE Inv'
  <2>1. TypeOK /\ TypeOK'
    BY <1>2, NextType
  <2>2. \A r \in Requests : LifeInv(r)
    BY <1>2
  <2> SUFFICES ASSUME NEW q \in Requests PROVE LifeInv(q)'
    BY <2>1
  <2>3. CASE UNCHANGED vars
    BY <2>2, <2>3 DEF LifeInv, Ran, vars, agency
  <2>4. CASE Scan \/ Close
    BY <2>2, <2>4 DEF LifeInv, Ran, Scan, Close, agency, memory, files
  <2>5. CASE Exit \/ Die
    <3>1. /\ job' = [r \in Requests |-> "none"] /\ agent' = "down"
          /\ UNCHANGED <<client, request, response, lives, ran>>
      BY <2>5 DEF Exit, Die, ForgetsJobs, files
    <3> QED BY <2>2, <3>1 DEF LifeInv, Ran
  <2>6. CASE Restart
    <3>1. /\ agent = "down" /\ lives' = lives + 1 /\ UNCHANGED <<client, request, job, ran>>
          /\ lives \in Nat /\ lives' \in 1..MaxLives /\ 1..MaxLives \subseteq Nat
      BY <2>1, <2>6, Counts DEF Restart, TypeOK, memory, files
    <3>2. \A l \in 1..MaxLives :
            /\ ran[q][l] <= 1 /\ (l > lives => ran[q][l] = 0)
            /\ l > lives' => l > lives
      BY <2>2, <3>1 DEF LifeInv
    <3>3. Ran(q)' = 0
      BY <3>1, <3>2 DEF Ran
    <3> QED BY <2>2, <3>1, <3>2, <3>3 DEF LifeInv
  <2>7. ASSUME NEW r \in Requests,
               \/ ClientSends(r) \/ ClientReads(r) \/ ClientTimesOut(r)
               \/ Skip(r) \/ Take(r) \/ Work(r) \/ Clean(r)
        PROVE  LifeInv(q)'
    <3>1. LifeInv(r)' /\ UNCHANGED <<agent, lives>>
      BY <2>1, <2>2, <2>7, LifeStep DEF agency
    <3>2. CASE q # r
      BY <2>1, <2>2, <2>7, <3>1, <3>2, Frame DEF LifeInv, Ran
    <3> QED BY <3>1, <3>2
  <2> QED BY <1>2, <2>3, <2>4, <2>5, <2>6, <2>7 DEF Next
<1>3. Inv => OncePerLife
  BY DEF LifeInv, OncePerLife
<1> QED BY <1>1, <1>2, <1>3, PTL DEF Spec

-----------------------------------------------------------------------------
(* The browsers *)

\* In every life of the agent a provider's browser serves one request at most.
THEOREM BrowsersAreSerial == Spec => []OnePerProvider
<1> DEFINE Inv == TypeOK /\ OnePerProvider
<1>1. Init => Inv
  BY InitType DEF Init, OnePerProvider
<1>2. ASSUME Inv, [Next]_vars PROVE Inv'
  <2>1. TypeOK /\ TypeOK'
    BY <1>2, NextType
  <2> SUFFICES OnePerProvider'
    BY <2>1
  <2>2. ASSUME NEW r \in Requests, Start(r) PROVE OnePerProvider'
    <3>1. \A q \in Requests : job[q] = "running" => ProviderOf[q] # ProviderOf[r]
      BY <2>2 DEF Start, Running
    <3>2. job' = [job EXCEPT ![r] = "running"]
      BY <2>2 DEF Start, Step
    <3> QED BY <1>2, <2>1, <3>1, <3>2 DEF OnePerProvider, TypeOK
  <2>3. CASE ~ \E r \in Requests : Start(r)
    <3>1. \A q \in Requests : job'[q] = "running" => job[q] = "running"
      <4>1. CASE UNCHANGED vars
        BY <4>1 DEF vars
      <4>2. CASE Scan \/ Close \/ Exit \/ Die \/ Restart
        BY <4>2 DEF Scan, Close, Exit, Die, Restart, ForgetsJobs, memory
      <4>3. ASSUME NEW r \in Requests,
                   \/ ClientSends(r) \/ ClientReads(r) \/ ClientTimesOut(r)
                   \/ Skip(r) \/ Take(r) \/ Clean(r)
            PROVE  \A q \in Requests : job'[q] = "running" => job[q] = "running"
        BY <2>1, <4>3
           DEF TypeOK, ClientSends, ClientReads, ClientTimesOut, Skip, Take, Look, Clean, memory
      <4>4. ASSUME NEW r \in Requests, Work(r)
            PROVE  \A q \in Requests : job'[q] = "running" => job[q] = "running"
        <5>1. \E to \in Jobs \ {"running"} : job' = [job EXCEPT ![r] = to]
          BY <2>3, <4>4
             DEF Work, HandleThrows, EnqueueRefused, Enqueue, Finish, Respond, RespondThrows,
                 Clear, Step, Jobs
        <5> QED BY <2>1, <5>1 DEF TypeOK
      <4> QED BY <1>2, <4>1, <4>2, <4>3, <4>4 DEF Next
    <3> QED BY <1>2, <3>1 DEF OnePerProvider
  <2> QED BY <2>2, <2>3
<1> QED BY <1>1, <1>2, PTL DEF Spec

\* Only Enqueue makes a request wait for a browser.
LEMMA QueuedSteps ==
  ASSUME TypeOK, [Next]_vars
  PROVE  \/ Queued' \subseteq Queued
         \/ \E r \in Requests : Enqueue(r) /\ Queued' = Queued \cup {r}
<1>1. CASE UNCHANGED vars
  BY <1>1 DEF Queued, vars
<1>2. CASE Scan \/ Close \/ Exit \/ Die \/ Restart
  BY <1>2 DEF Queued, Scan, Close, Exit, Die, Restart, ForgetsJobs, memory
<1>3. ASSUME NEW r \in Requests,
             \/ ClientSends(r) \/ ClientReads(r) \/ ClientTimesOut(r)
             \/ Skip(r) \/ Take(r) \/ Clean(r)
      PROVE  Queued' \subseteq Queued
  BY <1>3
     DEF TypeOK, Queued, ClientSends, ClientReads, ClientTimesOut, Skip, Take, Look, Clean, memory
<1>4. ASSUME NEW r \in Requests, Work(r), ~Enqueue(r)
      PROVE  Queued' \subseteq Queued
  <2>1. \E to \in Jobs \ {"queued"} : job' = [job EXCEPT ![r] = to]
    BY <1>4
       DEF Work, HandleThrows, EnqueueRefused, Start, Finish, Respond, RespondThrows,
           Clear, Step, Jobs
  <2> QED BY <2>1 DEF TypeOK, Queued
<1>5. ASSUME NEW r \in Requests, Enqueue(r)
      PROVE  Queued' = Queued \cup {r}
  BY <1>5 DEF TypeOK, Queued, Enqueue, Step
<1> QED BY <1>1, <1>2, <1>3, <1>4, <1>5 DEF Next

\* The deliveries and analyses that wait for a browser stay within the limit in
\* every life of the agent, however many session controls wait with them.
THEOREM QueuesStayWithinTheLimit == Spec => []LimitHolds
<1> DEFINE Inv == TypeOK /\ IsFiniteSet(Queued) /\ LimitHolds
<1>1. Init => Inv
  <2> SUFFICES ASSUME Init PROVE Inv
    OBVIOUS
  <2>1. Queued = {} /\ Queued \ Control = {}
    BY DEF Init, Queued
  <2> QED BY <2>1, InitType, FS_EmptySet, SpoolAssumption DEF LimitHolds
<1>2. ASSUME Inv, [Next]_vars PROVE Inv'
  <2>1. TypeOK'
    BY <1>2, NextType
  <2>2. /\ IsFiniteSet(Queued) /\ IsFiniteSet(Queued \ Control)
        /\ Cardinality(Queued) \in Nat /\ Cardinality(Queued \ Control) \in Nat
        /\ Cardinality(Queued \ Control) <= Cardinality(Queued) /\ MaxQueued \in Nat
    BY <1>2, FS_Subset, FS_CardinalityType, SpoolAssumption
  <2>3. CASE Queued' \subseteq Queued
    <3>1. IsFiniteSet(Queued')
      BY <2>2, <2>3, FS_Subset
    <3>2. (Queued \ Control)' \subseteq Queued \ Control
      BY <2>3
    <3>3. /\ IsFiniteSet((Queued \ Control)')
          /\ Cardinality((Queued \ Control)') <= Cardinality(Queued \ Control)
      BY <2>2, <3>2, FS_Subset
    <3>4. Cardinality((Queued \ Control)') \in Nat
      BY <3>3, FS_CardinalityType
    <3> QED BY <1>2, <2>1, <2>2, <3>1, <3>3, <3>4 DEF LimitHolds
  <2>4. ASSUME NEW r \in Requests, Enqueue(r), Queued' = Queued \cup {r}
        PROVE  Inv'
    <3>1. IsFiniteSet(Queued')
      BY <2>2, <2>4, FS_AddElement
    <3>2. CASE r \in Control
      <4>1. (Queued \ Control)' = Queued \ Control
        BY <2>4, <3>2
      <4> QED BY <1>2, <2>1, <3>1, <4>1 DEF LimitHolds
    <3>3. CASE r \notin Control
      <4>1. (Queued \ Control)' = (Queued \ Control) \cup {r}
        BY <2>4, <3>3
      <4>2. Cardinality(Queued) < MaxQueued
        BY <2>2, <2>4, <3>3 DEF Enqueue, Full
      <4>3. /\ IsFiniteSet((Queued \ Control)')
            /\ Cardinality((Queued \ Control)') <= Cardinality(Queued \ Control) + 1
        BY <2>2, <4>1, FS_AddElement
      <4>4. Cardinality((Queued \ Control)') \in Nat
        BY <4>3, FS_CardinalityType
      <4> QED BY <2>1, <2>2, <3>1, <4>2, <4>3, <4>4 DEF LimitHolds
    <3> QED BY <3>2, <3>3
  <2> QED BY <1>2, <2>3, <2>4, QueuedSteps
<1> QED BY <1>1, <1>2, PTL DEF Spec

=============================================================================
