----------------------- MODULE MutationReceipts_proofs -----------------------
(***************************************************************************)
(* MutationReceipts for any number of runs and reuses: type correctness,   *)
(* and, under Calm, that no roster becomes two lists and that both files   *)
(* record what a caller reports.  Without a reconciliation Calm asks       *)
(* nothing of what fails; beside one it asks that nothing is refused.      *)
(***************************************************************************)
EXTENDS MutationReceipts, TLAPS

\* The leases taken and given back keep their types.
LEMMA ReleaseType ==
  ASSUME TypeOK, NEW a \in Actors, ReleaseOnce(a)
  PROVE  holder' \in Actors \cup {Nobody} /\ inside' \subseteq Actors
BY DEF TypeOK, ReleaseOnce, Lease!Drop

\* Replacing the file by a changed copy keeps the types of both.
LEMMA WriteType ==
  ASSUME TypeOK, NEW a \in Actors, NEW w \in Writers, NEW o \in Outcomes, Write(a, w, o)
  PROVE  receipt' \in Receipts /\ copy' \in [Actors -> Receipts]
BY DEF TypeOK, Write, Receipts

LEMMA ReadType ==
  ASSUME TypeOK, NEW a \in Actors, Read(a)
  PROVE  copy' \in [Actors -> Receipts]
BY DEF TypeOK, Read

LEMMA InitType == Init => TypeOK
BY ReceiptAssumption DEF Init, TypeOK, Lease!Init, NoAttempts, Receipts, Outcomes, Terminal

LEMMA NextType == TypeOK /\ [Next]_vars => TypeOK'
<1> SUFFICES ASSUME TypeOK, [Next]_vars PROVE TypeOK'
  OBVIOUS
<1> USE DEF Writers, Actors, Terminal, Goto
<1>1. CASE UNCHANGED vars
  BY <1>1 DEF TypeOK, vars
<1>2. CASE ReclaimLease
  BY <1>2 DEF TypeOK, ReclaimLease, Lease!Reclaim
<1>3. ASSUME NEW a \in Actors, AcquireLease(a) \/ Die(a) PROVE TypeOK'
  BY <1>3 DEF TypeOK, AcquireLease, Die, Lease!Take, Lease!Die
<1>4. ASSUME NEW r \in Runs, RemoteRuns(r) PROVE TypeOK'
  BY <1>4 DEF TypeOK, RemoteRuns
<1>5. ASSUME NEW a \in Actors,
             RecordReliability(a) \/ Fail(a, "leased") \/ Fail(a, "appending")
               \/ Fail(a, "finalizing") \/ Fail(a, "indexing")
      PROVE  TypeOK'
  BY <1>5, ReleaseType DEF TypeOK, RecordReliability, Fail
<1>6. ASSUME NEW w \in Writers, IndexAndRelease(w) PROVE TypeOK'
  BY <1>6, ReleaseType DEF TypeOK, IndexAndRelease, Entries
<1>7. ASSUME NEW r \in Runs, RunStep(r) PROVE TypeOK'
  <2>1. CASE BeginRefused(r) \/ BeginAccepted(r)
    BY <2>1, ReleaseType, ReadType DEF TypeOK, BeginRefused, BeginAccepted, Entries
  <2>2. CASE BeginWrite(r) \/ ObserveWrite(r)
    BY <2>2, WriteType DEF TypeOK, BeginWrite, ObserveWrite, Outcomes, Unresolved
  <2>3. CASE FinalizeWrite(r)
    BY <2>3, WriteType DEF TypeOK, FinalizeWrite, Outcomes, Unresolved
  <2>4. CASE Dispatch(r)
    BY <2>4 DEF TypeOK, Dispatch
  <2>5. CASE Answered(r) \/ AnswerLost(r) \/ FinalizeAgain(r) \/ GiveUp(r) \/ ObserveThrows(r)
    BY <2>5 DEF TypeOK, Answered, AnswerLost, FinalizeAgain, GiveUp, ObserveThrows,
                Conclusions, Final
  <2>6. CASE ObserveRead(r) \/ FinalizeRead(r) \/ FinalizeSame(r)
    BY <2>6, ReadType DEF TypeOK, ObserveRead, FinalizeRead, FinalizeSame
  <2>7. CASE FinalizeThrows(r) \/ IndexThrows(r)
    BY <2>7, ReleaseType DEF TypeOK, FinalizeThrows, IndexThrows, Throw
  <2> QED BY <1>5, <1>6, <1>7, <2>1, <2>2, <2>3, <2>4, <2>5, <2>6, <2>7 DEF RunStep
<1>8. ASSUME NEW c \in Reconcilers, ReconcileStep(c) \/ ReconcileReleases(c) PROVE TypeOK'
  <2>1. CASE ReconcileRefused(c)
    BY <2>1, ReleaseType DEF TypeOK, ReconcileRefused, Entries
  <2>2. CASE ReconcileRead(c)
    BY <2>2 DEF TypeOK, ReconcileRead, Inspection, Receipts, Outcomes, Unresolved, Final
  <2>3. CASE ReconcileWrite(c)
    BY <2>3, WriteType DEF TypeOK, ReconcileWrite, Outcomes, Unresolved
  <2>4. CASE ReconcileReleases(c) \/ ReconcileIndexes(c)
    BY <2>4 DEF TypeOK, ReconcileReleases, ReconcileIndexes, Lease!Drop, Entries
  <2> QED BY <1>5, <1>8, <2>1, <2>2, <2>3, <2>4 DEF ReconcileStep
<1>9. ASSUME NEW u \in Reusers, ReuseStep(u) PROVE TypeOK'
  <2>1. CASE ReuseRefused(u) \/ ReuseRead(u)
    BY <2>1, ReleaseType, ReadType DEF TypeOK, ReuseRefused, ReuseRead
  <2>2. CASE ReuseWrite(u)
    BY <2>2, WriteType DEF TypeOK, ReuseWrite, Outcomes, Final
  <2> QED BY <1>5, <1>6, <1>9, <2>1, <2>2 DEF ReuseStep
<1> QED BY <1>1, <1>2, <1>3, <1>4, <1>7, <1>8, <1>9 DEF Next

\* Every variable keeps its type, with reconciliations too.
THEOREM TypeCorrect == Spec => []TypeOK
BY InitType, NextType, PTL DEF Spec

-----------------------------------------------------------------------------
(* The writers: what they do, they do beside a reconciliation too.          *)

LEMMA InitWriters == Init => WritersInv
<1>1. Init => TypeOK
  BY InitType
<1> QED
  BY <1>1, ReceiptAssumption
     DEF Init, WritersInv, LeaseInv, VerdictInv, CopyInv, AttemptInv, NothingForgotten,
         TruthfulReceipt, Lease!Init, NoAttempts, Blocking, Unresolved, Final,
         Writers, Actors, Terminal, Obstacles

\* The invariant is about the file, not about the inventory, and what the
\* browser worker does is what a queued attempt already allows for.
LEMMA LeaseSteps ==
  ASSUME TypeOK, WritersInv, TypeOK',
         \/ ReclaimLease
         \/ \E a \in Actors : AcquireLease(a) \/ Die(a)
         \/ \E r \in Runs : RemoteRuns(r)
  PROVE  WritersInv'
<1> USE ReceiptAssumption DEF WritersInv, TypeOK, LeaseInv, VerdictInv, CopyInv, AttemptInv,
        NothingForgotten, TruthfulReceipt, Writers, Actors, Terminal, Goto, Obstacles,
        Blocking, Unresolved, Final
<1>1. CASE ReclaimLease
  BY <1>1 DEF ReclaimLease, Lease!Reclaim
<1>2. ASSUME NEW a \in Actors, AcquireLease(a) PROVE WritersInv'
  BY <1>2 DEF AcquireLease, Lease!Take
<1>3. ASSUME NEW a \in Actors, Die(a) PROVE WritersInv'
  BY <1>3 DEF Die, Lease!Die
<1>4. ASSUME NEW r \in Runs, RemoteRuns(r) PROVE WritersInv'
  BY <1>4 DEF RemoteRuns
<1> QED BY <1>1, <1>2, <1>3, <1>4

LEMMA BeginSteps ==
  ASSUME TypeOK, WritersInv, TypeOK', NEW r \in Runs,
         BeginRefused(r) \/ BeginAccepted(r) \/ BeginWrite(r) \/ Dispatch(r)
           \/ Answered(r) \/ AnswerLost(r)
  PROVE  WritersInv'
<1> USE ReceiptAssumption DEF WritersInv, TypeOK, LeaseInv, VerdictInv, CopyInv, AttemptInv,
        NothingForgotten, TruthfulReceipt, Writers, Actors, Terminal, Goto, Obstacles,
        Blocking, Unresolved, Final
<1>1. CASE BeginRefused(r)
  BY <1>1 DEF BeginRefused, ReleaseOnce, Lease!Drop
<1>2. CASE BeginAccepted(r)
  BY <1>2 DEF BeginAccepted, Read, Blocked, Created
<1>3. CASE BeginWrite(r)
  BY <1>3 DEF BeginWrite, Write, Receipts
<1>4. CASE Dispatch(r)
  BY <1>4 DEF Dispatch
<1>5. CASE Answered(r)
  BY <1>5 DEF Answered, Conclusions
<1>6. CASE AnswerLost(r)
  BY <1>6 DEF AnswerLost
<1> QED BY <1>1, <1>2, <1>3, <1>4, <1>5, <1>6

LEMMA FinalizeSteps ==
  ASSUME TypeOK, WritersInv, TypeOK', NEW r \in Runs,
         \/ ObserveRead(r) \/ ObserveThrows(r) \/ ObserveWrite(r)
         \/ FinalizeRead(r) \/ FinalizeSame(r) \/ FinalizeThrows(r) \/ FinalizeWrite(r)
         \/ IndexThrows(r) \/ FinalizeAgain(r) \/ GiveUp(r)
  PROVE  WritersInv'
<1> USE ReceiptAssumption DEF WritersInv, TypeOK, LeaseInv, VerdictInv, CopyInv, AttemptInv,
        NothingForgotten, TruthfulReceipt, Writers, Actors, Terminal, Goto, Obstacles,
        Blocking, Unresolved, Final
<1>1. CASE ObserveRead(r)
  BY <1>1 DEF ObserveRead, Read
<1>2. CASE ObserveThrows(r)
  BY <1>2 DEF ObserveThrows
<1>3. CASE ObserveWrite(r)
  <2>0. /\ pc[r] = "observing" /\ holder = r /\ copy[r] = receipt
        /\ pc' = [pc EXCEPT ![r] = "finalize"]
        /\ UNCHANGED <<holder, inside, remote, verdict>>
    BY <1>3 DEF ObserveWrite
  <2>1. /\ receipt' = [receipt EXCEPT ![r] = "observed"]
        /\ \A a \in Actors \ {r} : copy'[a] = copy[a]
    BY <1>3, <2>0 DEF ObserveWrite, Write, Receipts
  <2>2. /\ receipt[r] \in {"pending", "observed"}
        /\ \A w \in Writers \ {r} : receipt[w] \notin Blocking
    BY <2>0
  <2>3. \A a \in Writers \ {r} :
          pc[a] \notin {"appending", "ready", "sent", "observing", "finalizing", "written"}
    BY <2>0, <2>2
  <2>4. LeaseInv' /\ VerdictInv'
    BY <2>0
  <2>5. CopyInv'
    BY <2>0, <2>1, <2>2, <2>3 DEF Receipts
  <2>6. AttemptInv' /\ NothingForgotten' /\ TruthfulReceipt'
    BY <2>0, <2>1, <2>2, <2>3 DEF Receipts
  <2> QED BY <2>4, <2>5, <2>6
<1>4. CASE FinalizeRead(r) \/ FinalizeSame(r)
  BY <1>4 DEF FinalizeRead, FinalizeSame, Read
<1>5. CASE FinalizeThrows(r) \/ IndexThrows(r)
  BY <1>5 DEF FinalizeThrows, IndexThrows, Throw, ReleaseOnce, Lease!Drop
<1>6. CASE FinalizeWrite(r)
  BY <1>6 DEF FinalizeWrite, Write, Receipts
<1>7. CASE FinalizeAgain(r) \/ GiveUp(r)
  BY <1>7 DEF FinalizeAgain, GiveUp
<1> QED BY <1>1, <1>2, <1>3, <1>4, <1>5, <1>6, <1>7

LEMMA CommonSteps ==
  ASSUME TypeOK, WritersInv, TypeOK', NEW w \in Writers,
         \/ RecordReliability(w) \/ IndexAndRelease(w)
         \/ Fail(w, "leased") \/ Fail(w, "appending")
         \/ w \in Reusers /\ Fail(w, "indexing")
  PROVE  WritersInv'
<1> USE ReceiptAssumption DEF WritersInv, TypeOK, LeaseInv, VerdictInv, CopyInv, AttemptInv,
        NothingForgotten, TruthfulReceipt, Writers, Actors, Terminal, Goto, Obstacles,
        Blocking, Unresolved, Final
<1>1. CASE RecordReliability(w)
  BY <1>1 DEF RecordReliability
<1>2. CASE IndexAndRelease(w)
  BY <1>2 DEF IndexAndRelease, ReleaseOnce, Lease!Drop
<1>3. CASE Fail(w, "leased") \/ Fail(w, "appending")
  BY <1>3 DEF Fail, ReleaseOnce, Lease!Drop
<1>4. CASE w \in Reusers /\ Fail(w, "indexing")
  BY <1>4 DEF Fail, ReleaseOnce, Lease!Drop
<1> QED BY <1>1, <1>2, <1>3, <1>4

LEMMA ReuseSteps ==
  ASSUME TypeOK, WritersInv, TypeOK', NEW u \in Reusers,
         ReuseRefused(u) \/ ReuseRead(u) \/ ReuseWrite(u)
  PROVE  WritersInv'
<1> USE ReceiptAssumption DEF WritersInv, TypeOK, LeaseInv, VerdictInv, CopyInv, AttemptInv,
        NothingForgotten, TruthfulReceipt, Writers, Actors, Terminal, Goto, Obstacles,
        Blocking, Unresolved, Final
<1>1. CASE ReuseRefused(u)
  BY <1>1 DEF ReuseRefused, ReleaseOnce, Lease!Drop
<1>2. CASE ReuseRead(u)
  BY <1>2 DEF ReuseRead, Read, Blocked
<1>3. CASE ReuseWrite(u)
  <2>0. /\ pc[u] = "appending" /\ holder = u /\ copy[u] = receipt
        /\ pc' = [pc EXCEPT ![u] = "written"]
        /\ UNCHANGED <<holder, inside, remote, verdict>>
    BY <1>3 DEF ReuseWrite
  <2>1. /\ receipt' = [receipt EXCEPT ![u] = "reused"] /\ copy'[u] = receipt'
        /\ \A a \in Actors \ {u} : copy'[a] = copy[a]
    BY <1>3, <2>0 DEF ReuseWrite, Write, Receipts
  <2>2. \A w \in Writers : receipt[w] \notin Unresolved
    BY <2>0
  <2>3. \A a \in Writers \ {u} :
          /\ holder # a
          /\ pc[a] \notin {"appending", "observing", "finalizing"}
    BY <2>0, <2>2
  <2>4. \A a \in Writers \ {u} : pc[a] # "written"
    BY <2>0, <2>2
  <2>5. LeaseInv' /\ VerdictInv'
    BY <2>0
  <2>6. CopyInv'
    BY <2>0, <2>1, <2>2, <2>3, <2>4 DEF Receipts
  <2>7. AttemptInv' /\ NothingForgotten' /\ TruthfulReceipt'
    BY <2>0, <2>1, <2>2 DEF Receipts
  <2> QED BY <2>5, <2>6, <2>7
<1> HIDE DEF WritersInv, TypeOK
<1> QED BY <1>1, <1>2, <1>3

\* What actor a does in its own name.
ActorStep(a) ==
  \/ AcquireLease(a) \/ Die(a)
  \/ a \in Runs /\ RunStep(a)
  \/ a \in Reusers /\ ReuseStep(a)
  \/ a \in Reconcilers /\ (ReconcileStep(a) \/ ReconcileReleases(a))

LEMMA NextIsActors ==
  Next <=> ReclaimLease \/ (\E r \in Runs : RemoteRuns(r)) \/ \E a \in Actors : ActorStep(a)
BY DEF Next, ActorStep, Actors, Writers

\* A step of one caller leaves what another has read and concluded.
LEMMA OneCallerMoves ==
  ASSUME TypeOK, NEW a \in Actors, NEW w \in Actors, a # w, ActorStep(a)
  PROVE  pc'[w] = pc[w] /\ copy'[w] = copy[w] /\ verdict'[w] = verdict[w]
<1> USE DEF TypeOK, Goto
<1>1. CASE AcquireLease(a) \/ Die(a) \/ RecordReliability(a) \/ IndexAndRelease(a)
           \/ \E from : Fail(a, from)
  BY <1>1 DEF AcquireLease, Die, RecordReliability, IndexAndRelease, Fail
<1>2. CASE BeginRefused(a) \/ BeginAccepted(a) \/ BeginWrite(a) \/ Dispatch(a)
  BY <1>2 DEF BeginRefused, BeginAccepted, BeginWrite, Dispatch, Read, Write
<1>3. CASE Answered(a) \/ AnswerLost(a) \/ ObserveRead(a) \/ ObserveThrows(a) \/ ObserveWrite(a)
  BY <1>3 DEF Answered, AnswerLost, ObserveRead, ObserveThrows, ObserveWrite, Read, Write
<1>4. CASE FinalizeRead(a) \/ FinalizeSame(a) \/ FinalizeThrows(a) \/ FinalizeWrite(a)
  BY <1>4 DEF FinalizeRead, FinalizeSame, FinalizeThrows, FinalizeWrite, Throw, Read, Write
<1>5. CASE IndexThrows(a) \/ FinalizeAgain(a) \/ GiveUp(a)
  BY <1>5 DEF IndexThrows, FinalizeAgain, GiveUp, Throw
<1>6. CASE ReuseRefused(a) \/ ReuseRead(a) \/ ReuseWrite(a)
  BY <1>6 DEF ReuseRefused, ReuseRead, ReuseWrite, Read, Write
<1>7. CASE ReconcileRefused(a) \/ ReconcileRead(a) \/ ReconcileWrite(a) \/ ReconcileIndexes(a)
           \/ ReconcileReleases(a)
  BY <1>7 DEF ReconcileRefused, ReconcileRead, ReconcileWrite, ReconcileIndexes, ReconcileReleases,
              Write
<1> HIDE DEF TypeOK
<1> QED BY <1>1, <1>2, <1>3, <1>4, <1>5, <1>6, <1>7 DEF ActorStep, RunStep, ReuseStep, ReconcileStep

-----------------------------------------------------------------------------
(* The reconciliation *)

\* Beside a reconciliation a run that is at work has its lease.
Orderly(r) ==
  /\ pc[r] # "thrown"
  /\ pc[r] \in {"finalize", "finalizing", "written", "indexing"} => holder = r
  /\ pc[r] \in {"observe", "finalize"} => receipt[r] \in {"pending", "observed"}

\* What is known of a caller that reconciles.
Reconciling(c) ==
  /\ pc[c] \in {"idle", "leased", "finalizing", "written", "indexing"} \cup Terminal
  /\ pc[c] = "finalizing" =>
       /\ \A w \in Writers : holder = w => pc[w] \in {"leased", "dead"}
       /\ \E r \in Runs :
            /\ receipt[r] \in Unresolved /\ copy[c] = [receipt EXCEPT ![r] = "pending"]
            /\ remote[r] # "queued" /\ verdict[c] \in Inspection(r)
  /\ \A r \in Runs : Orderly(r)

LEMMA ReconcileParts == ReconcileInv <=> \A c \in Reconcilers : Reconciling(c)
BY DEF ReconcileInv, Reconciling, Orderly

\* The attempt that is resolved is the one in the copy that is pending.
LEMMA OnlyOnePending ==
  ASSUME TypeOK, WritersInv, NEW c \in Reconcilers, Reconciling(c), ReconcileWrite(c)
  PROVE  \E r \in Runs :
           /\ receipt[r] \in Unresolved /\ remote[r] # "queued" /\ verdict[c] \in Inspection(r)
           /\ receipt' = [receipt EXCEPT ![r] = verdict[c]]
           /\ copy' = [copy EXCEPT ![c] = receipt']
           /\ \A w \in Writers : holder = w => pc[w] \in {"leased", "dead"}
<1>1. c \in Actors /\ pc[c] = "finalizing"
  BY DEF ReconcileWrite, Goto, Actors
<1>2. PICK r \in Runs : /\ receipt[r] \in Unresolved /\ copy[c] = [receipt EXCEPT ![r] = "pending"]
                        /\ remote[r] # "queued" /\ verdict[c] \in Inspection(r)
  BY <1>1 DEF Reconciling
<1>3. PICK s \in Runs : copy[c][s] = "pending" /\ Write(c, s, verdict[c])
  BY DEF ReconcileWrite
<1>4. receipt \in [Writers -> Outcomes] /\ copy \in [Actors -> Receipts] /\ r \in Writers /\ s \in Writers
  BY DEF TypeOK, Receipts, Writers
<1>5. s = r
  <2>1. s # r => receipt[s] = "pending"
    BY <1>2, <1>3, <1>4
  <2> QED BY <1>2, <1>4, <2>1 DEF WritersInv, AttemptInv, Blocking, Unresolved
<1>6. copy'[c] = [copy[c] EXCEPT ![r] = verdict[c]] /\ receipt' = copy'[c]
  BY <1>1, <1>3, <1>4, <1>5 DEF Write
<1>7. receipt' = [receipt EXCEPT ![r] = verdict[c]]
  BY <1>2, <1>4, <1>6
<1>8. copy' = [copy EXCEPT ![c] = receipt']
  BY <1>3, <1>4, <1>6 DEF Write
<1> QED BY <1>1, <1>2, <1>7, <1>8 DEF Reconciling

\* What the inspection may conclude, and that it concludes something.
LEMMA InspectionIsFinal ==
  ASSUME NEW r \in Runs, NEW v \in Inspection(r)
  PROVE  /\ v \in Final /\ v # "none"
         /\ v = "created" <=> remote[r] = "created"
BY DEF Inspection, Final

\* To the writers a reconciliation is a caller that resolves what blocks them.
LEMMA ReconcileSteps ==
  ASSUME Calm, TypeOK, WritersInv, ReconcileInv, TypeOK', NEW c \in Reconcilers,
         ReconcileStep(c) \/ ReconcileReleases(c)
  PROVE  WritersInv'
<1>1. c \in Actors /\ c \notin Writers /\ ~WritesFail /\ ~ReliabilityFails /\ Reconciling(c)
  BY ReceiptAssumption, ReconcileParts DEF Calm, Actors, Writers
<1>2. \A w \in Writers : w # c /\ pc'[w] = pc[w] /\ copy'[w] = copy[w] /\ verdict'[w] = verdict[w]
  BY <1>1, OneCallerMoves DEF ActorStep, Actors
<1>3. /\ remote' = remote
      /\ LeaseInv'
  <2>1. CASE ReconcileRefused(c) \/ ReconcileReleases(c)
    <3>1. /\ pc[c] \in {"idle", "leased", "finalizing", "written", "indexing"} \cup Terminal
          /\ Nobody \notin Actors
      BY <1>1, ReceiptAssumption DEF Reconciling, Actors, Writers
    <3> QED BY <1>1, <2>1, <3>1
            DEF ReconcileRefused, ReconcileReleases, ReleaseOnce, Lease!Drop, Goto, TypeOK, WritersInv,
                LeaseInv, Actors, Terminal
  <2>2. CASE ReconcileRead(c) \/ ReconcileWrite(c) \/ RecordReliability(c) \/ ReconcileIndexes(c)
    BY <1>1, <2>2, ReceiptAssumption
       DEF ReconcileRead, ReconcileWrite, RecordReliability, ReconcileIndexes, Goto, TypeOK,
           WritersInv, LeaseInv, Actors, Terminal
  <2> QED BY <1>1, <2>1, <2>2 DEF ReconcileStep, Fail
<1>4. \A w \in Writers : holder' = w <=> holder = w
  BY <1>1, <1>3, ReceiptAssumption
     DEF ReconcileStep, ReconcileReleases, ReconcileRefused, ReconcileRead, ReconcileWrite,
         RecordReliability, ReconcileIndexes, Fail, ReleaseOnce, Lease!Drop, Writers
<1>5. CASE UNCHANGED receipt
  <2>1. VerdictInv'
    BY <1>2, <1>3, <1>4 DEF WritersInv, VerdictInv, Writers
  <2>2. CopyInv'
    BY <1>2, <1>4, <1>5 DEF WritersInv, CopyInv
  <2>3. AttemptInv' /\ NothingForgotten' /\ TruthfulReceipt'
    BY <1>2, <1>3, <1>5 DEF WritersInv, AttemptInv, NothingForgotten, TruthfulReceipt, Writers
  <2> QED BY <1>3, <2>1, <2>2, <2>3 DEF WritersInv
<1>6. CASE ReconcileWrite(c)
  <2>1. PICK r \in Runs :
           /\ receipt[r] \in Unresolved /\ remote[r] # "queued" /\ verdict[c] \in Inspection(r)
           /\ receipt' = [receipt EXCEPT ![r] = verdict[c]]
           /\ \A w \in Writers : holder = w => pc[w] \in {"leased", "dead"}
    BY <1>1, <1>6, OnlyOnePending
  <2>2. /\ r \in Writers /\ receipt \in [Writers -> Outcomes]
        /\ verdict[c] \in Final /\ (verdict[c] = "created" <=> remote[r] = "created")
    BY <2>1, InspectionIsFinal DEF TypeOK, Receipts, Writers
  <2>3. receipt'[r] = verdict[c] /\ \A w \in Writers \ {r} : receipt'[w] = receipt[w]
    BY <2>1, <2>2
  <2>4. \A w \in Writers :
          pc[w] \notin {"appending", "ready", "sent", "observe", "observing", "finalizing", "written"}
    <3>1. \A w \in Writers : pc[w] \notin {"appending", "ready", "sent", "observe", "observing"}
      BY <2>1 DEF WritersInv, LeaseInv, Actors
    <3>2. \A w \in Runs : pc[w] \notin {"finalizing", "written"}
      BY <1>1, <2>1 DEF Reconciling, Orderly, Writers
    <3>3. \A w \in Reusers : pc[w] \notin {"finalizing", "written"}
      BY <2>1 DEF WritersInv, VerdictInv, Terminal, Writers
    <3> QED BY <3>1, <3>2, <3>3 DEF Writers
  <2>5. VerdictInv'
    BY <1>2, <1>3, <1>4 DEF WritersInv, VerdictInv, Writers
  <2>6. CopyInv'
    BY <1>2, <1>4, <2>1, <2>4 DEF CopyInv
  <2>7. AttemptInv'
    <3>1. r \notin Reusers
      BY ReceiptAssumption
    <3>2. \A w \in Writers \ {r} : receipt[w] \notin Blocking
      BY <2>1, <2>2 DEF WritersInv, AttemptInv, Blocking
    <3>3. pc[r] \notin {"idle", "leased", "appending"}
      BY <2>1 DEF WritersInv, AttemptInv, Unresolved
    <3> QED BY <1>2, <2>2, <2>3, <2>4, <3>1, <3>2, <3>3 DEF WritersInv, AttemptInv, Writers
  <2>8. NothingForgotten' /\ TruthfulReceipt'
    <3>1. \A w \in Runs : remote[w] \in {"none", "queued", "created", "absent"}
      BY DEF TypeOK
    <3> QED BY <1>3, <2>1, <2>2, <2>3, <3>1
            DEF WritersInv, NothingForgotten, TruthfulReceipt, Writers, Final, Unresolved
  <2> QED BY <1>3, <2>5, <2>6, <2>7, <2>8 DEF WritersInv
<1>7. ReconcileWrite(c) \/ UNCHANGED receipt
  BY <1>1 DEF ReconcileStep, ReconcileReleases, ReconcileRefused, ReconcileRead, RecordReliability,
              ReconcileIndexes, Fail
<1> QED BY <1>5, <1>6, <1>7

\* A writer replaces the file while it has the lease only, and gives back or
\* takes no lease but its own.
LEMMA WriterHolds ==
  ASSUME TypeOK, WritersInv, ~WritesFail, ~ReliabilityFails, \A r \in Runs : Orderly(r),
         NEW a \in Writers, ActorStep(a)
  PROVE  /\ receipt' = receipt \/ (holder = a /\ pc[a] \in {"appending", "observing", "finalizing"})
         /\ \A w \in Actors \ {a} : holder' = w <=> holder = w
<1> USE ReceiptAssumption DEF Goto, Writers, Actors
<1>1. a \in Actors /\ Nobody \notin Actors /\ a \notin Reconcilers
  OBVIOUS
<1>2. /\ pc[a] \in {"appending", "observing"} => holder = a
      /\ a \in Runs /\ pc[a] = "finalizing" => holder = a
  BY DEF WritersInv, LeaseInv, Orderly
<1>3. CASE AcquireLease(a) \/ Die(a) \/ RecordReliability(a) \/ IndexAndRelease(a)
           \/ Fail(a, "leased") \/ Fail(a, "appending") \/ Fail(a, "indexing")
  BY <1>1, <1>3 DEF AcquireLease, Die, RecordReliability, IndexAndRelease, Fail, ReleaseOnce,
                    Lease!Take, Lease!Die, Lease!Drop
<1>4. CASE a \in Runs /\ (BeginRefused(a) \/ BeginAccepted(a) \/ BeginWrite(a) \/ Dispatch(a))
  BY <1>1, <1>2, <1>4 DEF BeginRefused, BeginAccepted, BeginWrite, Dispatch, ReleaseOnce, Lease!Drop
<1>5. CASE a \in Runs /\ (\/ Answered(a) \/ AnswerLost(a)
                          \/ ObserveRead(a) \/ ObserveThrows(a) \/ ObserveWrite(a))
  BY <1>1, <1>2, <1>5 DEF Answered, AnswerLost, ObserveRead, ObserveThrows, ObserveWrite
<1>6. CASE a \in Runs /\ (\/ FinalizeRead(a) \/ FinalizeSame(a) \/ FinalizeThrows(a)
                          \/ FinalizeWrite(a) \/ IndexThrows(a) \/ FinalizeAgain(a) \/ GiveUp(a))
  BY <1>1, <1>2, <1>6 DEF FinalizeRead, FinalizeSame, FinalizeThrows, FinalizeWrite, IndexThrows,
                          FinalizeAgain, GiveUp, Throw, ReleaseOnce, Lease!Drop
<1>7. CASE a \in Reusers /\ (ReuseRefused(a) \/ ReuseRead(a) \/ ReuseWrite(a))
  BY <1>1, <1>2, <1>7 DEF ReuseRefused, ReuseRead, ReuseWrite, ReleaseOnce, Lease!Drop
<1> QED BY <1>1, <1>3, <1>4, <1>5, <1>6, <1>7 DEF ActorStep, RunStep, ReuseStep

\* The run that moves stays orderly.
LEMMA OwnOrder ==
  ASSUME TypeOK, WritersInv, ~WritesFail, ~ReliabilityFails, NEW r \in Runs, Orderly(r), ActorStep(r)
  PROVE  Orderly(r)'
<1> USE ReceiptAssumption DEF Goto, Orderly
<1>1. /\ r \in Actors /\ r \in Writers /\ r \notin Reconcilers /\ r \notin Reusers
      /\ DOMAIN pc = Actors /\ receipt \in [Writers -> Outcomes] /\ copy \in [Actors -> Receipts]
      /\ verdict[r] \in {"uncertain", "created", "reused", "not-created"}
  BY DEF Actors, Writers, TypeOK, Receipts, Final
<1>2. /\ pc[r] \in {"idle", "leased", "appending", "ready", "sent", "observe", "observing"}
           => pc[r] = "idle" \/ holder = r
      /\ pc[r] \in {"ready", "sent"} => receipt[r] = "pending"
      /\ pc[r] = "observing" => copy[r] = receipt /\ holder = r
  BY <1>1 DEF WritersInv, LeaseInv, AttemptInv, CopyInv
<1>3. CASE AcquireLease(r) \/ Die(r) \/ RecordReliability(r) \/ IndexAndRelease(r)
           \/ Fail(r, "leased") \/ Fail(r, "appending")
  BY <1>1, <1>3 DEF AcquireLease, Die, RecordReliability, IndexAndRelease, Fail
<1>4. CASE BeginRefused(r) \/ BeginAccepted(r) \/ BeginWrite(r) \/ Dispatch(r)
  BY <1>1, <1>4 DEF BeginRefused, BeginAccepted, BeginWrite, Dispatch
<1>5. CASE Answered(r) \/ AnswerLost(r) \/ ObserveRead(r) \/ ObserveThrows(r)
  BY <1>1, <1>2, <1>5 DEF Answered, AnswerLost, ObserveRead, ObserveThrows
<1>6. CASE ObserveWrite(r)
  <2>1. pc'[r] = "finalize" /\ holder' = r /\ receipt'[r] = "observed"
    BY <1>1, <1>2, <1>6 DEF ObserveWrite, Write, Receipts
  <2> QED BY <2>1
<1>7. CASE FinalizeRead(r) \/ FinalizeWrite(r)
  BY <1>1, <1>7 DEF FinalizeRead, FinalizeWrite
<1>8. CASE FinalizeSame(r) \/ FinalizeThrows(r) \/ IndexThrows(r) \/ FinalizeAgain(r) \/ GiveUp(r)
  BY <1>1, <1>8 DEF FinalizeSame, FinalizeThrows, IndexThrows, FinalizeAgain, GiveUp, Throw
<1> HIDE DEF Orderly
<1> QED BY <1>1, <1>3, <1>4, <1>5, <1>6, <1>7, <1>8 DEF ActorStep, RunStep

\* Nobody begins while the attempt that is to be resolved blocks.
LEMMA BlockedBegin ==
  ASSUME TypeOK, WritersInv, Blocked(receipt), NEW a \in Writers, ActorStep(a),
         holder = a => pc[a] \in {"leased", "dead"}, holder' = a
  PROVE  pc'[a] \in {"leased", "dead"}
<1> USE ReceiptAssumption DEF Goto
<1>1. /\ a \in Actors /\ a \notin Reconcilers /\ DOMAIN pc = Actors /\ Nobody \notin Actors
      /\ a \in inside <=> holder = a /\ pc[a] # "dead"
  BY DEF TypeOK, WritersInv, LeaseInv, Actors, Writers
<1>2. CASE AcquireLease(a) \/ Die(a)
  BY <1>1, <1>2 DEF AcquireLease, Die
<1>3. CASE holder # a
  <2>1. CASE a \in Runs /\ RunStep(a)
    BY <1>1, <1>3, <2>1
       DEF RunStep, BeginRefused, BeginAccepted, BeginWrite, Dispatch, Answered, AnswerLost,
           ObserveRead, ObserveThrows, ObserveWrite, FinalizeRead, FinalizeSame, FinalizeThrows,
           FinalizeWrite, RecordReliability, IndexAndRelease, IndexThrows, FinalizeAgain, GiveUp,
           Fail, Throw, ReleaseOnce, Lease!Drop
  <2>2. CASE a \in Reusers /\ ReuseStep(a)
    BY <1>1, <1>3, <2>2
       DEF ReuseStep, ReuseRefused, ReuseRead, ReuseWrite, RecordReliability, IndexAndRelease, Fail,
           ReleaseOnce, Lease!Drop
  <2> QED BY <1>1, <1>2, <2>1, <2>2 DEF ActorStep
<1>4. CASE holder = a
  <2>1. CASE a \in Runs /\ RunStep(a)
    BY <1>1, <1>4, <2>1
       DEF RunStep, BeginRefused, BeginAccepted, BeginWrite, Dispatch, Answered, AnswerLost,
           ObserveRead, ObserveThrows, ObserveWrite, FinalizeRead, FinalizeSame, FinalizeThrows,
           FinalizeWrite, RecordReliability, IndexAndRelease, IndexThrows, FinalizeAgain, GiveUp,
           Fail, Throw, ReleaseOnce, Lease!Drop
  <2>2. CASE a \in Reusers /\ ReuseStep(a)
    BY <1>1, <1>4, <2>2
       DEF ReuseStep, ReuseRefused, ReuseRead, ReuseWrite, RecordReliability, IndexAndRelease, Fail,
           ReleaseOnce, Lease!Drop
  <2> QED BY <1>1, <1>2, <2>1, <2>2 DEF ActorStep
<1> QED BY <1>3, <1>4

LEMMA BesideReconcile ==
  ASSUME Calm, TypeOK, WritersInv, NEW c \in Reconcilers, Reconciling(c),
         NEW a \in Writers, ActorStep(a)
  PROVE  Reconciling(c)'
<1>1. ~WritesFail /\ ~ReliabilityFails /\ c \in Actors /\ a \in Actors /\ a # c
  BY ReceiptAssumption DEF Calm, Actors, Writers
<1>2. \A w \in Actors \ {a} : pc'[w] = pc[w] /\ copy'[w] = copy[w] /\ verdict'[w] = verdict[w]
  BY <1>1, OneCallerMoves
<1>3. /\ receipt' = receipt \/ (holder = a /\ pc[a] \in {"appending", "observing", "finalizing"})
      /\ \A w \in Actors \ {a} : holder' = w <=> holder = w
  BY <1>1, WriterHolds DEF Reconciling
<1>4. ASSUME NEW r \in Runs PROVE Orderly(r)'
  <2>1. CASE r = a
    BY <1>1, <2>1, OwnOrder DEF Reconciling
  <2>2. CASE r # a
    <3>1. r \in Actors \ {a} /\ Orderly(r)
      BY <2>2 DEF Actors, Writers, Reconciling
    <3>2. pc[r] \in {"observe", "finalize"} => holder = r
      BY <3>1 DEF Orderly, WritersInv, LeaseInv
    <3> QED BY <1>2, <1>3, <3>1, <3>2 DEF Orderly
  <2> QED BY <2>1, <2>2
<1>5. ASSUME pc'[c] = "finalizing"
      PROVE  /\ \A w \in Writers : holder' = w => pc'[w] \in {"leased", "dead"}
             /\ \E r \in Runs :
                  /\ receipt'[r] \in Unresolved /\ copy'[c] = [receipt' EXCEPT ![r] = "pending"]
                  /\ remote'[r] # "queued" /\ verdict'[c] \in Inspection(r)'
  <2>1. /\ pc[c] = "finalizing"
        /\ \A w \in Writers : holder = w => pc[w] \in {"leased", "dead"}
    BY <1>1, <1>2, <1>5 DEF Reconciling
  <2>2. PICK r \in Runs :
          /\ receipt[r] \in Unresolved /\ copy[c] = [receipt EXCEPT ![r] = "pending"]
          /\ remote[r] # "queued" /\ verdict[c] \in Inspection(r)
    BY <2>1 DEF Reconciling
  <2>3. receipt' = receipt
    BY <1>3, <2>1
  <2>4. remote' = remote
    <3>1. pc[a] # "ready"
      BY <1>1, <2>1 DEF WritersInv, LeaseInv
    <3>2. ~Dispatch(a)
      BY <3>1 DEF Dispatch, Goto
    <3> QED BY <3>2, ReceiptAssumption
       DEF ActorStep, Writers, AcquireLease, Die, RunStep, ReuseStep, BeginRefused, BeginAccepted, BeginWrite, Answered,
           AnswerLost, ObserveRead, ObserveThrows, ObserveWrite, FinalizeRead, FinalizeSame,
           FinalizeThrows, FinalizeWrite, RecordReliability, IndexAndRelease, IndexThrows,
           FinalizeAgain, GiveUp, Fail, Throw, ReuseRefused, ReuseRead, ReuseWrite
  <2>5. Blocked(receipt)
    BY <2>2 DEF Blocked, Writers
  <2>6. \A w \in Writers : holder' = w => pc'[w] \in {"leased", "dead"}
    <3>1. holder' = a => pc'[a] \in {"leased", "dead"}
      BY <2>1, <2>5, BlockedBegin
    <3> QED BY <1>2, <1>3, <2>1, <3>1 DEF Actors
  <2>7. copy'[c] = copy[c] /\ verdict'[c] = verdict[c] /\ Inspection(r)' = Inspection(r)
    BY <1>1, <1>2, <2>4 DEF Inspection
  <2> QED BY <2>2, <2>3, <2>4, <2>6, <2>7
<1>6. pc'[c] = pc[c]
  BY <1>1, <1>2
<1> QED BY <1>4, <1>5, <1>6 DEF Reconciling

LEMMA OwnReconcile ==
  ASSUME Calm, TypeOK, WritersInv, NEW c \in Reconcilers, Reconciling(c), ActorStep(c)
  PROVE  Reconciling(c)'
<1>1. /\ ~WritesFail /\ ~ReliabilityFails /\ SettledInspection
      /\ c \in Actors /\ c \notin Writers /\ c \notin Runs /\ c \notin Reusers /\ Nobody \notin Actors
      /\ DOMAIN pc = Actors /\ DOMAIN copy = Actors /\ DOMAIN verdict = Actors
  BY ReceiptAssumption DEF Calm, Actors, Writers, TypeOK
<1>2. \A w \in Writers : w # c /\ w \in Actors /\ pc'[w] = pc[w]
  BY <1>1, OneCallerMoves DEF Actors
<1>3. AcquireLease(c) \/ Die(c) \/ ReconcileStep(c) \/ ReconcileReleases(c)
  BY <1>1 DEF ActorStep
<1>4. \A w \in Writers : holder' = w <=> holder = w
  BY <1>1, <1>2, <1>3
     DEF AcquireLease, Die, ReconcileStep, ReconcileReleases, ReconcileRefused, ReconcileRead,
         ReconcileWrite, RecordReliability, ReconcileIndexes, Fail, ReleaseOnce, Lease!Take, Lease!Die,
         Lease!Drop
<1>5. CASE receipt' = receipt
  <2>1. \A r \in Runs : Orderly(r)'
    BY <1>2, <1>4, <1>5 DEF Reconciling, Orderly, Writers
  <2>2. CASE ReconcileRead(c)
    <3>1. /\ pc[c] = "leased" /\ pc'[c] = "finalizing" /\ holder = c /\ UNCHANGED <<holder, remote>>
      BY <1>1, <2>2 DEF ReconcileRead, Goto, WritersInv, LeaseInv
    <3>2. PICK r \in Runs :
            /\ receipt[r] \in Unresolved /\ remote[r] # "queued"
            /\ \E v \in Inspection(r) : verdict' = [verdict EXCEPT ![c] = v]
            /\ copy' = [copy EXCEPT ![c] = [receipt EXCEPT ![r] = "pending"]]
      BY <1>1, <2>2 DEF ReconcileRead
    <3>3. verdict'[c] \in Inspection(r) /\ Inspection(r)' = Inspection(r)
      BY <1>1, <3>1, <3>2 DEF Inspection
    <3>4. copy'[c] = [receipt' EXCEPT ![r] = "pending"] /\ receipt'[r] \in Unresolved /\ remote'[r] # "queued"
      BY <1>1, <1>5, <3>1, <3>2
    <3> QED BY <1>1, <1>2, <2>1, <3>1, <3>3, <3>4 DEF Reconciling
  <2>3. CASE AcquireLease(c) \/ Die(c) \/ ReconcileRefused(c) \/ RecordReliability(c) \/ ReconcileIndexes(c)
    <3>1. pc'[c] \in {"leased", "dead", "refused", "indexing", "done"}
      BY <1>1, <2>3 DEF AcquireLease, Die, ReconcileRefused, RecordReliability, ReconcileIndexes, Goto
    <3> QED BY <2>1, <3>1 DEF Reconciling, Terminal
  <2>4. CASE ReconcileReleases(c)
    <3>1. UNCHANGED <<pc, copy, verdict, remote, receipt>>
      BY <2>4 DEF ReconcileReleases
    <3> QED BY <1>4, <2>1, <3>1 DEF Reconciling, Inspection
  <2>5. CASE ReconcileWrite(c)
    <3>1. pc'[c] = "written"
      BY <1>1, <2>5 DEF ReconcileWrite, Goto
    <3> QED BY <2>1, <3>1 DEF Reconciling
  <2> QED BY <1>1, <1>3, <2>2, <2>3, <2>4, <2>5 DEF ReconcileStep, Fail
<1>6. CASE ReconcileWrite(c)
  <2>1. pc[c] = "finalizing" /\ pc'[c] = "written"
    BY <1>1, <1>6 DEF ReconcileWrite, Goto
  <2>2. \A r \in Runs : Orderly(r)'
    <3>1. \A r \in Runs : pc[r] \notin {"observe", "finalize"}
      BY <2>1 DEF Reconciling, Orderly, WritersInv, LeaseInv, Writers, Actors
    <3> QED BY <1>2, <1>4, <3>1 DEF Reconciling, Orderly, Writers
  <2> QED BY <2>1, <2>2 DEF Reconciling
<1>7. receipt' = receipt \/ ReconcileWrite(c)
  BY <1>1, <1>3
     DEF AcquireLease, Die, ReconcileStep, ReconcileReleases, ReconcileRefused, ReconcileRead,
         RecordReliability, ReconcileIndexes, Fail
<1> QED BY <1>5, <1>6, <1>7

LEMMA OutsideReconcile ==
  ASSUME TypeOK, WritersInv, NEW c \in Reconcilers, Reconciling(c),
         \/ ReclaimLease \/ (\E r \in Runs : RemoteRuns(r)) \/ UNCHANGED vars
  PROVE  Reconciling(c)'
<1>1. CASE ReclaimLease
  <2>1. UNCHANGED <<receipt, remote, pc, copy, verdict>> /\ holder' = Nobody /\ holder \notin inside
    BY <1>1 DEF ReclaimLease, Lease!Reclaim
  <2>2. \A w \in Writers : holder' # w /\ (holder = w => pc[w] = "dead")
    BY <2>1, ReceiptAssumption DEF WritersInv, LeaseInv, Actors, Writers
  <2> QED BY <2>1, <2>2 DEF Reconciling, Orderly, Inspection, Writers
<1>2. ASSUME NEW r \in Runs, RemoteRuns(r) PROVE Reconciling(c)'
  <2>1. UNCHANGED <<receipt, holder, pc, copy, verdict>>
    BY <1>2 DEF RemoteRuns
  <2>2. \A s \in Runs : remote[s] # "queued" => remote'[s] = remote[s]
    BY <1>2 DEF RemoteRuns, TypeOK
  <2>3. \A s \in Runs : remote[s] # "queued" => Inspection(s)' = Inspection(s)
    BY <2>2 DEF Inspection
  <2>4. \A s \in Runs : Orderly(s)'
    BY <2>1 DEF Reconciling, Orderly
  <2> QED BY <2>1, <2>2, <2>3, <2>4 DEF Reconciling
<1>3. CASE UNCHANGED vars
  BY <1>3 DEF vars, Reconciling, Orderly, Inspection
<1> QED BY <1>1, <1>2, <1>3

LEMMA InitInv == Init => IInv
<1>1. Init => ReconcileInv
  BY ReceiptAssumption DEF Init, ReconcileInv, Writers, Actors
<1> QED BY <1>1, InitType, InitWriters DEF IInv

LEMMA NextInv ==
  ASSUME Calm, IInv, [Next]_vars
  PROVE  IInv'
<1>1. TypeOK /\ WritersInv /\ ReconcileInv /\ TypeOK'
  BY NextType DEF IInv
<1>2. WritersInv'
  <2>1. CASE UNCHANGED vars
    BY <1>1, <2>1 DEF vars, WritersInv, LeaseInv, VerdictInv, CopyInv, AttemptInv, NothingForgotten,
                      TruthfulReceipt
  <2>2. CASE ReclaimLease \/ \E r \in Runs : RemoteRuns(r)
    BY <1>1, <2>2, LeaseSteps
  <2>3. ASSUME NEW a \in Actors, ActorStep(a) PROVE WritersInv'
    <3>1. CASE AcquireLease(a) \/ Die(a)
      BY <1>1, <3>1, LeaseSteps
    <3>2. CASE a \in Runs /\ RunStep(a)
      BY <1>1, <3>2, BeginSteps, FinalizeSteps, CommonSteps DEF RunStep, Writers
    <3>3. CASE a \in Reusers /\ ReuseStep(a)
      BY <1>1, <3>3, ReuseSteps, CommonSteps DEF ReuseStep, Writers
    <3>4. CASE a \in Reconcilers /\ (ReconcileStep(a) \/ ReconcileReleases(a))
      BY <1>1, <3>4, ReconcileSteps
    <3> QED BY <2>3, <3>1, <3>2, <3>3, <3>4 DEF ActorStep
  <2> QED BY <2>1, <2>2, <2>3, NextIsActors
<1>3. ASSUME NEW c \in Reconcilers PROVE Reconciling(c)'
  <2>1. Reconciling(c)
    BY <1>1, ReconcileParts
  <2>2. ASSUME NEW a \in Actors, ActorStep(a) PROVE Reconciling(c)'
    <3>1. a \in Writers \/ a = c
      BY ReceiptAssumption DEF Actors, Writers, Calm
    <3> QED BY <1>1, <2>1, <2>2, <3>1, BesideReconcile, OwnReconcile
  <2> QED BY <1>1, <2>1, <2>2, OutsideReconcile, NextIsActors
<1>4. ReconcileInv'
  BY <1>3 DEF ReconcileInv, Reconciling, Orderly
<1> QED BY <1>1, <1>2, <1>4 DEF IInv

\* Who holds the lease, whose attempt blocks, and that a copy about to be
\* written is still the receipt: true of every reachable state where nothing
\* reconciles, or one caller does and nothing is refused.
THEOREM Invariance == Calm => (Spec => []IInv)
<1> SUFFICES ASSUME Calm PROVE Spec => []IInv
  OBVIOUS
<1>1. IInv /\ [Next]_vars => IInv'
  BY NextInv
<1> QED BY InitInv, <1>1, PTL DEF Spec

\* However many runs and reuses overlap, die, lose answers or, as long as
\* nothing reconciles, fail to write: the roster is made into at most one list.
THEOREM AtMostOneList == Calm => (Spec => []NoDuplicateList)
<1> SUFFICES ASSUME Calm PROVE Spec => []NoDuplicateList
  OBVIOUS
<1>1. Spec => []IInv
  BY Invariance
<1>2. IInv => NoDuplicateList
  BY DEF IInv, WritersInv, AttemptInv, NothingForgotten, NoDuplicateList, Blocking, Writers
<1> QED BY <1>1, <1>2, PTL

\* Under Calm what may have reached New Recruit is in the receipt, and blocks
\* the roster.
THEOREM NothingIsForgotten == Calm => (Spec => []NothingForgotten)
<1> SUFFICES ASSUME Calm PROVE Spec => []NothingForgotten
  OBVIOUS
<1>1. IInv => NothingForgotten
  BY DEF IInv, WritersInv
<1> QED BY Invariance, <1>1, PTL

\* Under Calm an outcome in the receipt is what happened at New Recruit.
THEOREM ReceiptIsTrue == Calm => (Spec => []TruthfulReceipt)
<1> SUFFICES ASSUME Calm PROVE Spec => []TruthfulReceipt
  OBVIOUS
<1>1. IInv => TruthfulReceipt
  BY DEF IInv, WritersInv
<1> QED BY Invariance, <1>1, PTL

-----------------------------------------------------------------------------
(* What a step keeps, and what that makes of the inventory. *)

Keeps ==
  \A w \in Writers :
    /\ receipt[w] \in Final => receipt'[w] = receipt[w]
    /\ receipt[w] # "none" => receipt'[w] # "none"
    /\ receipt[w] = "observed" => receipt'[w] # "pending"

LEMMA NextKeeps ==
  ASSUME Calm, IInv, Next
  PROVE  Keeps
<1> USE DEF Keeps, IInv, WritersInv, TypeOK, Receipts, Writers, Actors, Goto
<1>1. CASE receipt' = receipt
  BY <1>1 DEF Final
<1>2. ASSUME NEW r \in Runs, BeginWrite(r) \/ ObserveWrite(r) \/ FinalizeWrite(r) PROVE Keeps
  BY <1>2 DEF BeginWrite, ObserveWrite, FinalizeWrite, Write, CopyInv, AttemptInv, Final
<1>3. ASSUME NEW a \in Writers, RecordReliability(a) PROVE Keeps
  BY <1>3 DEF RecordReliability, CopyInv, Final
<1>4. ASSUME NEW u \in Reusers, ReuseWrite(u) PROVE Keeps
  BY <1>4 DEF ReuseWrite, Write, CopyInv, AttemptInv, Final
<1> HIDE DEF Keeps, IInv, WritersInv, TypeOK, Receipts, Writers, Actors, Goto
<1>5. ASSUME NEW r \in Runs, RunStep(r) \/ RemoteRuns(r) PROVE Keeps
  BY <1>1, <1>2, <1>3, <1>5
     DEF Writers, RunStep, RemoteRuns, BeginRefused, BeginAccepted, Dispatch, Answered,
         AnswerLost, ObserveRead, ObserveThrows, FinalizeRead, FinalizeSame,
         FinalizeThrows,
         Throw, IndexAndRelease, IndexThrows, FinalizeAgain, GiveUp, Fail
<1>6. ASSUME NEW u \in Reusers, ReuseStep(u) PROVE Keeps
  BY <1>1, <1>3, <1>4, <1>6
     DEF Writers, ReuseStep, ReuseRefused, ReuseRead, IndexAndRelease, Fail
<1>7. ASSUME NEW c \in Reconcilers, ReconcileWrite(c) PROVE Keeps
  <2>1. PICK r \in Runs : /\ receipt[r] \in Unresolved /\ verdict[c] \in Inspection(r)
                          /\ receipt' = [receipt EXCEPT ![r] = verdict[c]]
    BY <1>7, ReconcileParts, OnlyOnePending DEF IInv
  <2>2. receipt \in [Writers -> Outcomes] /\ r \in Writers /\ verdict[c] \in Final
    BY <2>1, InspectionIsFinal DEF IInv, TypeOK, Receipts, Writers
  <2> QED BY <2>1, <2>2 DEF Keeps, Unresolved, Final
<1>8. ASSUME NEW c \in Reconcilers, ReconcileStep(c) \/ ReconcileReleases(c) PROVE Keeps
  <2>1. ~ReliabilityFails
    BY DEF Calm
  <2> QED BY <1>1, <1>7, <1>8, <2>1
     DEF ReconcileStep, ReconcileReleases, ReconcileRefused, ReconcileRead, RecordReliability,
         ReconcileIndexes, Fail
<1> QED BY <1>1, <1>5, <1>6, <1>8 DEF Next, ReclaimLease, AcquireLease, Die

\* Under Calm no step rewrites or drops what the receipt has concluded.
THEOREM Kept == Calm => (Spec => OutcomesAreKept)
<1> SUFFICES ASSUME Calm PROVE Spec => OutcomesAreKept
  OBVIOUS
<1>1. IInv /\ [Next]_vars => [Keeps]_vars
  BY NextKeeps
<1>2. [][Keeps]_vars => OutcomesAreKept
  <2>1. [Keeps]_vars => [\A w \in Writers :
                           /\ receipt[w] \in Final => receipt'[w] = receipt[w]
                           /\ receipt[w] # "none" => receipt'[w] # "none"
                           /\ receipt[w] = "observed" => receipt'[w] # "pending"]_vars
    BY DEF Keeps
  <2> QED BY <2>1, PTL DEF OutcomesAreKept
<1> QED BY Invariance, <1>1, <1>2, PTL DEF Spec

\* The part of IndexInv that is about one writer.
Indexed(w) ==
  /\ w \in Reusers /\ pc[w] = "written" => receipt[w] = "reused"
  /\ pc[w] = "indexing" =>
       /\ w \in Reusers => copy[w][w] = "reused"
       /\ w \in Runs => copy[w][w] = verdict[w]
       /\ Entries(copy[w]) \subseteq Entries(receipt)
  /\ Reported(w) => w \in inventory

\* The part that is about a caller that reconciles.
Carried(c) == pc[c] \in {"written", "indexing"} => Entries(copy[c]) \subseteq Entries(receipt)

LEMMA IndexParts ==
  IndexInv <=> /\ inventory \subseteq Entries(receipt)
               /\ \A w \in Writers : Indexed(w)
               /\ \A c \in Reconcilers : Carried(c)
BY DEF IndexInv, Indexed, Carried, Writers

\* What the receipt lists as a list made or reused, it lists ever after.
LEMMA EntriesKept ==
  ASSUME Keeps
  PROVE  Entries(receipt) \subseteq Entries(receipt')
BY DEF Keeps, Entries, Final

\* A caller that does not move keeps what it has indexed.
LEMMA IndexFrame ==
  ASSUME Keeps, NEW w \in Writers, Indexed(w), inventory \subseteq inventory',
         pc'[w] = pc[w], copy'[w] = copy[w], verdict'[w] = verdict[w]
  PROVE  Indexed(w)'
<1>1. Entries(receipt) \subseteq Entries(receipt')
  BY EntriesKept
<1>2. receipt[w] = "reused" => receipt'[w] = "reused"
  BY DEF Keeps, Final
<1> QED BY <1>1, <1>2 DEF Indexed, Reported

\* Only five steps add to the inventory, and what they add is in the receipt.
LEMMA InventoryStep ==
  ASSUME Calm, IInv, IndexInv, Next
  PROVE  inventory \subseteq inventory' /\ inventory' \subseteq Entries(receipt')
<1>1. Keeps /\ Entries(receipt) \subseteq Entries(receipt')
  BY NextKeeps, EntriesKept
<1>2. CASE UNCHANGED inventory
  BY <1>1, <1>2 DEF IndexInv
<1>3. ASSUME NEW r \in Runs, BeginRefused(r) \/ BeginAccepted(r)
      PROVE  inventory' = inventory \cup Entries(receipt)
  BY <1>3 DEF BeginRefused, BeginAccepted
<1>4. ASSUME NEW w \in Writers, IndexAndRelease(w)
      PROVE  inventory' = inventory \cup Entries(copy[w]) /\ Entries(copy[w]) \subseteq Entries(receipt)
  BY <1>4, IndexParts DEF IndexAndRelease, Goto, Indexed
<1>5. ASSUME NEW r \in Runs, RunStep(r) \/ RemoteRuns(r)
      PROVE  \/ UNCHANGED inventory \/ BeginRefused(r) \/ BeginAccepted(r) \/ IndexAndRelease(r)
  BY <1>5
     DEF RunStep, RemoteRuns, BeginWrite, Dispatch, Answered, AnswerLost, ObserveRead,
         ObserveThrows, ObserveWrite, FinalizeRead, FinalizeSame, FinalizeThrows, FinalizeWrite,
         RecordReliability, Throw, IndexThrows, FinalizeAgain, GiveUp, Fail
<1>6. ASSUME NEW u \in Reusers, ReuseStep(u)
      PROVE  UNCHANGED inventory \/ IndexAndRelease(u)
  BY <1>6 DEF ReuseStep, ReuseRefused, ReuseRead, ReuseWrite, RecordReliability, Fail
<1>7. CASE ReclaimLease \/ \E a \in Actors : AcquireLease(a) \/ Die(a)
  BY <1>2, <1>7 DEF ReclaimLease, AcquireLease, Die
<1>8. inventory \subseteq Entries(receipt)
  BY DEF IndexInv
<1>9. ASSUME NEW c \in Reconcilers, ReconcileStep(c) \/ ReconcileReleases(c)
      PROVE  \/ UNCHANGED inventory
             \/ inventory' = inventory \cup Entries(receipt)
             \/ inventory' = inventory \cup Entries(copy[c]) /\ Entries(copy[c]) \subseteq Entries(receipt)
  BY <1>9, IndexParts
     DEF ReconcileStep, ReconcileReleases, ReconcileRefused, ReconcileRead, ReconcileWrite,
         RecordReliability, ReconcileIndexes, Fail, Carried, Goto
<1> QED BY <1>1, <1>2, <1>3, <1>4, <1>5, <1>6, <1>7, <1>8, <1>9 DEF Next, Writers

\* The caller that moves.
LEMMA IndexStep ==
  ASSUME Calm, IInv, IInv', IndexInv, Keeps, NEW w \in Writers, ActorStep(w)
  PROVE  Indexed(w)'
<1>1. Indexed(w) /\ TypeOK
  BY IndexParts DEF IInv
<1>2. w \in Actors /\ DOMAIN pc = Actors /\ copy \in [Actors -> Receipts]
  BY <1>1 DEF TypeOK, Actors, Terminal
<1>3. CASE pc'[w] \notin {"written", "indexing", "done"}
  BY <1>3 DEF Indexed, Reported
<1>4. CASE w \in Runs /\ (FinalizeSame(w) \/ FinalizeWrite(w))
  <2>1. pc'[w] = "written" /\ w \notin Reusers
    BY <1>2, <1>4, ReceiptAssumption DEF FinalizeSame, FinalizeWrite, Goto
  <2> QED BY <2>1 DEF Indexed, Reported
<1>5. CASE w \in Reusers /\ ReuseWrite(w)
  <2>1. pc'[w] = "written" /\ receipt'[w] = "reused"
    BY <1>2, <1>5 DEF ReuseWrite, Write, Goto, Receipts
  <2> QED BY <2>1 DEF Indexed, Reported
<1>6. CASE RecordReliability(w)
  <2>1. /\ pc[w] = "written" /\ pc'[w] = "indexing" /\ copy' = copy /\ verdict' = verdict
        /\ copy[w] = receipt /\ receipt' = receipt
    BY <1>2, <1>6 DEF RecordReliability, Goto, IInv, WritersInv, CopyInv
  <2>2. w \in Runs => receipt[w] = verdict[w]
    BY <2>1 DEF IInv, WritersInv, AttemptInv
  <2> QED BY <1>1, <2>1, <2>2 DEF Indexed, Reported
<1>7. CASE IndexAndRelease(w)
  <2>1. /\ pc[w] = "indexing" /\ pc'[w] = "done" /\ verdict' = verdict
        /\ inventory' = inventory \cup Entries(copy[w])
    BY <1>2, <1>7 DEF IndexAndRelease, Goto
  <2>2. Reported(w)' => copy[w][w] \in {"created", "reused"}
    BY <1>1, <2>1 DEF Indexed, Reported, Writers
  <2> QED BY <2>1, <2>2 DEF Indexed, Reported, Entries
<1>8. ASSUME w \in Runs, RunStep(w)
      PROVE  \/ pc'[w] \notin {"written", "indexing", "done"}
             \/ FinalizeSame(w) \/ FinalizeWrite(w) \/ RecordReliability(w) \/ IndexAndRelease(w)
  <2>1. CASE \/ BeginRefused(w) \/ BeginAccepted(w) \/ BeginWrite(w) \/ Dispatch(w)
             \/ Answered(w) \/ AnswerLost(w) \/ ObserveRead(w) \/ ObserveThrows(w) \/ ObserveWrite(w)
    BY <1>2, <2>1
       DEF BeginRefused, BeginAccepted, BeginWrite, Dispatch, Answered, AnswerLost,
           ObserveRead, ObserveThrows, ObserveWrite, Goto
  <2>2. CASE \/ FinalizeRead(w) \/ FinalizeThrows(w) \/ IndexThrows(w) \/ FinalizeAgain(w)
             \/ GiveUp(w) \/ Fail(w, "leased") \/ Fail(w, "appending")
    BY <1>2, <2>2
       DEF FinalizeRead, FinalizeThrows, Throw, IndexThrows, FinalizeAgain, GiveUp, Fail, Goto
  <2> QED BY <1>8, <2>1, <2>2 DEF RunStep
<1>9. ASSUME w \in Reusers, ReuseStep(w)
      PROVE  \/ pc'[w] \notin {"written", "indexing", "done"}
             \/ ReuseWrite(w) \/ RecordReliability(w) \/ IndexAndRelease(w)
  BY <1>2, <1>9 DEF ReuseStep, ReuseRefused, ReuseRead, Fail, Goto
<1>10. CASE AcquireLease(w) \/ Die(w)
  BY <1>2, <1>3, <1>10 DEF AcquireLease, Die, Goto
<1> QED BY <1>3, <1>4, <1>5, <1>6, <1>7, <1>8, <1>9, <1>10, ReceiptAssumption DEF ActorStep, Writers

LEMMA CarriedStep ==
  ASSUME Calm, IInv, Keeps, NEW c \in Reconcilers, Carried(c), ActorStep(c)
  PROVE  Carried(c)'
<1>1. /\ c \notin Writers /\ c \in Actors /\ DOMAIN pc = Actors /\ copy \in [Actors -> Receipts]
      /\ ~ReliabilityFails /\ Reconciling(c)
  BY ReceiptAssumption, ReconcileParts DEF Calm, IInv, TypeOK, Actors, Writers
<1>2. CASE ReconcileWrite(c)
  <2>1. copy'[c] = receipt'
    BY <1>1, <1>2, OnlyOnePending DEF IInv
  <2> QED BY <2>1 DEF Carried
<1>3. CASE RecordReliability(c) \/ ReconcileReleases(c)
  <2>1. receipt' = receipt /\ copy' = copy /\ (pc'[c] = pc[c] \/ pc[c] = "written")
    BY <1>1, <1>3 DEF RecordReliability, ReconcileReleases, Goto
  <2> QED BY <2>1 DEF Carried
<1>4. CASE AcquireLease(c) \/ Die(c) \/ ReconcileRefused(c) \/ ReconcileRead(c) \/ ReconcileIndexes(c)
           \/ Fail(c, "finalizing")
  <2>1. pc'[c] \notin {"written", "indexing"}
    BY <1>1, <1>4 DEF AcquireLease, Die, ReconcileRefused, ReconcileRead, ReconcileIndexes, Fail, Goto
  <2> QED BY <2>1 DEF Carried
<1> QED BY <1>1, <1>2, <1>3, <1>4, ReceiptAssumption DEF ActorStep, ReconcileStep, Writers

LEMMA IndexNext ==
  ASSUME Calm, IInv, IndexInv, [Next]_vars
  PROVE  IndexInv'
<1>1. CASE UNCHANGED vars
  BY <1>1 DEF vars, IndexInv, Reported, Entries
<1>2. CASE Next
  <2>1. IInv' /\ Keeps /\ inventory \subseteq inventory' /\ inventory' \subseteq Entries(receipt')
    BY <1>2, NextInv, NextKeeps, InventoryStep
  <2>2. TypeOK /\ Entries(receipt) \subseteq Entries(receipt')
    BY <2>1, EntriesKept DEF IInv
  <2>3. UNCHANGED <<pc, copy, verdict>> \/ \E a \in Actors : ActorStep(a)
    BY <1>2, NextIsActors DEF ReclaimLease, RemoteRuns
  <2>4. ASSUME NEW w \in Actors, ~ActorStep(w)
        PROVE  pc'[w] = pc[w] /\ copy'[w] = copy[w] /\ verdict'[w] = verdict[w]
    BY <2>2, <2>3, <2>4, OneCallerMoves
  <2>5. ASSUME NEW w \in Writers PROVE Indexed(w)'
    <3>1. Indexed(w) /\ w \in Actors
      BY IndexParts DEF Actors
    <3> QED BY <2>1, <2>4, <3>1, IndexStep, IndexFrame
  <2>6. ASSUME NEW c \in Reconcilers PROVE Carried(c)'
    <3>1. Carried(c) /\ c \in Actors
      BY IndexParts DEF Actors
    <3>2. CASE ~ActorStep(c)
      BY <2>2, <2>4, <3>1, <3>2 DEF Carried
    <3> QED BY <2>1, <3>1, <3>2, CarriedStep
  <2> QED BY <2>1, <2>5, <2>6 DEF IndexInv, Indexed, Carried, Writers
<1> QED BY <1>1, <1>2

LEMMA IndexInit == Init => IndexInv
BY DEF Init, IndexInv, Reported, Writers, Actors

\* Under Calm a list in the inventory is one the receipt says was made or
\* reused.
THEOREM InventoryIsBacked == Calm => (Spec => []InventoryMatchesReceipt)
<1> SUFFICES ASSUME Calm PROVE Spec => []InventoryMatchesReceipt
  OBVIOUS
<1>1. IInv /\ IndexInv /\ [Next]_vars => IndexInv'
  BY IndexNext
<1>2. IndexInv => InventoryMatchesReceipt
  BY DEF IndexInv, InventoryMatchesReceipt, Entries
<1> QED BY Invariance, IndexInit, <1>1, <1>2, PTL DEF Spec

\* Under Calm a caller that returned a list has it in the receipt and in the
\* inventory.
THEOREM WhatIsReportedIsRecorded == Calm => (Spec => []ReportedIsRecorded)
<1> SUFFICES ASSUME Calm PROVE Spec => []ReportedIsRecorded
  OBVIOUS
<1>1. IInv /\ IndexInv /\ [Next]_vars => IndexInv'
  BY IndexNext
<1>2. IndexInv => ReportedIsRecorded
  BY DEF IndexInv, ReportedIsRecorded, Entries
<1> QED BY Invariance, IndexInit, <1>1, <1>2, PTL DEF Spec

=============================================================================
