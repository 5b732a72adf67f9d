-------------------------- MODULE MutationReceipts --------------------------
(***************************************************************************)
(* The durable mutation receipt of one mutation subject (one roster):      *)
(* beginMutationReceipt, observeConnectorEvidence, finalize and            *)
(* finalizeDelivery, reconcileMutationReceipt and                          *)
(* recordNewRecruitReuseReceipt of local/new-recruit/cache.ts, driven as   *)
(* deliverRosterToNewRecruit and prepareRosterForTessera drive them.  The  *)
(* receipt decides whether a roster may be uploaded; an upload makes a     *)
(* list in the user's New Recruit account that nothing takes back.         *)
(*                                                                         *)
(* Each caller reads the receipt file, works on its copy and replaces the  *)
(* file; reading and replacing are separate actions.  Leases are the ones  *)
(* of AbstractLease.  The receipt is a function from callers to the        *)
(* outcome of their attempt: a run appends one attempt.                    *)
(***************************************************************************)
CONSTANTS
  Runs,               \* deliveries, each in a process of its own
  Reconcilers,        \* calls of reconcileMutationReceipt
  Reusers,            \* calls of recordNewRecruitReuseReceipt
  Nobody,             \* no holder of the lease
  WritesFail,         \* TRUE: file verification and writes may throw
  ReliabilityFails,   \* TRUE: the reliability log may refuse an event
  SettledInspection   \* TRUE: a saved list is inspected only once the
                      \* request that may create it can no longer run

ASSUME ReceiptAssumption ==
  /\ Nobody \notin Runs \cup Reconcilers \cup Reusers
  /\ Runs \cap Reusers = {} /\ Runs \cap Reconcilers = {}
  /\ Reusers \cap Reconcilers = {}
  /\ {WritesFail, ReliabilityFails, SettledInspection} \subseteq BOOLEAN

Writers == Runs \cup Reusers          \* callers that append an attempt
Actors  == Writers \cup Reconcilers

\* "observed" is a pending attempt whose connector event is already sealed.
Unresolved == {"pending", "observed", "uncertain"}
Final      == {"created", "reused", "not-created"}
Outcomes   == {"none"} \cup Unresolved \cup Final

VARIABLES
  holder,     \* the holder of the receipt's lease (AbstractLease)
  inside,     \* the live callers that hold it (AbstractLease)
  receipt,    \* the receipt file: the outcome of each caller's attempt
  inventory,  \* the attempts indexed in new-recruit-run-inventory.json
  remote,     \* each run's request: "none", "queued", "created", "absent"
  pc,         \* where each caller is
  copy,       \* the receipt each caller has read
  verdict     \* the outcome each caller is about to record

vars == <<holder, inside, receipt, inventory, remote, pc, copy, verdict>>

Lease == INSTANCE AbstractLease WITH Procs <- Actors, NoProc <- Nobody

Receipts == [Writers -> Outcomes]
NoAttempts == [w \in Writers |-> "none"]

Terminal == {"done", "refused", "failed", "dead"}

TypeOK ==
  /\ holder \in Actors \cup {Nobody}
  /\ inside \subseteq Actors
  /\ receipt \in Receipts
  /\ inventory \subseteq Writers
  /\ remote \in [Runs -> {"none", "queued", "created", "absent"}]
  /\ pc \in [Actors -> Terminal \cup
       {"idle", "leased", "appending", "ready", "sent", "observe", "observing",
        "finalize", "finalizing", "written", "indexing", "thrown"}]
  /\ copy \in [Actors -> Receipts]
  /\ verdict \in [Actors -> {"uncertain"} \cup Final]

Init ==
  /\ Lease!Init
  /\ receipt = NoAttempts
  /\ inventory = {}
  /\ remote = [r \in Runs |-> "none"]
  /\ pc = [a \in Actors |-> "idle"]
  /\ copy = [a \in Actors |-> NoAttempts]
  /\ verdict = [a \in Actors |-> "uncertain"]

-----------------------------------------------------------------------------
Goto(a, from, to) == pc[a] = from /\ pc' = [pc EXCEPT ![a] = to]

Read(a) == copy' = [copy EXCEPT ![a] = receipt]

\* atomicWriteJson: the file becomes the caller's copy with one change, and
\* the caller goes on with that changed copy.
Write(a, w, outcome) ==
  /\ copy' = [copy EXCEPT ![a][w] = outcome]
  /\ receipt' = copy'[a]

\* releaseOnce: nothing happens when the lease was given back before.
ReleaseOnce(a) ==
  IF holder = a /\ a \in inside THEN Lease!Drop(a)
                                ELSE UNCHANGED <<holder, inside>>

\* Mutant: uncertain attempts do not block.
BlockedPendingOnly(rcpt) == \E w \in Writers : rcpt[w] = "pending"

\* unresolvedAttempt, createdAttempt, and inventoryEntryForAttempt
Blocked(rcpt)  == \E w \in Writers : rcpt[w] \in Unresolved
Created(rcpt)  == \E w \in Writers : rcpt[w] = "created"
Entries(rcpt)  == {w \in Writers : rcpt[w] \in {"created", "reused"}}

AcquireLease(a) ==
  /\ Lease!Take(a)
  /\ Goto(a, "idle", "leased")
  /\ UNCHANGED <<receipt, inventory, remote, copy, verdict>>

\* A throw before the receipt is replaced; the catch block releases.
Fail(a, from) ==
  /\ WritesFail
  /\ Goto(a, from, "failed")
  /\ ReleaseOnce(a)
  /\ UNCHANGED <<receipt, inventory, remote, copy, verdict>>

\* Mutant: the refused run forgets its lease.
BeginRefusedKeeps(r) ==
  /\ Blocked(receipt) \/ Created(receipt)
  /\ Goto(r, "leased", "refused")
  /\ inventory' = inventory \cup Entries(receipt)
  /\ UNCHANGED <<holder, inside, receipt, remote, copy, verdict>>

-----------------------------------------------------------------------------
\* beginMutationReceipt: the inventory is completed from the receipt before
\* an unresolved or created attempt refuses the run.
BeginRefused(r) ==
  /\ Blocked(receipt) \/ Created(receipt)
  /\ Goto(r, "leased", "refused")
  /\ inventory' = inventory \cup Entries(receipt)
  /\ ReleaseOnce(r)
  /\ UNCHANGED <<receipt, remote, copy, verdict>>

BeginAccepted(r) ==
  /\ ~Blocked(receipt) /\ ~Created(receipt)
  /\ Goto(r, "leased", "appending")
  /\ inventory' = inventory \cup Entries(receipt)
  /\ Read(r)
  /\ UNCHANGED <<holder, inside, receipt, remote, verdict>>

BeginWrite(r) ==
  /\ Goto(r, "appending", "ready")
  /\ Write(r, r, "pending")
  /\ UNCHANGED <<holder, inside, inventory, remote, verdict>>

\* agentDispatchStarted: from here on the request is out of the run's hands.
Dispatch(r) ==
  /\ Goto(r, "ready", "sent")
  /\ remote' = [remote EXCEPT ![r] = "queued"]
  /\ UNCHANGED <<holder, inside, receipt, inventory, copy, verdict>>

\* The browser worker runs the request, whether or not the run still waits.
RemoteRuns(r) ==
  /\ remote[r] = "queued"
  /\ \E result \in {"created", "absent"} : remote' = [remote EXCEPT ![r] = result]
  /\ UNCHANGED <<holder, inside, receipt, inventory, pc, copy, verdict>>

\* mutationEvent, mutationFinalization, classifyNewRecruitMutationDelivery:
\* what can be concluded from a truthful worker result; a list that was made
\* but failed verification, and an unreadable result, leave it uncertain.
Conclusions(r) ==
  CASE remote[r] = "created" -> {"created", "uncertain"}
    [] remote[r] = "absent"  -> {"reused", "not-created", "uncertain"}
    [] OTHER                 -> {}

\* The worker answers.  Deliveries with their own receipt seal the evidence
\* first; a delivery under an external receipt is finalized directly.
Answered(r) ==
  /\ \E v \in Conclusions(r), next \in {"observe", "finalize"} :
       /\ Goto(r, "sent", next)
       /\ verdict' = [verdict EXCEPT ![r] = v]
  /\ UNCHANGED <<holder, inside, receipt, inventory, remote, copy>>

\* Mutant: a run that got no answer concludes that nothing was created.
AnswerLostAsFailure(r) ==
  /\ \E next \in {"observe", "finalize"} : Goto(r, "sent", next)
  /\ verdict' = [verdict EXCEPT ![r] = "not-created"]
  /\ UNCHANGED <<holder, inside, receipt, inventory, remote, copy>>

\* The transport fails or times out: dispatched && no worker response.
AnswerLost(r) ==
  /\ \E next \in {"observe", "finalize"} : Goto(r, "sent", next)
  /\ verdict' = [verdict EXCEPT ![r] = "uncertain"]
  /\ UNCHANGED <<holder, inside, receipt, inventory, remote, copy>>

ObserveRead(r) ==
  /\ receipt[r] = "pending"
  /\ Goto(r, "observe", "observing")
  /\ Read(r)
  /\ UNCHANGED <<holder, inside, receipt, inventory, remote, verdict>>

\* The attempt is missing or finalized: the catch block still finalizes,
\* with an event that has not been verified.
ObserveThrows(r) ==
  /\ receipt[r] # "pending" \/ WritesFail
  /\ Goto(r, "observe", "finalize")
  /\ verdict' = [verdict EXCEPT ![r] = IF @ = "created" THEN "uncertain" ELSE @]
  /\ UNCHANGED <<holder, inside, receipt, inventory, remote, copy>>

ObserveWrite(r) ==
  /\ Goto(r, "observing", "finalize")
  /\ Write(r, r, "observed")
  /\ UNCHANGED <<holder, inside, inventory, remote, verdict>>

-----------------------------------------------------------------------------
\* finalize, finalizeDelivery: a pending attempt takes its outcome.
FinalizeRead(r) ==
  /\ receipt[r] \in {"pending", "observed"}
  /\ Goto(r, "finalize", "finalizing")
  /\ Read(r)
  /\ UNCHANGED <<holder, inside, receipt, inventory, remote, verdict>>

\* The same outcome is recorded already: it is reported and indexed again.
FinalizeSame(r) ==
  /\ receipt[r] = verdict[r]
  /\ Goto(r, "finalize", "written")
  /\ Read(r)
  /\ UNCHANGED <<holder, inside, receipt, inventory, remote, verdict>>

\* finalize throws: the attempt is missing, was finalized differently, or a
\* retained artifact does not verify.  `finally` releases the lease although
\* `finalized` is still false, so that a caller may finalize once more.
Throw(r, from) ==
  /\ Goto(r, from, IF holder = r THEN "thrown" ELSE "failed")
  /\ ReleaseOnce(r)
  /\ UNCHANGED <<receipt, inventory, remote, copy, verdict>>

FinalizeThrows(r) ==
  \/ receipt[r] \notin {"pending", "observed"} /\ Throw(r, "finalize")
  \/ WritesFail /\ (Throw(r, "finalize") \/ Throw(r, "finalizing"))

\* A reconciliation sets the attempt it resolves, see ReconcileWrite.
FinalizeWrite(r) ==
  /\ Goto(r, "finalizing", "written")
  /\ Write(r, r, verdict[r])
  /\ UNCHANGED <<holder, inside, inventory, remote, verdict>>

\* recordMutationFinalizationReliability: when the log refuses the event the
\* receipt is written again, with a warning, from the same copy.
RecordReliability(a) ==
  /\ Goto(a, "written", "indexing")
  /\ \/ UNCHANGED receipt
     \/ ReliabilityFails /\ receipt' = copy[a]
  /\ UNCHANGED <<holder, inside, inventory, remote, copy, verdict>>

\* Mutant: the inventory is left to a later begin.
ReleaseUnindexed(w) ==
  /\ Goto(w, "indexing", "done")
  /\ ReleaseOnce(w)
  /\ UNCHANGED <<receipt, inventory, remote, copy, verdict>>

\* ensureFinalizedInventory, then the release in `finally`.
IndexAndRelease(w) ==
  /\ Goto(w, "indexing", "done")
  /\ inventory' = inventory \cup Entries(copy[w])
  /\ ReleaseOnce(w)
  /\ UNCHANGED <<receipt, remote, copy, verdict>>

IndexThrows(r) == WritesFail /\ Throw(r, "indexing")

\* prepareRosterForTessera finalizes once more, as uncertain, without the
\* lease; deliverRosterToNewRecruit gives up after one attempt.
FinalizeAgain(r) ==
  /\ Goto(r, "thrown", "finalize")
  /\ verdict' = [verdict EXCEPT ![r] = "uncertain"]
  /\ UNCHANGED <<holder, inside, receipt, inventory, remote, copy>>

GiveUp(r) ==
  /\ Goto(r, "thrown", "failed")
  /\ UNCHANGED <<holder, inside, receipt, inventory, remote, copy, verdict>>

-----------------------------------------------------------------------------
\* reconcileMutationReceipt: nothing to resolve, or a recorded outcome.
ReconcileRefused(c) ==
  /\ Goto(c, "leased", "refused")
  /\ \E w \in Writers : receipt[w] \notin Unresolved
  /\ \/ UNCHANGED inventory
     \/ inventory' = inventory \cup Entries(receipt)
  /\ ReleaseOnce(c)
  /\ UNCHANGED <<receipt, remote, copy, verdict>>

\* The guided inspection of the saved lists found the list, or did not.
Inspection(r) ==
  IF remote[r] = "created" THEN {"created"} ELSE {"not-created", "reused"}

\* Mutant: a recorded outcome is reconciled once more.
ReconcileReadAny(c) ==
  /\ \E r \in Runs :
       /\ receipt[r] # "none"
       /\ SettledInspection => remote[r] # "queued"
       /\ \E v \in Inspection(r) : verdict' = [verdict EXCEPT ![c] = v]
       /\ copy' = [copy EXCEPT ![c] = [receipt EXCEPT ![r] = "pending"]]
  /\ Goto(c, "leased", "finalizing")
  /\ UNCHANGED <<holder, inside, receipt, inventory, remote>>

\* The attempt it resolves is kept in the copy as the only "pending" one.
ReconcileRead(c) ==
  /\ \E r \in Runs :
       /\ receipt[r] \in Unresolved
       /\ SettledInspection => remote[r] # "queued"
       /\ \E v \in Inspection(r) : verdict' = [verdict EXCEPT ![c] = v]
       /\ copy' = [copy EXCEPT ![c] = [receipt EXCEPT ![r] = "pending"]]
  /\ Goto(c, "leased", "finalizing")
  /\ UNCHANGED <<holder, inside, receipt, inventory, remote>>

ReconcileWrite(c) ==
  /\ Goto(c, "finalizing", "written")
  /\ \E r \in Runs : copy[c][r] = "pending" /\ Write(c, r, verdict[c])
  /\ UNCHANGED <<holder, inside, inventory, remote, verdict>>

\* `return finalizeMutationAttempt(...)` is not awaited inside the try, so
\* `finally` releases the lease while the finalization is still running.
ReconcileReleases(c) ==
  /\ pc[c] \notin {"leased", "dead"}
  /\ Lease!Drop(c)
  /\ UNCHANGED <<receipt, inventory, remote, pc, copy, verdict>>

ReconcileIndexes(c) ==
  /\ Goto(c, "indexing", "done")
  /\ \/ inventory' = inventory \cup Entries(copy[c])
     \/ WritesFail /\ UNCHANGED inventory
  /\ UNCHANGED <<holder, inside, receipt, remote, copy, verdict>>

-----------------------------------------------------------------------------
\* recordNewRecruitReuseReceipt
ReuseRefused(u) ==
  /\ Blocked(receipt)
  /\ Goto(u, "leased", "refused")
  /\ ReleaseOnce(u)
  /\ UNCHANGED <<receipt, inventory, remote, copy, verdict>>

ReuseRead(u) ==
  /\ ~Blocked(receipt)
  /\ Goto(u, "leased", "appending")
  /\ Read(u)
  /\ UNCHANGED <<holder, inside, receipt, inventory, remote, verdict>>

ReuseWrite(u) ==
  /\ Goto(u, "appending", "written")
  /\ Write(u, u, "reused")
  /\ UNCHANGED <<holder, inside, inventory, remote, verdict>>

-----------------------------------------------------------------------------
\* A process dies between two steps; its lease can then be reclaimed.
Die(a) ==
  /\ pc[a] \notin Terminal \cup {"idle"}
  /\ pc' = [pc EXCEPT ![a] = "dead"]
  /\ IF a \in inside THEN Lease!Die(a) ELSE UNCHANGED <<holder, inside>>
  /\ UNCHANGED <<receipt, inventory, remote, copy, verdict>>

ReclaimLease ==
  /\ Lease!Reclaim
  /\ UNCHANGED <<receipt, inventory, remote, pc, copy, verdict>>

RunStep(r) ==
  \/ BeginRefused(r) \/ BeginAccepted(r) \/ BeginWrite(r) \/ Dispatch(r)
  \/ Answered(r) \/ AnswerLost(r)
  \/ ObserveRead(r) \/ ObserveThrows(r) \/ ObserveWrite(r)
  \/ FinalizeRead(r) \/ FinalizeSame(r) \/ FinalizeThrows(r) \/ FinalizeWrite(r)
  \/ RecordReliability(r) \/ IndexAndRelease(r) \/ IndexThrows(r)
  \/ FinalizeAgain(r) \/ GiveUp(r)
  \/ Fail(r, "leased") \/ Fail(r, "appending")

ReconcileStep(c) ==
  \/ ReconcileRefused(c) \/ ReconcileRead(c) \/ ReconcileWrite(c)
  \/ RecordReliability(c) \/ ReconcileIndexes(c) \/ Fail(c, "finalizing")

ReuseStep(u) ==
  \/ ReuseRefused(u) \/ ReuseRead(u) \/ ReuseWrite(u)
  \/ RecordReliability(u) \/ IndexAndRelease(u)
  \/ Fail(u, "leased") \/ Fail(u, "appending") \/ Fail(u, "indexing")

Next ==
  \/ ReclaimLease
  \/ \E a \in Actors : AcquireLease(a) \/ Die(a)
  \/ \E r \in Runs : RunStep(r) \/ RemoteRuns(r)
  \/ \E c \in Reconcilers : ReconcileStep(c) \/ ReconcileReleases(c)
  \/ \E u \in Reusers : ReuseStep(u)

Spec == Init /\ [][Next]_vars

\* A live caller runs on (every wait in it has a timeout), and somebody who
\* wants the lease reclaims it from a dead holder.
FairSpec ==
  /\ Spec
  /\ WF_vars(ReclaimLease)
  /\ \A r \in Runs : WF_vars(RunStep(r))
  /\ \A c \in Reconcilers : WF_vars(ReconcileStep(c)) /\ WF_vars(ReconcileReleases(c))
  /\ \A u \in Reusers : WF_vars(ReuseStep(u))

-----------------------------------------------------------------------------
\* Nothing reconciles, as the program is deployed; or one caller does, who
\* inspects what has settled, and neither files nor the log refuse anything.
Calm ==
  \/ Reconcilers = {}
  \/ /\ \A c, d \in Reconcilers : c = d
     /\ SettledInspection /\ ~WritesFail /\ ~ReliabilityFails

\* The inductive invariant behind NoDuplicateList and NothingForgotten under
\* Calm: who holds the lease, whose attempt blocks, and that a copy about to be
\* written is still the receipt.
Blocking == Unresolved \cup {"created"}

LeaseInv ==
  /\ \A a \in Actors : a \in inside <=> holder = a /\ pc[a] # "dead"
  /\ \A a \in Actors :
       /\ pc[a] \in {"leased", "appending", "ready", "sent", "observe", "observing"}
            => holder = a
       /\ pc[a] = "idle" => holder # a
  /\ \A w \in Writers : pc[w] \in {"done", "refused", "failed", "thrown"} => holder # w

\* A run writes without the lease only to record that it is uncertain.
VerdictInv ==
  /\ \A r \in Runs :
       /\ verdict[r] = "created" => remote[r] = "created"
       /\ verdict[r] \in {"reused", "not-created"} => remote[r] = "absent"
       /\ pc[r] \in {"finalize", "finalizing", "written"} /\ holder # r
            => verdict[r] = "uncertain"
       /\ pc[r] \in {"idle", "leased", "appending", "ready"} => remote[r] = "none"
  /\ \A u \in Reusers :
       /\ pc[u] \in {"idle", "leased", "appending", "written", "indexing"} \cup Terminal
       /\ pc[u] \in {"written", "indexing"} => holder = u

\* A list that exists does not stop a reuse of it.
Obstacles(a) == IF a \in Runs THEN Blocking ELSE Unresolved

CopyInv ==
  /\ \A a \in Writers :
       pc[a] \in {"appending", "observing", "finalizing", "written"} => copy[a] = receipt
  /\ \A a \in Writers :
       pc[a] = "appending" => \A w \in Writers : receipt[w] \notin Obstacles(a)
  /\ \A a \in Writers :
       holder = a /\ pc[a] \notin {"leased", "dead"}
         => \A w \in Writers \ {a} : receipt[w] \notin Obstacles(a)

AttemptInv ==
  /\ \A v, w \in Writers :
       receipt[v] \in Blocking /\ receipt[w] \in Blocking => v = w
  /\ \A u \in Reusers : receipt[u] \in {"none", "reused"}
  /\ \A r \in Runs :
       /\ pc[r] \in {"idle", "leased", "appending"} => receipt[r] = "none"
       /\ pc[r] \in {"ready", "sent"} => receipt[r] = "pending"
       /\ pc[r] \in {"observing", "finalizing"} => receipt[r] \in {"pending", "observed"}
       /\ pc[r] = "written" => receipt[r] = verdict[r]

\* A caller that reconciles may have given its lease back, yet the attempt it
\* is about to resolve blocks everyone until it does, and nobody is at work on
\* it, for no run that is at work is without the lease.
ReconcileInv ==
  \A c \in Reconcilers :
    /\ pc[c] \in {"idle", "leased", "finalizing", "written", "indexing"} \cup Terminal
    /\ pc[c] = "finalizing" =>
         /\ \A w \in Writers : holder = w => pc[w] \in {"leased", "dead"}
         /\ \E r \in Runs :
              /\ receipt[r] \in Unresolved /\ copy[c] = [receipt EXCEPT ![r] = "pending"]
              /\ remote[r] # "queued" /\ verdict[c] \in Inspection(r)
    /\ \A r \in Runs :
         /\ pc[r] # "thrown"
         /\ pc[r] \in {"finalize", "finalizing", "written", "indexing"} => holder = r
         /\ pc[r] \in {"observe", "finalize"} => receipt[r] \in {"pending", "observed"}

\* However runs overlap, die, lose answers or fail to write: one roster
\* never ends up as two lists in the user's account.
NoDuplicateList ==
  \A r, s \in Runs : remote[r] = "created" /\ remote[s] = "created" => r = s

\* Whatever may have reached New Recruit is in the receipt, and blocks.
NothingForgotten ==
  \A r \in Runs : remote[r] \in {"queued", "created"}
                    => receipt[r] \in Unresolved \cup {"created"}

\* A recorded outcome is what happened at New Recruit.
TruthfulReceipt ==
  \A r \in Runs :
    /\ receipt[r] = "created" => remote[r] = "created"
    /\ receipt[r] \in {"reused", "not-created"} => remote[r] \in {"none", "absent"}

WritersInv ==
  LeaseInv /\ VerdictInv /\ CopyInv /\ AttemptInv /\ NothingForgotten /\ TruthfulReceipt

IInv == TypeOK /\ WritersInv /\ ReconcileInv

\* The inventory lists nothing the receipt does not account for.
InventoryMatchesReceipt == \A w \in inventory : receipt[w] \in {"created", "reused"}

\* A caller that returned a created or reused list has it in both files.
Reported(w) ==
  pc[w] = "done" /\ (w \in Reusers \/ verdict[w] \in {"created", "reused"})

ReportedIsRecorded ==
  \A w \in Writers :
    Reported(w) => receipt[w] \in {"created", "reused"} /\ w \in inventory

\* The invariant behind both: what a caller is about to index is in the
\* receipt, and has its own outcome in it.
IndexInv ==
  /\ inventory \subseteq Entries(receipt)
  /\ \A u \in Reusers :
       /\ pc[u] = "written" => receipt[u] = "reused"
       /\ pc[u] = "indexing" => copy[u][u] = "reused"
  /\ \A r \in Runs : pc[r] = "indexing" => copy[r][r] = verdict[r]
  /\ \A w \in Writers :
       /\ pc[w] = "indexing" => Entries(copy[w]) \subseteq Entries(receipt)
       /\ Reported(w) => w \in inventory
  /\ \A c \in Reconcilers :
       pc[c] \in {"written", "indexing"} => Entries(copy[c]) \subseteq Entries(receipt)

\* No caller ever rewrites or drops a final outcome, drops an attempt, or
\* replaces sealed evidence by anything but an outcome.
OutcomesAreKept ==
  [][\A w \in Writers :
       /\ receipt[w] \in Final => receipt'[w] = receipt[w]
       /\ receipt[w] # "none" => receipt'[w] # "none"
       /\ receipt[w] = "observed" => receipt'[w] # "pending"]_vars

\* The lease always comes back, even from a caller that throws or dies.
LeaseComesBack == \A a \in Actors : holder = a ~> holder # a

=============================================================================
