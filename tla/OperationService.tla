-------------------------- MODULE OperationService --------------------------
(***************************************************************************)
(* One durable operation of RosterPilotService (lib/rosterpilot/service.ts) *)
(* and the calls of `act` on it, each possibly in a process of its own.    *)
(* `run` leaves a document that may offer one external action; an `act`    *)
(* call claims the operation with a directory, checks the revision its     *)
(* client saw, writes the document and executes the action at New Recruit  *)
(* or Tessera.  Nothing ever removes the directory of a call that died.    *)
(***************************************************************************)
EXTENDS Naturals

CONSTANTS
  Calls,          \* the act calls made on the operation
  Nobody,         \* no call holds the action lock
  NoUpload,       \* calls served by a service that cannot upload
  NoStress,       \* calls served by a service without website tests
  WritesFail,     \* TRUE: a read or a write of the document may throw
  MayDie,         \* TRUE: the process of a call may die
  MaxRevision     \* bound on the revisions a client may expect

ASSUME OperationAssumption ==
  /\ Nobody \notin Calls
  /\ NoUpload \subseteq Calls /\ NoStress \subseteq Calls
  /\ {WritesFail, MayDie} \subseteq BOOLEAN
  /\ MaxRevision \in Nat

VARIABLES
  doc,      \* the operation document on disk
  run,      \* the run that creates the result: "running", "done", "dead"
  lock,     \* the call whose mkdir of the action lock succeeded
  pc,       \* where each call is
  wanted,   \* what each call asks for
  seen,     \* the document each call holds in memory
  outcome   \* what became of each call's external execution

vars == <<doc, run, lock, pc, wanted, seen, outcome>>

Actions   == {"upload", "stress"}
Mutations == {"none", "started", "verified", "uncertain", "failed-before-mutation"}
Documents == [revision : Nat,
              state    : {"running", "action-required", "completed", "failed"},
              offers   : SUBSET Actions,
              mutation : Mutations]
Requests  == [action : Actions, revision : 0..MaxRevision, confirm : BOOLEAN]

\* An execution that is or may be known at New Recruit or Tessera.
Executed == {"sent", "verified", "unknown"}
Holding  == {"claimed", "accepted", "marked", "waiting", "caught", "release"}

TypeOK ==
  /\ doc \in Documents
  /\ run \in {"running", "done", "dead"}
  /\ lock \in Calls \cup {Nobody}
  /\ pc \in [Calls -> Holding \cup {"idle", "done", "dead"}]
  /\ wanted \in [Calls -> Requests]
  /\ seen \in [Calls -> Documents]
  /\ outcome \in [Calls -> Executed \cup {"none", "refused"}]

NewOperation ==
  [revision |-> 0, state |-> "running", offers |-> {}, mutation |-> "none"]

Init ==
  /\ doc = NewOperation
  /\ run = "running"
  /\ lock = Nobody
  /\ pc = [c \in Calls |-> "idle"]
  /\ wanted \in [Calls -> Requests]
  /\ seen = [c \in Calls |-> NewOperation]
  /\ outcome = [c \in Calls |-> "none"]

-----------------------------------------------------------------------------
Goto(c, from, to) == pc[c] = from /\ pc' = [pc EXCEPT ![c] = to]

NextRevision(d, state, offers, mutation) ==
  [revision |-> d.revision + 1, state |-> state, offers |-> offers, mutation |-> mutation]

\* #writeOperation: the document is replaced as a whole.
Save(c, d) == doc' = d /\ seen' = [seen EXCEPT ![c] = d]

\* The run writes its result once, from the document it created: a roster
\* that can be exported is offered for upload, a website test for execution.
RunFinishes ==
  /\ run = "running" /\ run' = "done"
  /\ \E state \in {"completed", "action-required", "failed"}, offers \in SUBSET Actions :
       /\ state = "completed"       => offers \in {{}, {"upload"}}
       /\ state = "action-required" => offers = {"stress"}
       /\ state = "failed"          => offers = {}
       /\ doc' = NextRevision(NewOperation, state, offers, "none")
  /\ UNCHANGED <<lock, pc, wanted, seen, outcome>>

RunDies ==
  /\ MayDie
  /\ run = "running" /\ run' = "dead"
  /\ UNCHANGED <<doc, lock, pc, wanted, seen, outcome>>

\* act: mkdir of the action lock.
Claim(c) ==
  /\ lock = Nobody /\ lock' = c
  /\ Goto(c, "idle", "claimed")
  /\ UNCHANGED <<doc, run, wanted, seen, outcome>>

\* OPERATION_ACTION_IN_PROGRESS
Busy(c) ==
  /\ lock # Nobody
  /\ Goto(c, "idle", "done")
  /\ UNCHANGED <<doc, run, lock, wanted, seen, outcome>>

\* Mutant: the expected revision is not compared.
AcceptableAnyRevision(c) == wanted[c].action \in doc.offers /\ wanted[c].confirm

\* #actLocked: the revision, the offered action and the confirmation.
Acceptable(c) ==
  /\ doc.revision = wanted[c].revision
  /\ wanted[c].action \in doc.offers
  /\ wanted[c].confirm

Accept(c) ==
  /\ Acceptable(c)
  /\ Goto(c, "claimed", "accepted")
  /\ seen' = [seen EXCEPT ![c] = doc]
  /\ UNCHANGED <<doc, run, lock, wanted, outcome>>

Decline(c) ==
  /\ ~Acceptable(c) \/ WritesFail
  /\ Goto(c, "claimed", "release")
  /\ UNCHANGED <<doc, run, lock, wanted, seen, outcome>>

-----------------------------------------------------------------------------
\* #updateFailure keeps the actions the document offers.
Refuse(c) ==
  /\ \/ /\ wanted[c].action = "upload"
        /\ c \in NoUpload \/ seen[c].mutation \in {"started", "uncertain"}
     \/ wanted[c].action = "stress" /\ c \in NoStress
  /\ Goto(c, "accepted", "release")
  /\ Save(c, NextRevision(seen[c], "failed", seen[c].offers, seen[c].mutation))
  /\ UNCHANGED <<run, lock, wanted, outcome>>

\* The roster is no longer valid, or no longer representable: only the
\* latter takes the offer back.
UploadInvalid(c) ==
  /\ wanted[c].action = "upload" /\ c \notin NoUpload
  /\ seen[c].mutation \notin {"started", "uncertain"}
  /\ Goto(c, "accepted", "release")
  /\ \E offers \in {{}, seen[c].offers} :
       Save(c, NextRevision(seen[c], "failed", offers, "failed-before-mutation"))
  /\ UNCHANGED <<run, lock, wanted, outcome>>

\* Mutant: the upload is not recorded before it is dispatched.
UploadStartsUnmarked(c) ==
  /\ wanted[c].action = "upload" /\ c \notin NoUpload
  /\ Goto(c, "accepted", "marked")
  /\ UNCHANGED <<doc, run, lock, wanted, seen, outcome>>

UploadStart(c) ==
  /\ wanted[c].action = "upload" /\ c \notin NoUpload
  /\ seen[c].mutation \notin {"started", "uncertain"}
  /\ Goto(c, "accepted", "marked")
  /\ Save(c, NextRevision(seen[c], "running", {}, "started"))
  /\ UNCHANGED <<run, lock, wanted, outcome>>

\* #executeStress records the start only of an action-required operation.
StressStart(c) ==
  /\ wanted[c].action = "stress" /\ c \notin NoStress
  /\ Goto(c, "accepted", "marked")
  /\ IF seen[c].state = "action-required"
       THEN Save(c, NextRevision(seen[c], "running", {}, seen[c].mutation))
       ELSE UNCHANGED <<doc, seen>>
  /\ UNCHANGED <<run, lock, wanted, outcome>>

\* A roster cannot be read, or the start cannot be written.
StartThrows(c) ==
  /\ WritesFail
  /\ Goto(c, "accepted", "release")
  /\ UNCHANGED <<doc, run, lock, wanted, seen, outcome>>

Dispatch(c) ==
  /\ Goto(c, "marked", "waiting")
  /\ outcome' = [outcome EXCEPT ![c] = "sent"]
  /\ UNCHANGED <<doc, run, lock, wanted, seen>>

-----------------------------------------------------------------------------
\* The catch block writes whatever the call has in memory as uncertain.
SaveOrCatch(c, d) ==
  \/ doc' = d /\ Goto(c, "waiting", "release")
  \/ WritesFail /\ UNCHANGED doc /\ Goto(c, "waiting", "caught")

UploadVerified(c) ==
  /\ wanted[c].action = "upload"
  /\ SaveOrCatch(c, NextRevision(seen[c], "completed", seen[c].offers, "verified"))
  /\ outcome' = [outcome EXCEPT ![c] = "verified"]
  /\ UNCHANGED <<run, lock, wanted, seen>>

\* Mutant: every failure is taken for one before the upload.
UploadFailedEarly(c) ==
  /\ wanted[c].action = "upload"
  /\ \E result \in {"refused", "unknown"} : outcome' = [outcome EXCEPT ![c] = result]
  /\ SaveOrCatch(c, NextRevision(seen[c], "failed", seen[c].offers, "failed-before-mutation"))
  /\ UNCHANGED <<run, lock, wanted, seen>>

\* Only a collision of output files proves that nothing was uploaded.  The
\* failed document replaces the started one in memory before it is written.
UploadFailed(c) ==
  /\ wanted[c].action = "upload"
  /\ \E result \in {"refused", "unknown"} :
       LET mutation == IF result = "refused" THEN "failed-before-mutation" ELSE "uncertain"
           failed   == NextRevision(seen[c], "failed", seen[c].offers, mutation)
       IN  /\ outcome' = [outcome EXCEPT ![c] = result]
           /\ seen' = [seen EXCEPT ![c] = failed]
           /\ SaveOrCatch(c, failed)
  /\ UNCHANGED <<run, lock, wanted>>

StressAnswered(c) ==
  /\ wanted[c].action = "stress"
  /\ \E state \in {"completed", "failed"} :
       SaveOrCatch(c, NextRevision(seen[c], state, {}, seen[c].mutation))
  /\ outcome' = [outcome EXCEPT ![c] = "verified"]
  /\ UNCHANGED <<run, lock, wanted, seen>>

ExecutionThrows(c) ==
  /\ Goto(c, "waiting", "caught")
  /\ outcome' = [outcome EXCEPT ![c] = "unknown"]
  /\ UNCHANGED <<doc, run, lock, wanted, seen>>

Caught(c) ==
  /\ Goto(c, "caught", "release")
  /\ \/ IF wanted[c].action = "upload"
          THEN Save(c, NextRevision(seen[c], "failed", seen[c].offers, "uncertain"))
          ELSE Save(c, NextRevision(seen[c], "failed", {}, seen[c].mutation))
     \/ WritesFail /\ UNCHANGED <<doc, seen>>
  /\ UNCHANGED <<run, lock, wanted, outcome>>

\* Mutant: the action lock is removed only when the action succeeded.
ReleaseOnSuccess(c) ==
  /\ Goto(c, "release", "done")
  /\ lock' = IF outcome[c] = "verified" THEN Nobody ELSE lock
  /\ UNCHANGED <<doc, run, wanted, seen, outcome>>

\* rmdir in `finally`
Release(c) ==
  /\ Goto(c, "release", "done")
  /\ lock' = Nobody
  /\ UNCHANGED <<doc, run, wanted, seen, outcome>>

Die(c) ==
  /\ MayDie
  /\ pc[c] \in Holding
  /\ pc' = [pc EXCEPT ![c] = "dead"]
  /\ UNCHANGED <<doc, run, lock, wanted, seen, outcome>>

Step(c) ==
  \/ Busy(c) \/ Accept(c) \/ Decline(c)
  \/ Refuse(c) \/ UploadInvalid(c) \/ UploadStart(c) \/ StressStart(c) \/ StartThrows(c)
  \/ Dispatch(c) \/ UploadVerified(c) \/ UploadFailed(c) \/ StressAnswered(c)
  \/ ExecutionThrows(c) \/ Caught(c) \/ Release(c)

Next == RunFinishes \/ RunDies \/ \E c \in Calls : Claim(c) \/ Step(c) \/ Die(c)

Spec == Init /\ [][Next]_vars

-----------------------------------------------------------------------------
\* However calls overlap, die or fail to write, the operation is executed at
\* New Recruit or Tessera at most once.
OneExecution ==
  \A c, d \in Calls : outcome[c] \in Executed /\ outcome[d] \in Executed => c = d

\* The document never offers an action that may already have been executed,
\* not even while it is being executed.
NoDoubtfulOffer == doc.offers # {} => \A c \in Calls : outcome[c] \notin Executed

\* What the document says of the upload is what happened to it.
TruthfulMutation ==
  LET uploads == {c \in Calls : wanted[c].action = "upload" /\ outcome[c] \in Executed} IN
  /\ doc.mutation = "verified" => \E c \in uploads : outcome[c] = "verified"
  /\ doc.mutation \in {"none", "failed-before-mutation"} => uploads = {}

\* No document replaces one its writer has not seen.
RevisionsGrow == [][doc' # doc => doc'.revision > doc.revision]_vars

\* An action is executed on the revision its client asked for, or on the one
\* that records its start.
ExecutesWhatWasSeen ==
  [][\A c \in Calls : outcome[c] # "sent" /\ outcome'[c] = "sent"
       => doc.revision \in {wanted[c].revision, wanted[c].revision + 1}]_vars

\* Only a call that died keeps the operation claimed: every other call has
\* the lock only while it runs, however it ends.
OnlyTheDeadKeepTheLock == \A c \in Calls : lock = c => pc[c] \in Holding \cup {"dead"}

-----------------------------------------------------------------------------
\* The inductive invariants of the proofs.  An upload is executed only after
\* its offer was taken back and its start recorded, by the only call that
\* holds the lock.
Underway == {"marked", "waiting", "caught"}

NothingExecuted == \A c \in Calls : outcome[c] = "none"
NothingUploaded == \A c \in Calls : wanted[c].action = "upload" => outcome[c] = "none"

OfferInv ==
  /\ doc.offers \in {{}, {"upload"}, {"stress"}}
  /\ run # "done" => doc = NewOperation /\ NothingExecuted
  /\ doc.offers # {} => run = "done"
  /\ "upload" \in doc.offers =>
       doc.mutation \in {"none", "failed-before-mutation"} /\ NothingExecuted
  /\ "stress" \in doc.offers => doc.mutation = "none" /\ NothingUploaded

LockInv ==
  \A c \in Calls :
    /\ pc[c] \in Holding => lock = c
    /\ lock = c => pc[c] \in Holding \cup {"dead"}
    /\ pc[c] \in {"waiting", "caught"} => outcome[c] # "none"
    /\ pc[c] \in {"idle", "claimed", "accepted", "marked"} => outcome[c] = "none"

UploadUnderway(c) ==
  /\ doc.offers = {} /\ seen[c].offers = {} /\ doc.mutation = "started"
  /\ \A d \in Calls \ {c} : outcome[d] = "none"

StressUnderway(c) ==
  /\ doc.offers \subseteq {"stress"} /\ seen[c].offers \subseteq {"stress"}
  /\ doc.mutation = "none" /\ seen[c].mutation = "none" /\ NothingUploaded

CallInv ==
  \A c \in Calls :
    /\ pc[c] = "accepted" =>
         seen[c] = doc /\ wanted[c].action \in doc.offers /\ doc.revision = wanted[c].revision
    /\ pc[c] = "marked" => doc.revision \in {wanted[c].revision, wanted[c].revision + 1}
    /\ pc[c] \in Underway =>
         /\ run = "done" /\ seen[c].revision >= doc.revision
         /\ wanted[c].action = "upload" => UploadUnderway(c)
         /\ wanted[c].action = "stress" => StressUnderway(c)

IInv == TypeOK /\ OfferInv /\ LockInv /\ CallInv /\ TruthfulMutation

\* Where no call is refused a website test, the same is true of the tests.
StressInv ==
  /\ "stress" \in doc.offers => doc.state = "action-required" /\ NothingExecuted
  /\ \A c \in Calls :
       /\ pc[c] \in Underway => doc.offers = {} /\ seen[c].offers = {}
       /\ pc[c] = "marked" => NothingExecuted
  /\ \A c, d \in Calls : outcome[c] # "none" /\ outcome[d] # "none" => c = d

=============================================================================
