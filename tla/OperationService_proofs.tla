----------------------- MODULE OperationService_proofs -----------------------
(***************************************************************************)
(* OperationService for any number of act calls: its document tells the     *)
(* truth about the upload, no document replaces an unseen one, and an       *)
(* action is executed on the revision its client saw.  Where no call is     *)
(* refused a website test, the operation is also executed at most once and  *)
(* never offered when it may have been.                                     *)
(***************************************************************************)
EXTENDS OperationService, TLAPS

LEMMA RevisionType ==
  ASSUME NEW d \in Documents, NEW state \in {"running", "action-required", "completed", "failed"},
         NEW offers \in SUBSET Actions, NEW mutation \in Mutations
  PROVE  /\ NextRevision(d, state, offers, mutation) \in Documents
         /\ NextRevision(d, state, offers, mutation).revision = d.revision + 1
         /\ NextRevision(d, state, offers, mutation).state = state
         /\ NextRevision(d, state, offers, mutation).offers = offers
         /\ NextRevision(d, state, offers, mutation).mutation = mutation
BY DEF NextRevision, Documents

LEMMA NewType == NewOperation \in Documents
BY DEF NewOperation, Documents, Actions, Mutations

LEMMA FieldTypes ==
  ASSUME NEW d \in Documents
  PROVE  /\ d.revision \in Nat /\ d.offers \in SUBSET Actions /\ d.mutation \in Mutations
         /\ d.state \in {"running", "action-required", "completed", "failed"}
BY DEF Documents

LEMMA InitInv == Init => IInv /\ StressInv
<1> SUFFICES ASSUME Init PROVE IInv /\ StressInv
  OBVIOUS
<1> USE OperationAssumption, NewType DEF Init, Holding, Underway, NothingExecuted, NothingUploaded
<1>1. TypeOK
  BY DEF TypeOK
<1>2. OfferInv /\ LockInv /\ CallInv /\ StressInv
  BY DEF OfferInv, LockInv, CallInv, StressInv, NewOperation
<1>3. TruthfulMutation
  BY DEF TruthfulMutation, NewOperation, Executed
<1> QED BY <1>1, <1>2, <1>3 DEF IInv

\* The run, and the steps of a call that change no document.
LEMMA QuietSteps ==
  ASSUME IInv, NEW c \in Calls,
         \/ RunDies \/ Claim(c) \/ Busy(c) \/ Accept(c) \/ Decline(c) \/ StartThrows(c)
         \/ Dispatch(c) \/ ExecutionThrows(c) \/ Release(c) \/ Die(c)
  PROVE  IInv'
<1> USE DEF IInv, TypeOK, OfferInv, LockInv, CallInv, TruthfulMutation, NothingExecuted,
            NothingUploaded, UploadUnderway, StressUnderway, Holding, Underway, Goto, Executed
<1>1. CASE RunDies \/ Busy(c)
  BY <1>1 DEF RunDies, Busy, NewOperation
<1>2. CASE Claim(c)
  BY <1>2, OperationAssumption DEF Claim
<1>3. CASE Release(c)
  BY <1>3, OperationAssumption DEF Release
<1>4. CASE Die(c)
  BY <1>4 DEF Die
<1>5. CASE Accept(c)
  BY <1>5 DEF Accept, Acceptable
<1>6. CASE Decline(c) \/ StartThrows(c)
  BY <1>6 DEF Decline, StartThrows
<1>7. CASE Dispatch(c) \/ ExecutionThrows(c)
  BY <1>7 DEF Dispatch, ExecutionThrows, Requests, Actions
<1> HIDE DEF IInv
<1> QED BY <1>1, <1>2, <1>3, <1>4, <1>5, <1>6, <1>7

LEMMA RunInv ==
  ASSUME IInv, RunFinishes
  PROVE  IInv'
<1>1. PICK state \in {"completed", "action-required", "failed"}, offers \in SUBSET Actions :
        /\ state = "completed" => offers \in {{}, {"upload"}}
        /\ state = "action-required" => offers = {"stress"}
        /\ state = "failed" => offers = {}
        /\ doc' = NextRevision(NewOperation, state, offers, "none")
  BY DEF RunFinishes
<1>2. /\ doc' \in Documents /\ doc'.offers = offers /\ doc'.state = state
      /\ doc'.mutation = "none"
  BY <1>1, RevisionType, NewType DEF Mutations
<1>3. \A c \in Calls : pc[c] # "accepted" /\ pc[c] \notin Underway
  BY DEF IInv, OfferInv, LockInv, CallInv, RunFinishes, NewOperation, NothingExecuted
<1>4. UNCHANGED <<lock, pc, wanted, seen, outcome>> /\ run' = "done" /\ NothingExecuted
  BY DEF RunFinishes, IInv, OfferInv
<1>5. TypeOK' /\ OfferInv' /\ LockInv'
  BY <1>1, <1>2, <1>4 DEF IInv, TypeOK, OfferInv, LockInv, NothingExecuted, NothingUploaded
<1>6. CallInv'
  BY <1>3, <1>4 DEF CallInv, Underway
<1>7. TruthfulMutation'
  BY <1>2, <1>4 DEF TruthfulMutation, NothingExecuted, Executed
<1> QED BY <1>5, <1>6, <1>7 DEF IInv

\* A call that is accepted holds the lock of a document that still offers what
\* it wants; of an upload, nothing was executed.
LEMMA AcceptedFacts ==
  ASSUME IInv, NEW c \in Calls, pc[c] = "accepted"
  PROVE  /\ seen[c] = doc /\ lock = c /\ run = "done" /\ doc \in Documents
         /\ doc.offers = {wanted[c].action} /\ wanted[c].action \in Actions
         /\ doc.mutation \in {"none", "failed-before-mutation"} /\ NothingUploaded
         /\ wanted[c].action = "upload" => NothingExecuted
         /\ wanted[c].action = "stress" => doc.mutation = "none"
         /\ outcome[c] = "none" /\ doc.revision = wanted[c].revision /\ doc.revision \in Nat
         /\ \A d \in Calls \ {c} : pc[d] \notin Holding
BY FieldTypes
   DEF IInv, TypeOK, OfferInv, LockInv, CallInv, NothingExecuted, NothingUploaded, Holding,
       Requests, Actions

\* The steps that write the document before anything is executed.
LEMMA StartSteps ==
  ASSUME IInv, NEW c \in Calls,
         Refuse(c) \/ UploadInvalid(c) \/ UploadStart(c) \/ StressStart(c)
  PROVE  IInv'
<1>1. pc[c] = "accepted"
  BY DEF Refuse, UploadInvalid, UploadStart, StressStart, Goto
<1>2. /\ seen[c] = doc /\ lock = c /\ run = "done" /\ doc \in Documents
      /\ doc.offers = {wanted[c].action} /\ wanted[c].action \in Actions
      /\ doc.mutation \in {"none", "failed-before-mutation"} /\ NothingUploaded
      /\ wanted[c].action = "upload" => NothingExecuted
      /\ wanted[c].action = "stress" => doc.mutation = "none"
      /\ outcome[c] = "none" /\ doc.revision = wanted[c].revision /\ doc.revision \in Nat
      /\ \A d \in Calls \ {c} : pc[d] \notin Holding
  BY <1>1, AcceptedFacts
<1>3. PICK next \in Documents :
        /\ doc' = next /\ seen' = [seen EXCEPT ![c] = next]
        /\ \/ /\ pc' = [pc EXCEPT ![c] = "release"]
              /\ next.offers \in {{}, doc.offers}
              /\ next.mutation \in {"none", "failed-before-mutation"}
              /\ wanted[c].action = "stress" => next.mutation = "none"
           \/ /\ pc' = [pc EXCEPT ![c] = "marked"]
              /\ next.revision \in {doc.revision, doc.revision + 1}
              /\ wanted[c].action = "upload" => next.offers = {} /\ next.mutation = "started"
              /\ wanted[c].action = "stress" => next.offers \in {{}, doc.offers} /\ next.mutation = "none"
  <2> USE <1>1, <1>2 DEF Mutations
  <2>1. CASE Refuse(c)
    <3> DEFINE next == NextRevision(doc, "failed", doc.offers, doc.mutation)
    <3>1. next \in Documents /\ next.offers = doc.offers /\ next.mutation = doc.mutation
      BY RevisionType, FieldTypes
    <3>2. doc' = next /\ seen' = [seen EXCEPT ![c] = next] /\ pc' = [pc EXCEPT ![c] = "release"]
      BY <2>1 DEF Refuse, Goto, Save
    <3> HIDE DEF next
    <3> QED BY <3>1, <3>2
  <2>2. CASE UploadInvalid(c)
    <3>1. PICK offers \in {{}, doc.offers} :
            Save(c, NextRevision(doc, "failed", offers, "failed-before-mutation"))
      BY <2>2 DEF UploadInvalid
    <3> DEFINE next == NextRevision(doc, "failed", offers, "failed-before-mutation")
    <3>2. next \in Documents /\ next.offers = offers /\ next.mutation = "failed-before-mutation"
      BY RevisionType, FieldTypes, <3>1
    <3>3. doc' = next /\ seen' = [seen EXCEPT ![c] = next] /\ pc' = [pc EXCEPT ![c] = "release"]
          /\ wanted[c].action = "upload"
      BY <2>2, <3>1 DEF UploadInvalid, Goto, Save
    <3> HIDE DEF next
    <3> QED BY <3>1, <3>2, <3>3
  <2>3. CASE UploadStart(c)
    <3> DEFINE next == NextRevision(doc, "running", {}, "started")
    <3>1. next \in Documents /\ next.offers = {} /\ next.mutation = "started"
          /\ next.revision = doc.revision + 1
      BY RevisionType
    <3>2. doc' = next /\ seen' = [seen EXCEPT ![c] = next] /\ pc' = [pc EXCEPT ![c] = "marked"]
          /\ wanted[c].action = "upload"
      BY <2>3 DEF UploadStart, Goto, Save
    <3> HIDE DEF next
    <3> QED BY <3>1, <3>2
  <2>4. CASE StressStart(c) /\ seen[c].state = "action-required"
    <3> DEFINE next == NextRevision(doc, "running", {}, doc.mutation)
    <3>1. next \in Documents /\ next.offers = {} /\ next.mutation = doc.mutation
          /\ next.revision = doc.revision + 1
      BY RevisionType, FieldTypes
    <3>2. doc' = next /\ seen' = [seen EXCEPT ![c] = next] /\ pc' = [pc EXCEPT ![c] = "marked"]
          /\ wanted[c].action = "stress"
      BY <2>4 DEF StressStart, Goto, Save
    <3> HIDE DEF next
    <3> QED BY <3>1, <3>2
  <2>5. CASE StressStart(c) /\ seen[c].state # "action-required"
    BY <2>5 DEF StressStart, Goto, IInv, TypeOK
  <2> QED BY <2>1, <2>2, <2>3, <2>4, <2>5
<1>4. UNCHANGED <<run, lock, wanted, outcome>>
  BY DEF Refuse, UploadInvalid, UploadStart, StressStart
<1>5. next.offers \in {{}, {"upload"}, {"stress"}} /\ next.revision \in Nat
  BY <1>2, <1>3, FieldTypes DEF Actions
<1>6. TypeOK' /\ LockInv'
  BY <1>2, <1>3, <1>4 DEF IInv, TypeOK, LockInv, Holding
<1>7. OfferInv'
  BY <1>2, <1>3, <1>4, <1>5 DEF IInv, OfferInv, NothingExecuted, NothingUploaded, Actions
<1>8. CallInv'
  BY <1>2, <1>3, <1>4, <1>5
     DEF IInv, TypeOK, CallInv, UploadUnderway, StressUnderway, NothingExecuted, NothingUploaded,
         Holding, Underway
<1>9. TruthfulMutation'
  BY <1>2, <1>3, <1>4 DEF TruthfulMutation, NothingUploaded, Executed, Actions
<1> QED BY <1>6, <1>7, <1>8, <1>9 DEF IInv

\* What a step does that writes what became of the execution, or fails to.
Answers(c, next, result, to) ==
  /\ next.offers = {} \/ (next.offers = seen[c].offers /\ wanted[c].action = "upload")
  /\ next.revision = seen[c].revision + 1
  /\ doc' = doc \/ (doc' = next /\ to = "release")
  /\ seen' = seen \/ seen' = [seen EXCEPT ![c] = next]
  /\ pc' = [pc EXCEPT ![c] = to] /\ outcome' = [outcome EXCEPT ![c] = result]
  /\ UNCHANGED <<run, lock, wanted>>
  /\ IF wanted[c].action = "upload"
       THEN /\ next.mutation = "verified" => result = "verified"
            /\ next.mutation \in {"none", "failed-before-mutation"} => result = "refused"
       ELSE next.mutation = seen[c].mutation

LEMMA AnswerEffect ==
  ASSUME IInv, NEW c \in Calls,
         UploadVerified(c) \/ UploadFailed(c) \/ StressAnswered(c) \/ Caught(c)
  PROVE  \E next \in Documents, result \in Executed \cup {"refused"}, to \in {"release", "caught"} :
          Answers(c, next, result, to)
<1>1. /\ seen[c] \in Documents /\ seen[c].offers \in SUBSET Actions
      /\ seen[c].mutation \in Mutations /\ outcome \in [Calls -> Executed \cup {"none", "refused"}]
  BY FieldTypes DEF IInv, TypeOK
<1>2. CASE UploadVerified(c)
  <2> DEFINE next == NextRevision(seen[c], "completed", seen[c].offers, "verified")
  <2>1. next \in Documents /\ next.offers = seen[c].offers /\ next.mutation = "verified"
        /\ next.revision = seen[c].revision + 1
    BY <1>1, RevisionType DEF Mutations
  <2>2. /\ wanted[c].action = "upload" /\ UNCHANGED <<run, lock, wanted, seen>>
        /\ outcome' = [outcome EXCEPT ![c] = "verified"]
        /\ \/ doc' = next /\ pc' = [pc EXCEPT ![c] = "release"]
           \/ UNCHANGED doc /\ pc' = [pc EXCEPT ![c] = "caught"]
    BY <1>2 DEF UploadVerified, SaveOrCatch, Goto
  <2> HIDE DEF next
  <2> QED BY <2>1, <2>2 DEF Executed, Answers
<1>3. CASE UploadFailed(c)
  <2>1. PICK result \in {"refused", "unknown"} :
          LET mutation == IF result = "refused" THEN "failed-before-mutation" ELSE "uncertain"
              failed   == NextRevision(seen[c], "failed", seen[c].offers, mutation)
          IN  /\ outcome' = [outcome EXCEPT ![c] = result]
              /\ seen' = [seen EXCEPT ![c] = failed]
              /\ SaveOrCatch(c, failed)
    BY <1>3 DEF UploadFailed
  <2> DEFINE mutation == IF result = "refused" THEN "failed-before-mutation" ELSE "uncertain"
             next     == NextRevision(seen[c], "failed", seen[c].offers, mutation)
  <2>2. next \in Documents /\ next.offers = seen[c].offers /\ next.mutation = mutation
        /\ next.revision = seen[c].revision + 1
    <3>1. mutation \in Mutations
      BY DEF Mutations
    <3> QED BY <1>1, <3>1, RevisionType
  <2>3. /\ wanted[c].action = "upload" /\ UNCHANGED <<run, lock, wanted>>
        /\ outcome' = [outcome EXCEPT ![c] = result]
        /\ seen' = [seen EXCEPT ![c] = next]
        /\ \/ doc' = next /\ pc' = [pc EXCEPT ![c] = "release"]
           \/ UNCHANGED doc /\ pc' = [pc EXCEPT ![c] = "caught"]
    BY <1>3, <2>1 DEF UploadFailed, SaveOrCatch, Goto
  <2> HIDE DEF next
  <2> QED BY <2>2, <2>3 DEF Executed, Answers
<1>4. CASE StressAnswered(c)
  <2>1. PICK state \in {"completed", "failed"} :
          SaveOrCatch(c, NextRevision(seen[c], state, {}, seen[c].mutation))
    BY <1>4 DEF StressAnswered
  <2> DEFINE next == NextRevision(seen[c], state, {}, seen[c].mutation)
  <2>2. next \in Documents /\ next.offers = {} /\ next.mutation = seen[c].mutation
        /\ next.revision = seen[c].revision + 1
    BY <1>1, RevisionType
  <2>3. /\ wanted[c].action = "stress" /\ UNCHANGED <<run, lock, wanted, seen>>
        /\ outcome' = [outcome EXCEPT ![c] = "verified"]
        /\ \/ doc' = next /\ pc' = [pc EXCEPT ![c] = "release"]
           \/ UNCHANGED doc /\ pc' = [pc EXCEPT ![c] = "caught"]
    BY <1>4, <2>1 DEF StressAnswered, SaveOrCatch, Goto
  <2> HIDE DEF next
  <2> QED BY <2>2, <2>3 DEF Executed, Answers
<1>5. CASE Caught(c)
  <2> DEFINE upload == wanted[c].action = "upload"
             next   == NextRevision(seen[c], "failed", IF upload THEN seen[c].offers ELSE {},
                                    IF upload THEN "uncertain" ELSE seen[c].mutation)
  <2>1. next \in Documents /\ next.offers = (IF upload THEN seen[c].offers ELSE {})
        /\ next.mutation = (IF upload THEN "uncertain" ELSE seen[c].mutation)
        /\ next.revision = seen[c].revision + 1
    <3>1. (IF upload THEN "uncertain" ELSE seen[c].mutation) \in Mutations
          /\ (IF upload THEN seen[c].offers ELSE {}) \in SUBSET Actions
      BY <1>1 DEF Mutations
    <3> QED BY <1>1, <3>1, RevisionType
  <2>2. /\ UNCHANGED <<run, lock, wanted, outcome>> /\ pc' = [pc EXCEPT ![c] = "release"]
        /\ \/ doc' = next /\ seen' = [seen EXCEPT ![c] = next]
           \/ UNCHANGED <<doc, seen>>
    BY <1>5 DEF Caught, Save, Goto
  <2>3. outcome' = [outcome EXCEPT ![c] = outcome[c]] /\ outcome[c] \in Executed \cup {"refused"}
    BY <1>1, <1>5, <2>2 DEF IInv, LockInv, Caught, Goto
  <2> HIDE DEF next
  <2> QED BY <2>1, <2>2, <2>3 DEF Answers
<1> QED BY <1>2, <1>3, <1>4, <1>5

LEMMA AnswerSteps ==
  ASSUME IInv, NEW c \in Calls,
         UploadVerified(c) \/ UploadFailed(c) \/ StressAnswered(c) \/ Caught(c)
  PROVE  IInv'
<1>1. PICK next \in Documents, result \in Executed \cup {"refused"}, to \in {"release", "caught"} :
          Answers(c, next, result, to)
  BY AnswerEffect
<1>2. /\ pc[c] \in {"waiting", "caught"} /\ lock = c /\ run = "done" /\ outcome[c] # "none"
      /\ wanted[c].action = "upload" => UploadUnderway(c)
      /\ wanted[c].action = "stress" => StressUnderway(c)
      /\ seen[c].revision >= doc.revision
      /\ doc.revision \in Nat /\ seen[c].revision \in Nat
      /\ wanted[c].action \in {"upload", "stress"}
      /\ \A d \in Calls \ {c} : pc[d] \notin Holding
  BY FieldTypes
     DEF IInv, TypeOK, LockInv, CallInv, UploadVerified, UploadFailed, StressAnswered, Caught,
         SaveOrCatch, Goto, Holding, Underway, Requests, Actions
<1>3. next.offers = {} /\ doc.offers \subseteq {"stress"}
  BY <1>1, <1>2 DEF Answers, UploadUnderway, StressUnderway
<1>4. TypeOK' /\ LockInv'
  BY <1>1, <1>2 DEF Answers, IInv, TypeOK, LockInv, Holding, Executed
<1>5. OfferInv'
  BY <1>1, <1>2, <1>3
     DEF Answers, IInv, TypeOK, OfferInv, UploadUnderway, StressUnderway, NothingUploaded, NothingExecuted
<1>6. CallInv'
  BY <1>1, <1>2, <1>3
     DEF Answers, IInv, TypeOK, CallInv, UploadUnderway, StressUnderway, NothingUploaded, Holding, Underway
<1>7. TruthfulMutation'
  <2>1. CASE wanted[c].action = "upload"
    BY <1>1, <1>2, <2>1 DEF Answers, IInv, TypeOK, TruthfulMutation, UploadUnderway, Executed
  <2>2. CASE wanted[c].action = "stress"
    BY <1>1, <1>2, <2>2 DEF Answers, IInv, TypeOK, TruthfulMutation, StressUnderway, NothingUploaded, Executed
  <2> QED BY <1>2, <2>1, <2>2
<1> QED BY <1>4, <1>5, <1>6, <1>7 DEF IInv

LEMMA NextInv ==
  ASSUME IInv, [Next]_vars
  PROVE  IInv'
<1>1. CASE UNCHANGED vars
  BY <1>1
     DEF vars, IInv, TypeOK, OfferInv, LockInv, CallInv, TruthfulMutation, NothingExecuted,
         NothingUploaded, UploadUnderway, StressUnderway
<1>2. CASE RunFinishes
  BY <1>2, RunInv
<1>3. CASE RunDies
  <2>1. CASE Calls = {}
    BY <1>3, <2>1
       DEF RunDies, IInv, TypeOK, OfferInv, LockInv, CallInv, TruthfulMutation, NothingExecuted,
           NothingUploaded
  <2>2. ASSUME NEW c \in Calls PROVE IInv'
    BY <1>3, <2>2, QuietSteps
  <2> QED BY <2>1, <2>2
<1>4. ASSUME NEW c \in Calls, Claim(c) \/ Step(c) \/ Die(c) PROVE IInv'
  BY <1>4, QuietSteps, StartSteps, AnswerSteps DEF Step
<1> QED BY <1>1, <1>2, <1>3, <1>4 DEF Next

\* Where no call is refused a website test, the offer of one is taken back too
\* before it is executed.
LEMMA StressNext ==
  ASSUME NoStress = {}, IInv, StressInv, [Next]_vars
  PROVE  StressInv'
<1>1. CASE UNCHANGED vars \/ RunDies
  BY <1>1 DEF vars, RunDies, StressInv, NothingExecuted
<1>2. CASE RunFinishes
  <2>1. PICK state \in {"completed", "action-required", "failed"}, offers \in SUBSET Actions :
          /\ state = "completed" => offers \in {{}, {"upload"}}
          /\ state = "action-required" => offers = {"stress"}
          /\ state = "failed" => offers = {}
          /\ doc' = NextRevision(NewOperation, state, offers, "none")
    BY <1>2 DEF RunFinishes
  <2>2. "stress" \in doc'.offers => doc'.state = "action-required"
    BY <2>1 DEF NextRevision
  <2>3. NothingExecuted /\ \A c \in Calls : pc[c] \notin Underway
    BY <1>2 DEF RunFinishes, IInv, OfferInv, CallInv
  <2> QED BY <1>2, <2>2, <2>3 DEF RunFinishes, StressInv, NothingExecuted
<1>3. ASSUME NEW c \in Calls,
             \/ Claim(c) \/ Busy(c) \/ Accept(c) \/ Decline(c) \/ StartThrows(c)
             \/ Dispatch(c) \/ ExecutionThrows(c) \/ Release(c) \/ Die(c)
      PROVE  StressInv'
  <2>1. \A d \in Calls : pc'[d] \in Underway => pc[d] \in Underway /\ (pc'[d] = "marked" => pc[d] = "marked")
    BY <1>3
       DEF Claim, Busy, Accept, Decline, StartThrows, Dispatch, ExecutionThrows, Release, Die, Goto,
           Underway, IInv, TypeOK, Holding
  <2>2. UNCHANGED doc /\ \A d \in Calls : pc[d] \in Underway => seen'[d] = seen[d]
    BY <1>3
       DEF Claim, Busy, Accept, Decline, StartThrows, Dispatch, ExecutionThrows, Release, Die, Goto,
           Underway, IInv, TypeOK
  <2>3. CASE UNCHANGED outcome
    BY <2>1, <2>2, <2>3 DEF StressInv, NothingExecuted, Underway
  <2>4. CASE Dispatch(c) \/ ExecutionThrows(c)
    <3>1. PICK result : outcome' = [outcome EXCEPT ![c] = result]
      BY <2>4 DEF Dispatch, ExecutionThrows
    <3>2. /\ doc.offers = {} /\ \A d \in Calls \ {c} : outcome[d] = "none" /\ pc[d] \notin Holding
      BY <2>4 DEF Dispatch, ExecutionThrows, Goto, StressInv, NothingExecuted, IInv, LockInv,
                  Underway, Holding
    <3>3. pc'[c] \in {"waiting", "caught"}
      BY <2>4 DEF Dispatch, ExecutionThrows, Goto, IInv, TypeOK
    <3>4. \A d \in Calls : pc'[d] # "marked"
      BY <2>1, <3>2, <3>3 DEF Holding, Underway
    <3> QED BY <2>1, <2>2, <3>1, <3>2, <3>4 DEF StressInv, NothingExecuted, Underway, Holding, IInv, TypeOK
  <2> QED BY <1>3, <2>3, <2>4 DEF Claim, Busy, Accept, Decline, StartThrows, Release, Die
<1>4. ASSUME NEW c \in Calls, Refuse(c) \/ UploadInvalid(c) \/ UploadStart(c) \/ StressStart(c)
      PROVE  StressInv'
  <2>1. pc[c] = "accepted"
    BY <1>4 DEF Refuse, UploadInvalid, UploadStart, StressStart, Goto
  <2>2. /\ seen[c] = doc /\ doc \in Documents /\ doc.offers = {wanted[c].action}
        /\ NothingExecuted /\ \A d \in Calls \ {c} : pc[d] \notin Holding
        /\ wanted[c].action = "stress" => doc.state = "action-required"
    BY <2>1, AcceptedFacts DEF StressInv, Actions
  <2>3. /\ UNCHANGED outcome
        /\ pc' \in {[pc EXCEPT ![c] = "release"], [pc EXCEPT ![c] = "marked"]}
        /\ seen' = [seen EXCEPT ![c] = doc'] /\ "stress" \notin doc'.offers
        /\ pc' = [pc EXCEPT ![c] = "marked"] => doc'.offers = {}
    <3>1. CASE Refuse(c)
      BY <1>4, <2>2, <3>1, RevisionType, FieldTypes DEF Refuse, Goto, Save, NextRevision, IInv, TypeOK
    <3>2. CASE UploadInvalid(c)
      BY <1>4, <2>2, <3>2 DEF UploadInvalid, Goto, Save, NextRevision, IInv, TypeOK
    <3>3. CASE UploadStart(c)
      BY <1>4, <2>2, <3>3 DEF UploadStart, Goto, Save, NextRevision, IInv, TypeOK
    <3>4. CASE StressStart(c)
      BY <1>4, <2>2, <3>4 DEF StressStart, Goto, Save, NextRevision, IInv, TypeOK
    <3> QED BY <1>4, <3>1, <3>2, <3>3, <3>4
  <2> QED BY <2>2, <2>3 DEF StressInv, NothingExecuted, Underway, Holding, IInv, TypeOK
<1>5. ASSUME NEW c \in Calls, UploadVerified(c) \/ UploadFailed(c) \/ StressAnswered(c) \/ Caught(c)
      PROVE  StressInv'
  <2>1. PICK next \in Documents, result \in Executed \cup {"refused"}, to \in {"release", "caught"} :
          Answers(c, next, result, to)
    BY <1>5, AnswerEffect
  <2>2. /\ pc[c] \in {"waiting", "caught"} /\ outcome[c] # "none"
        /\ doc.offers = {} /\ seen[c].offers = {}
        /\ \A d \in Calls \ {c} : pc[d] \notin Holding /\ outcome[d] = "none"
    BY <1>5
       DEF IInv, LockInv, StressInv, UploadVerified, UploadFailed, StressAnswered, Caught,
           SaveOrCatch, Goto, Holding, Underway
  <2> QED BY <2>1, <2>2 DEF Answers, StressInv, NothingExecuted, Underway, Holding, IInv, TypeOK
<1> QED BY <1>1, <1>2, <1>3, <1>4, <1>5 DEF Next, Step

\* The lock, what each call holds in memory, the offers and what the document
\* says of the upload, in every reachable state.
THEOREM Invariance == Spec => []IInv
<1>1. IInv /\ [Next]_vars => IInv'
  BY NextInv
<1> QED BY InitInv, <1>1, PTL DEF Spec

\* Whatever fails or dies, the document says "verified" only of an upload that
\* was verified, and "none" or "failed before mutation" only when nothing was,
\* or may have been, uploaded.
THEOREM DocumentIsTrue == Spec => []TruthfulMutation
<1>1. IInv => TruthfulMutation
  BY DEF IInv
<1> QED BY Invariance, <1>1, PTL

\* A call that ends in any way but the death of its process gives the operation
\* back.
THEOREM LockGivenBack == Spec => []OnlyTheDeadKeepTheLock
<1>1. IInv => OnlyTheDeadKeepTheLock
  BY DEF IInv, LockInv, OnlyTheDeadKeepTheLock
<1> QED BY Invariance, <1>1, PTL

\* An action is executed only while the document is the one its client asked to
\* act on, or the one that records the start of that action.
THEOREM OnlyTheSeenIsExecuted == Spec => ExecutesWhatWasSeen
<1>1. IInv /\ [Next]_vars
        => [\A c \in Calls : outcome[c] # "sent" /\ outcome'[c] = "sent"
              => doc.revision \in {wanted[c].revision, wanted[c].revision + 1}]_vars
  <2> SUFFICES ASSUME IInv, Next, NEW c \in Calls, outcome[c] # "sent", outcome'[c] = "sent"
               PROVE  doc.revision \in {wanted[c].revision, wanted[c].revision + 1}
    OBVIOUS
  <2>1. PICK d \in Calls : Claim(d) \/ Step(d) \/ Die(d)
    BY DEF Next, RunFinishes, RunDies
  <2>2. ~(UploadVerified(d) \/ UploadFailed(d) \/ StressAnswered(d) \/ ExecutionThrows(d))
    BY DEF UploadVerified, UploadFailed, StressAnswered, ExecutionThrows, IInv, TypeOK
  <2>3. Dispatch(d)
    BY <2>1, <2>2
       DEF Claim, Die, Step, Busy, Accept, Decline, Refuse, UploadInvalid, UploadStart, StressStart,
           StartThrows, Caught, Release
  <2> QED BY <2>3 DEF Dispatch, Goto, IInv, TypeOK, CallInv
<1> QED BY Invariance, <1>1, PTL DEF Spec, ExecutesWhatWasSeen

\* Every document written has a later revision than the one it replaces.
THEOREM NothingUnseenReplaced == Spec => RevisionsGrow
<1>2. IInv /\ [Next]_vars => [doc' # doc => doc'.revision > doc.revision]_vars
  <2> SUFFICES ASSUME IInv, Next, doc' # doc PROVE doc'.revision > doc.revision
    OBVIOUS
  <2>1. doc \in Documents /\ doc.revision \in Nat
    BY FieldTypes DEF IInv, TypeOK
  <2>2. CASE RunFinishes
    <3>1. doc'.revision = 1 /\ doc.revision = 0
      BY <2>2 DEF RunFinishes, IInv, OfferInv, NewOperation, NextRevision
    <3> QED BY <3>1
  <2>3. ASSUME NEW c \in Calls, Step(c) PROVE doc'.revision > doc.revision
    <3>1. \E state, offers, mutation : doc' = NextRevision(seen[c], state, offers, mutation)
      BY <2>3
         DEF Step, Busy, Accept, Decline, Refuse, UploadInvalid, UploadStart, StressStart,
             StartThrows, Dispatch, UploadVerified, UploadFailed, StressAnswered,
             ExecutionThrows, Caught, Release, Save, SaveOrCatch
    <3>2. doc'.revision = seen[c].revision + 1
      BY <3>1 DEF NextRevision
    <3>3. seen[c].revision >= doc.revision /\ seen[c].revision \in Nat
      <4>1. pc[c] = "accepted" \/ pc[c] \in Underway
        BY <2>3
           DEF Step, Busy, Accept, Decline, Refuse, UploadInvalid, UploadStart, StressStart,
               StartThrows, Dispatch, UploadVerified, UploadFailed, StressAnswered,
               ExecutionThrows, Caught, Release, SaveOrCatch, Goto, Underway
      <4> QED BY <2>1, <4>1, FieldTypes DEF IInv, TypeOK, CallInv
    <3> QED BY <2>1, <3>2, <3>3
  <2> QED BY <2>2, <2>3 DEF Next, RunDies, Claim, Die
<1> QED BY Invariance, <1>2, PTL DEF Spec, RevisionsGrow

\* Where no call is refused a website test, the offer of a test is taken back
\* before it is executed, too.
THEOREM StressInvariance == NoStress = {} => (Spec => []StressInv)
<1> SUFFICES ASSUME NoStress = {} PROVE Spec => []StressInv
  OBVIOUS
<1>1. IInv /\ StressInv /\ [Next]_vars => StressInv'
  BY StressNext
<1> QED BY Invariance, InitInv, <1>1, PTL DEF Spec

\* However many calls overlap, die or fail to write, an operation none of whose
\* calls is refused a website test is executed at New Recruit or Tessera at
\* most once.
THEOREM ExecutedOnce == NoStress = {} => (Spec => []OneExecution)
<1> SUFFICES ASSUME NoStress = {} PROVE Spec => []OneExecution
  OBVIOUS
<1>1. StressInv => OneExecution
  BY DEF StressInv, OneExecution, Executed
<1> QED BY StressInvariance, <1>1, PTL

\* Under the same condition an action that is being executed, or may have been,
\* is never offered.
THEOREM NeverOfferedInDoubt == NoStress = {} => (Spec => []NoDoubtfulOffer)
<1> SUFFICES ASSUME NoStress = {} PROVE Spec => []NoDoubtfulOffer
  OBVIOUS
<1>1. IInv /\ StressInv => NoDoubtfulOffer
  BY DEF IInv, OfferInv, StressInv, NoDoubtfulOffer, NothingExecuted, Executed
<1> QED BY Invariance, StressInvariance, <1>1, PTL

=============================================================================
