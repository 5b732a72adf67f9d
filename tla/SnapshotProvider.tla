-------------------------- MODULE SnapshotProvider --------------------------
(***************************************************************************)
(* One process's data-bundle provider (lib/rosterpilot/                    *)
(* remote-data-bundle-provider.ts, local/data-bundles/provider.ts, with no *)
(* signed channel, as it is deployed) over the durable active pointer,     *)
(* which the updater moves too.                                            *)
(*                                                                         *)
(* The calls of one process run concurrently and give way to each other    *)
(* at every await.  One action is what a call does between two of them; a  *)
(* call that awaits another's activation goes on in the step that ends it. *)
(*                                                                         *)
(* An operation works on `engine`, the data set the whole process shares;  *)
(* the lease it took keeps the data set from being replaced under it.      *)
(* Bundles are numbered in the order in which the updater publishes them.  *)
(***************************************************************************)
EXTENDS Naturals

CONSTANTS
  Calls,      \* concurrent calls of the process
  Rollers,    \* those that may engage or lift a rollback hold
  Newest,     \* the last bundle the updater publishes
  None,       \* no bundle, no call
  Faults      \* which steps may fail

ASSUME ProviderAssumption ==
  /\ Newest \in Nat /\ Rollers \subseteq Calls /\ None \notin Calls \cup Nat
  /\ Faults \subseteq {"load", "activate", "switch", "retain", "persist", "release"}

Bundles == 0..Newest

VARIABLES
  published,   \* the newest bundle installed
  stored,      \* activeBundleId in the store
  storedHold,  \* rollbackHold in the store
  engine,      \* what activateRuntimeDataBundle has set
  active,      \* #active
  pending,     \* #pending
  hold,        \* #rollbackHold
  promise,     \* #activationPromise: the call whose activation it is
  same,        \* the activations that are about the object #pending still is
  stranded,    \* a lease is counted that will not be given back
  beside,      \* the activations that ran at the same time as another
  call         \* where each call is

store == <<published, stored, storedHold>>
calls == <<promise, stranded, beside>>
vars  == <<store, engine, active, pending, hold, same, calls, call>>

Stages == {"idle", "hold", "pointer", "load", "check", "await", "status", "publish", "switch",
           "unhold", "restore", "retain", "persist", "using", "releasing", "archive", "engaged", "lift", "lifted"}

Maybe == Bundles \cup {None}

TypeOK ==
  /\ published \in Bundles /\ stored \in Bundles /\ storedHold \in Maybe
  /\ engine \in Bundles /\ active \in Bundles
  /\ pending \in Maybe /\ hold \in Maybe
  /\ promise \in Calls \cup {None}
  /\ same \subseteq Calls /\ beside \subseteq Calls
  /\ stranded \in BOOLEAN
  /\ call \in [Calls -> [pc : Stages,
                         mode : {"none", "acquire", "status", "release", "rollback", "force"},
                         on : Calls \cup {None},    \* whose activation it awaits
                         seen : Maybe,              \* what it loads or activates
                         pointer : Maybe,           \* the store when its activation began
                         held : Maybe,
                         lease : Maybe]]            \* the snapshot it holds

Idle == [pc |-> "idle", mode |-> "none", on |-> None, seen |-> None,
         pointer |-> None, held |-> None, lease |-> None]

Init ==
  /\ published = 0 /\ stored = 0 /\ storedHold = None
  /\ engine = 0 /\ active = 0 /\ pending = None /\ hold = None /\ promise = None
  /\ same = {} /\ beside = {} /\ stranded = FALSE
  /\ call = [c \in Calls |-> Idle]

Leased == {c \in Calls : call[c].lease # None}

-----------------------------------------------------------------------------
(* A call between two awaits *)

At(c, stage) == call[c].pc = stage
Becomes(c, record) == call' = [call EXCEPT ![c] = record]
Goes(c, stage) == Becomes(c, [call[c] EXCEPT !.pc = stage])

\* A call that is through with activations takes its lease, or is done.
Through(r) ==
  IF r.mode = "acquire" THEN [Idle EXCEPT !.pc = "persist", !.lease = active'] ELSE Idle

Await(r) == [r EXCEPT !.pc = "await", !.on = promise, !.seen = None]

\* activatePendingIfSafe has returned: an acquisition awaits what runs now.
Returned(r) == IF promise # None /\ r.mode = "acquire" THEN Await(r) ELSE Through(r)

\* activatePendingIfSafe, up to its await.
Attempt(r) ==
  IF promise # None THEN Await(r)
  ELSE IF pending' = None THEN Through(r)
  ELSE [r EXCEPT !.pc = "check", !.seen = None]

-----------------------------------------------------------------------------
(* acquireSnapshot and getStatus *)

Start(c, m) ==
  /\ At(c, "idle")
  /\ m = "force" => c \in Rollers
  /\ Becomes(c, [Idle EXCEPT !.pc = "hold", !.mode = m])
  /\ UNCHANGED <<store, engine, active, pending, hold, same, calls>>

\* synchronizeRollbackHold
ReadHold(c) ==
  /\ At(c, "hold") /\ call[c].mode # "force"
  /\ hold' = storedHold
  /\ Goes(c, "pointer")
  /\ UNCHANGED <<store, engine, active, pending, same, calls>>

\* synchronizeActiveArchive, up to the bundle it loads.
Persisted == IF hold # None THEN hold ELSE stored

ReadPointer(c) ==
  /\ At(c, "pointer")
  /\ UNCHANGED <<store, engine, active, pending, hold, same, calls>>
  /\ IF Persisted \in {active, pending}
       THEN Becomes(c, Returned(call[c]))
       ELSE Becomes(c, [call[c] EXCEPT !.pc = "load", !.seen = Persisted])

\* #pending is a new object, also when it is of the same bundle.
Proposes(b) == pending' = b /\ same' = {}

Load(c) ==
  /\ At(c, "load")
  /\ UNCHANGED <<store, engine, active, hold, calls>>
  /\ \/ Proposes(call[c].seen) /\ Becomes(c, Attempt(call[c]))
     \/ "load" \in Faults /\ UNCHANGED <<pending, same>> /\ Becomes(c, Idle)

\* Mutant: the leases are not looked at again after the await.
BusyNever == FALSE

Busy == Leased # {} \/ stranded

Activating ==
  {c \in Calls : call[c].pc \in {"status", "publish", "switch", "unhold", "restore", "retain"}}

\* activatePendingIfSafe, after its await.  Neither the promise nor that
\* something is pending is looked at again: with nothing pending it throws.
Check(c) ==
  /\ At(c, "check")
  /\ hold' = storedHold
  /\ UNCHANGED <<store, engine, active, pending, stranded>>
  /\ \/ /\ hold' # None /\ pending = None
        /\ UNCHANGED <<same, promise, beside>> /\ Becomes(c, Idle)
     \/ /\ hold' # None /\ pending \notin {None, hold'}
        /\ UNCHANGED <<same, promise, beside>> /\ Becomes(c, Returned(call[c]))
     \/ /\ hold' \in {None, pending} /\ Busy
        /\ UNCHANGED <<same, promise, beside>> /\ Becomes(c, Returned(call[c]))
     \/ /\ hold' = None /\ ~Busy /\ pending = None
        /\ promise' = None /\ UNCHANGED <<same, beside>> /\ Becomes(c, Idle)
     \/ /\ hold' \in {None, pending} /\ ~Busy /\ pending # None
        /\ promise' = c /\ same' = same \cup {c}
        /\ beside' = IF Activating = {} THEN beside ELSE beside \cup Activating \cup {c}
        /\ Becomes(c, [call[c] EXCEPT !.pc = "status", !.seen = pending])

-----------------------------------------------------------------------------
(* An activation *)

\* The activation of c is over: the promise is dropped, also one that another
\* call has put in its place, and all that await c go on; what is pending is
\* dropped if it is still what c began with.  They throw if it failed.
Ends(c, well) ==
  /\ promise' = None
  /\ pending' = IF c \in same THEN None ELSE pending
  /\ same' = IF c \in same THEN {} ELSE same
  /\ beside' = beside \ {c}
  /\ UNCHANGED stranded
  /\ call' = [d \in Calls |-> IF d # c /\ call[d].on # c THEN call[d]
                             ELSE IF well THEN Through(call[d]) ELSE Idle]

Fails(c) == Ends(c, FALSE) /\ UNCHANGED active

\* The next step of an activation, or its end.
Proceed(c, stage) == Goes(c, stage) /\ UNCHANGED <<active, pending, same, calls>>

ReadStatus(c) ==
  /\ At(c, "status")
  /\ UNCHANGED <<store, engine, hold>>
  /\ \/ /\ Becomes(c, [call[c] EXCEPT !.pc = "publish", !.pointer = stored, !.held = storedHold])
        /\ UNCHANGED <<active, pending, same, calls>>
     \/ "load" \in Faults /\ Fails(c)

\* activateBundle: the pointer moves unless another bundle is held.
Points(b) ==
  /\ storedHold \in {None, b} /\ stored' = b
  /\ UNCHANGED <<published, storedHold>>

Refuses(b) == storedHold \notin {None, b} \/ "activate" \in Faults

Publish(c) ==
  LET b == call[c].seen
      moves == call[c].pointer # b
  IN
  /\ At(c, "publish")
  /\ UNCHANGED <<engine, hold>>
  /\ \/ moves /\ Points(b) /\ Proceed(c, "switch")
     \/ moves /\ Refuses(b) /\ UNCHANGED store /\ Fails(c)
     \/ ~moves /\ UNCHANGED store /\ Proceed(c, "switch")

\* activateRuntimeDataBundle replaces all of the data or throws.
Switch(c) ==
  LET back == IF call[c].held = call[c].seen THEN "unhold" ELSE "restore"
  IN
  /\ At(c, "switch")
  /\ UNCHANGED <<store, hold>>
  /\ \/ engine' = call[c].seen /\ Proceed(c, "retain")
     \/ /\ "switch" \in Faults /\ UNCHANGED engine
        /\ IF call[c].pointer = call[c].seen THEN Fails(c) ELSE Proceed(c, back)

\* The data could not be switched to a bundle whose rollback was asked for.
Unhold(c) ==
  /\ At(c, "unhold")
  /\ UNCHANGED <<published, stored, engine, hold>>
  /\ \/ storedHold' = None /\ Proceed(c, "restore")
     \/ "activate" \in Faults /\ UNCHANGED storedHold /\ Fails(c)

\* The pointer goes back to what it was when the activation began, and the
\* data with it, if it can; the activation has failed in any case.
Restore(c) ==
  LET old == call[c].pointer
  IN
  /\ At(c, "restore")
  /\ UNCHANGED hold
  /\ \/ Points(old) /\ (engine' = old \/ ("switch" \in Faults /\ UNCHANGED engine))
     \/ Refuses(old) /\ UNCHANGED <<store, engine>>
  /\ Fails(c)

\* Mutant: the calls that await the activation are left where they are.
EndsAlone(c) ==
  /\ At(c, "retain")
  /\ UNCHANGED <<store, engine, hold>>
  /\ active' = call[c].seen /\ promise' = None
  /\ pending' = IF c \in same THEN None ELSE pending
  /\ same' = IF c \in same THEN {} ELSE same
  /\ beside' = beside \ {c} /\ UNCHANGED stranded
  /\ Becomes(c, Through(call[c]))

\* enforceRetention, and the end of the activation.
Retain(c) ==
  /\ At(c, "retain")
  /\ UNCHANGED <<store, engine, hold>>
  /\ \/ active' = call[c].seen /\ Ends(c, TRUE)
     \/ "retain" \in Faults /\ Fails(c)

-----------------------------------------------------------------------------
(* The lease *)

\* The lease of the process is given back, and what is pending activated.
GivesBack(c) == Becomes(c, Attempt([Idle EXCEPT !.mode = "release"])) /\ UNCHANGED stranded

\* The store's own reference to the bundle of the lease.
Persist(c) ==
  /\ At(c, "persist")
  /\ UNCHANGED <<store, engine, active, pending, hold, same, promise, beside>>
  /\ \/ Goes(c, "using") /\ UNCHANGED stranded
     \/ "persist" \in Faults /\ GivesBack(c)

Use(c) ==
  /\ At(c, "using") /\ Goes(c, "releasing")
  /\ UNCHANGED <<store, engine, active, pending, hold, same, calls>>

\* The store's reference is given back first: when that throws, the lease of
\* the process stays counted.
Release(c) ==
  /\ At(c, "releasing")
  /\ UNCHANGED <<store, engine, active, pending, hold, same, promise, beside>>
  /\ \/ GivesBack(c)
     \/ "release" \in Faults /\ stranded' = TRUE /\ Becomes(c, Idle)

-----------------------------------------------------------------------------
(* rollback, and the refresh that lifts its hold *)

\* It begins when no activation is under way.
Rollback(c, b) ==
  /\ At(c, "idle") /\ c \in Rollers /\ promise = None /\ b <= published
  /\ Becomes(c, [Idle EXCEPT !.pc = "archive", !.mode = "rollback", !.seen = b])
  /\ UNCHANGED <<store, engine, active, pending, hold, same, calls>>

PersistHold(c) ==
  /\ At(c, "archive")
  /\ UNCHANGED <<published, stored, engine, active, pending, hold, same, calls>>
  /\ \/ storedHold' = call[c].seen /\ Goes(c, "engaged")
     \/ "load" \in Faults /\ UNCHANGED storedHold /\ Becomes(c, Idle)

Engage(c) ==
  /\ At(c, "engaged")
  /\ hold' = call[c].seen /\ Proposes(call[c].seen)
  /\ Becomes(c, Attempt(call[c]))
  /\ UNCHANGED <<store, engine, active, calls>>

\* refresh with force
ReadHoldToLift(c) ==
  /\ At(c, "hold") /\ call[c].mode = "force"
  /\ hold' = storedHold
  /\ IF hold' = None THEN Becomes(c, Idle) ELSE Goes(c, "lift")
  /\ UNCHANGED <<store, engine, active, pending, same, calls>>

ClearStoredHold(c) ==
  /\ At(c, "lift") /\ storedHold' = None /\ Goes(c, "lifted")
  /\ UNCHANGED <<published, stored, engine, active, pending, hold, same, calls>>

Lift(c) ==
  /\ At(c, "lifted") /\ hold' = None /\ Becomes(c, Idle)
  /\ UNCHANGED <<store, engine, active, pending, same, calls>>

-----------------------------------------------------------------------------
(* The updater *)

\* An update is installed; the updater activates it unless a bundle is held.
Update ==
  /\ published < Newest
  /\ published' = published + 1
  /\ stored' = IF storedHold = None THEN published + 1 ELSE stored
  /\ UNCHANGED <<storedHold, engine, active, pending, hold, same, calls, call>>

Activation(c) ==
  Check(c) \/ ReadStatus(c) \/ Publish(c) \/ Switch(c) \/ Unhold(c) \/ Restore(c) \/ Retain(c)

Proceeds(c) ==
  \/ ReadHold(c) \/ ReadPointer(c) \/ Load(c) \/ Activation(c)
  \/ Persist(c) \/ Use(c) \/ Release(c)
  \/ PersistHold(c) \/ Engage(c) \/ ReadHoldToLift(c) \/ ClearStoredHold(c) \/ Lift(c)

Next ==
  \/ Update
  \/ \E c \in Calls :
       \/ Proceeds(c)
       \/ \E m \in {"acquire", "status", "force"} : Start(c, m)
       \/ \E b \in Bundles : Rollback(c, b)

Spec == Init /\ [][Next]_vars

\* Every call that has begun goes on: what it awaits is I/O that ends.
LiveSpec == Spec /\ \A c \in Calls : SF_vars(Proceeds(c))

-----------------------------------------------------------------------------
(* Properties *)

\* An operation in flight sees one snapshot: the data set of the process is
\* not replaced while a lease is out, whatever is activated, rolled back or
\* fails beside it, except by an activation that ran beside another one.
OneSnapshot == [][engine' # engine => Leased = {} \/ beside # {}]_vars

\* The same without exception.  This does not hold: of two calls that both
\* found no activation under way both start one, and the first to end lets
\* leases be taken while the other has still to replace the data.
LeaseKeepsItsData == [][engine' # engine => Leased = {}]_vars

\* A call that awaits the activation of another ends like every other call,
\* also when the activation fails.
CallsEnd == \A c \in Calls : (call[c].pc # "idle") ~> (call[c].pc = "idle")

\* A provider follows the durable pointer: unless a bundle is held it does
\* not take back an update that was activated elsewhere.  This does not hold:
\* a bundle that is pending since before the update is activated over it.
UpdatesAreKept == [][stored' < stored => storedHold # None]_vars

=============================================================================
