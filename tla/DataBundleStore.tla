--------------------------- MODULE DataBundleStore ---------------------------
(***************************************************************************)
(* The store of data bundles of local/data-bundles/store.ts: immutable     *)
(* bundle directories, one state file that names the active bundle, its    *)
(* predecessors, the quarantines and the rollback hold, and one file per   *)
(* reference that keeps a bundle from being pruned.                        *)
(*                                                                         *)
(* Every mutation runs under the update lease (AbstractLease).  One that   *)
(* replaces a single file is one action: a crash leaves the file as it was *)
(* or as it becomes.  Installing and pruning touch several files and are   *)
(* as many actions, so that a crash may fall between any two of them.      *)
(*                                                                         *)
(* A reference is named by who wants it: a process for its snapshot, or a  *)
(* pin, a durable reference.  previousBundleIds is the function from a     *)
(* bundle to its place in that list, 0 for one that is not in it.          *)
(***************************************************************************)
EXTENDS Naturals

CONSTANTS
  Bundles,       \* bundle ids
  Procs,         \* processes that use the store; one that dies stays dead
  Readers,       \* those that take snapshots
  Pins,          \* the ids of durable references
  None,          \* no bundle, no process
  Fragile,       \* the bundles and references that may be damaged on disk
  KeptPrevious   \* PREVIOUS_BUNDLE_RETENTION

ASSUME StoreAssumption ==
  /\ None \notin Bundles \cup Procs
  /\ Readers \subseteq Procs /\ Procs \cap Pins = {}
  /\ KeptPrevious \in Nat \ {0}

Ids == Readers \cup Pins

VARIABLES
  bundles,      \* bundle directories in place
  damaged,      \* those that no longer verify
  active,       \* activeBundleId
  place,        \* previousBundleIds
  quarantined,  \* bundles with a quarantine
  hold,         \* the bundle of the rollback hold
  ref,          \* the bundle each reference file names
  garbled,      \* reference files that cannot be read
  lapsed,       \* snapshot references past their time to live
  alive,        \* live processes
  holder,       \* whose update lease is on disk
  phase,        \* what the holder is in the middle of
  target,       \* the bundle being installed
  activates,    \* installBundle's options.activate
  todo,         \* references still to remove, then bundles still to look at
  kept,         \* protectedIds of the retention under way
  pruned        \* the bundles it has pruned

state  == <<active, place, quarantined, hold>>
refs   == <<ref, garbled, lapsed>>
task   == <<phase, target, activates, todo, kept, pruned>>
vars   == <<bundles, damaged, state, refs, alive, holder, task>>

Phases == {"none", "staged", "placed", "expiring", "pruning"}

TypeOK ==
  /\ bundles \subseteq Bundles /\ damaged \subseteq bundles
  /\ active \in Bundles \cup {None}
  /\ place \in [Bundles -> 0..KeptPrevious]
  /\ quarantined \subseteq Bundles
  /\ hold \in Bundles \cup {None}
  /\ ref \in [Ids -> Bundles \cup {None}]
  /\ garbled \subseteq Ids /\ lapsed \subseteq Readers
  /\ alive \subseteq Procs
  /\ holder \in Procs \cup {None}
  /\ phase \in Phases
  /\ target \in Bundles \cup {None}
  /\ activates \in BOOLEAN
  /\ todo \subseteq Ids \cup Bundles
  /\ kept \subseteq Bundles /\ pruned \subseteq Bundles

Init ==
  /\ bundles = {} /\ damaged = {}
  /\ active = None /\ place = [b \in Bundles |-> 0]
  /\ quarantined = {} /\ hold = None
  /\ ref = [i \in Ids |-> None] /\ garbled = {} /\ lapsed = {}
  /\ alive = Procs /\ holder = None
  /\ phase = "none" /\ target = None /\ activates = FALSE
  /\ todo = {} /\ kept = {} /\ pruned = {}

-----------------------------------------------------------------------------
(* previousBundleIds *)

Previous == {b \in Bundles : place[b] > 0}

Without(list, b) ==
  [c \in Bundles |->
     IF c = b THEN 0
     ELSE IF list[b] > 0 /\ list[c] > list[b] THEN list[c] - 1 ELSE list[c]]

Ahead(list, b) ==
  [c \in Bundles |-> IF c = b THEN 1 ELSE IF list[c] = 0 THEN 0 ELSE list[c] + 1]

Newest(list) == [c \in Bundles |-> IF list[c] > KeptPrevious THEN 0 ELSE list[c]]

\* Mutant: the bundle that becomes active stays in the history.
HistoryRepeats(b) == IF active = None THEN place ELSE Newest(Ahead(place, active))

\* The history once b replaces the active bundle.
History(b) ==
  IF active = None THEN Without(place, b) ELSE Newest(Ahead(Without(place, b), active))

-----------------------------------------------------------------------------
(* The update lease *)

Free(p) == p \in alive /\ holder \notin alive

\* One mutation that replaces one file: acquire, check, replace, release.
Briefly(p) ==
  /\ Free(p)
  /\ holder' = None /\ phase' = "none"
  /\ UNCHANGED <<bundles, damaged, alive, target, activates, todo, kept, pruned>>

\* The first and the further steps of a mutation of several files.
Begin(p, to) == Free(p) /\ holder' = p /\ phase' = to
Continue(p, from, to) == p \in alive /\ holder = p /\ phase = from /\ phase' = to

Finish(p, from) ==
  /\ Continue(p, from, "none")
  /\ holder' = None

\* verifyInstalledBundle
Verifies(b) == b \in bundles \ damaged

-----------------------------------------------------------------------------
(* Install *)

\* The bundle is written to a directory beside its place.
InstallStage(p, b, act) ==
  /\ Begin(p, "staged")
  /\ b \notin quarantined /\ b \notin bundles
  /\ target' = b /\ activates' = act
  /\ UNCHANGED <<bundles, damaged, state, refs, alive, todo, kept, pruned>>

InstallPlace(p) ==
  /\ Continue(p, "staged", "placed")
  /\ bundles' = bundles \cup {target}
  /\ UNCHANGED <<damaged, state, refs, alive, holder, target, activates, todo, kept, pruned>>

\* A bundle that is there already is only verified.
InstallPresent(p, b, act) ==
  /\ Begin(p, "placed")
  /\ b \notin quarantined /\ Verifies(b)
  /\ target' = b /\ activates' = act
  /\ UNCHANGED <<bundles, damaged, state, refs, alive, todo, kept, pruned>>

\* Mutant: the hold is only looked at by the updater.
MayActivateHeld(b) == b \notin quarantined /\ Verifies(b)

\* activateLocked, up to the state it writes.
MayActivate(b) == hold \in {None, b} /\ b \notin quarantined /\ Verifies(b)

Activates(b) ==
  /\ active' = b
  /\ place' = IF active = b THEN place ELSE History(b)
  /\ UNCHANGED quarantined

InstallFinish(p) ==
  /\ Finish(p, "placed")
  /\ IF activates /\ MayActivate(target)
       THEN Activates(target) /\ UNCHANGED hold
       ELSE UNCHANGED state
  /\ target' = None /\ activates' = FALSE
  /\ UNCHANGED <<bundles, damaged, refs, alive, todo, kept, pruned>>

-----------------------------------------------------------------------------
(* The state file *)

Activate(p, b) ==
  /\ Briefly(p)
  /\ MayActivate(b)
  /\ Activates(b)
  /\ UNCHANGED <<hold, refs>>

\* Only an explicit rollback passes a hold, and moves it along.
Rollback(p, b) ==
  /\ Briefly(p)
  /\ b \notin quarantined /\ Verifies(b)
  /\ Activates(b)
  /\ hold' = b
  /\ UNCHANGED refs

SetHold(p, b) ==
  /\ Briefly(p)
  /\ b \notin quarantined /\ Verifies(b)
  /\ hold' = b
  /\ UNCHANGED <<active, place, quarantined, refs>>

ClearHold(p) ==
  /\ Briefly(p)
  /\ hold # None /\ hold' = None
  /\ UNCHANGED <<active, place, quarantined, refs>>

\* clearActiveBundle(expectedBundleId)
Deactivate(p) ==
  /\ Briefly(p)
  /\ active # None /\ active' = None
  /\ hold' = IF hold = active THEN None ELSE hold
  /\ UNCHANGED <<place, quarantined, refs>>

\* The most recent predecessor that may be active, if there is one.
Fallbacks(b) ==
  LET usable == {c \in Previous \ {b} : c \notin quarantined /\ Verifies(c)}
  IN  IF usable = {} THEN {None}
      ELSE {c \in usable : \A d \in usable : place[c] <= place[d]}

\* quarantineBundle: b need not be installed.
Quarantine(p, b) ==
  /\ Briefly(p)
  /\ quarantined' = quarantined \cup {b}
  /\ IF active = b
       THEN \E c \in Fallbacks(b) :
              /\ active' = c
              /\ place' = IF c = None THEN Without(place, b)
                                      ELSE Without(Without(place, b), c)
       ELSE active' = active /\ place' = Without(place, b)
  /\ hold' = IF hold = b THEN None ELSE hold
  /\ UNCHANGED refs

ClearQuarantine(p, b) ==
  /\ Briefly(p)
  /\ b \in quarantined /\ quarantined' = quarantined \ {b}
  /\ UNCHANGED <<active, place, hold, refs>>

-----------------------------------------------------------------------------
(* References *)

SetReference(i, b) ==
  /\ b \notin quarantined /\ Verifies(b)
  /\ ref' = [ref EXCEPT ![i] = b]
  /\ garbled' = garbled \ {i}
  /\ lapsed' = lapsed \ {i}

\* acquireSnapshot of the active bundle, or of the one the caller names.
AcquireSnapshot(p, b) ==
  /\ Briefly(p)
  /\ p \in Readers /\ ref[p] = None
  /\ SetReference(p, b)
  /\ UNCHANGED state

\* setBundleReference, for good.
SetPin(p, i, b) ==
  /\ Briefly(p)
  /\ SetReference(i, b)
  /\ UNCHANGED state

\* A file that is gone or cannot be read stays as it is.
Removes(i) ==
  /\ i \notin garbled
  /\ ref' = [ref EXCEPT ![i] = None]
  /\ lapsed' = lapsed \ {i}
  /\ UNCHANGED garbled

\* removeBundleReference, of a pin or of the caller's own snapshot.
RemoveReference(p, i) ==
  /\ Briefly(p)
  /\ i \in Pins \cup {p} /\ ref[i] # None
  /\ Removes(i)
  /\ UNCHANGED state

-----------------------------------------------------------------------------
(* Retention *)

\* A snapshot is wanted while its owner lives and its time is not up.
Wanted(i) == ref[i] # None /\ (i \in Readers => i \in alive /\ i \notin lapsed)

\* referenceIsLive, of a reference that readReferences could read.
Live(i) == i \notin garbled /\ Wanted(i)

\* Mutant: the hold protects nothing.
ProtectedWithoutHold(expired) ==
  ({active} \cup Previous \cup {ref[i] : i \in Ids \ expired}) \ {None}

\* protectedIds
Protected(expired) ==
  ({active, hold} \cup Previous \cup {ref[i] : i \in Ids \ expired}) \ {None}

\* Mutant: what cannot be read is passed over.
Readable == TRUE

\* One reference that cannot be read blocks the retention.
NoneGarbled == garbled = {}

RetentionStart(p) ==
  /\ Begin(p, "expiring")
  /\ NoneGarbled
  /\ todo' = {i \in Ids : i \notin garbled /\ ref[i] # None /\ ~Live(i)}
  /\ kept' = Protected({i \in Ids : ~Live(i)})
  /\ pruned' = {}
  /\ UNCHANGED <<bundles, damaged, state, refs, alive, target, activates>>

RetentionExpire(p, i) ==
  /\ Continue(p, "expiring", "expiring")
  /\ i \in todo /\ todo' = todo \ {i}
  /\ Removes(i)
  /\ UNCHANGED <<bundles, damaged, state, alive, holder, target, activates, kept, pruned>>

\* installedBundleIds, less the protected ones.
RetentionList(p) ==
  /\ Continue(p, "expiring", "pruning")
  /\ todo \cap Ids = {}
  /\ todo' = bundles \ kept
  /\ UNCHANGED <<bundles, damaged, state, refs, alive, holder, target, activates, kept, pruned>>

\* A bundle that does not verify stays, and so does one that was installed
\* less than retentionDays ago, which any bundle may have been.
RetentionKeep(p, b) ==
  /\ Continue(p, "pruning", "pruning")
  /\ b \in todo /\ todo' = todo \ {b}
  /\ UNCHANGED <<bundles, damaged, state, refs, alive, holder, target, activates, kept, pruned>>

RetentionPrune(p, b) ==
  /\ Continue(p, "pruning", "pruning")
  /\ b \in todo /\ todo' = todo \ {b}
  /\ b \notin damaged /\ bundles' = bundles \ {b}
  /\ pruned' = pruned \cup {b}
  /\ UNCHANGED <<damaged, state, refs, alive, holder, target, activates, kept>>

\* The quarantines of the pruned bundles are dropped with them.
RetentionFinish(p) ==
  /\ Finish(p, "pruning")
  /\ todo = {}
  /\ quarantined' = quarantined \ pruned
  /\ kept' = {} /\ pruned' = {}
  /\ UNCHANGED <<bundles, damaged, active, place, hold, refs, alive, target, activates, todo>>

-----------------------------------------------------------------------------
(* What happens to the store *)

\* What the holder of the lease knew is gone, what it did stays.
Forgets ==
  /\ phase' = "none" /\ target' = None /\ activates' = FALSE
  /\ todo' = {} /\ kept' = {} /\ pruned' = {}
  /\ UNCHANGED <<bundles, damaged, state, refs>>

\* A file-system call fails half-way: `finally` releases the lease.
Fail(p) ==
  /\ p \in alive /\ holder = p
  /\ Forgets
  /\ holder' = None
  /\ UNCHANGED alive

\* The lease of a dead holder is reclaimed with the next mutation.
Die(p) ==
  /\ p \in alive /\ alive' = alive \ {p}
  /\ IF holder = p THEN Forgets ELSE UNCHANGED <<bundles, damaged, state, refs, task>>
  /\ UNCHANGED holder

Damage(b) ==
  /\ b \in bundles \cap Fragile /\ damaged' = damaged \cup {b}
  /\ UNCHANGED <<bundles, state, refs, alive, holder, task>>

Lapse(p) ==
  /\ p \in Readers /\ ref[p] # None /\ lapsed' = lapsed \cup {p}
  /\ UNCHANGED <<bundles, damaged, state, ref, garbled, alive, holder, task>>

Garble(i) ==
  /\ i \in Fragile /\ ref[i] # None /\ garbled' = garbled \cup {i}
  /\ UNCHANGED <<bundles, damaged, state, ref, lapsed, alive, holder, task>>

Install(p) ==
  \/ \E b \in Bundles, act \in BOOLEAN : InstallStage(p, b, act) \/ InstallPresent(p, b, act)
  \/ InstallPlace(p) \/ InstallFinish(p)

Edit(p) ==
  \/ ClearHold(p) \/ Deactivate(p)
  \/ \E b \in Bundles :
       \/ Activate(p, b) \/ Rollback(p, b) \/ SetHold(p, b)
       \/ Quarantine(p, b) \/ ClearQuarantine(p, b)

Refer(p) ==
  \/ \E b \in Bundles : AcquireSnapshot(p, b) \/ \E i \in Pins : SetPin(p, i, b)
  \/ \E i \in Ids : RemoveReference(p, i)

Retain(p) ==
  \/ RetentionStart(p) \/ RetentionList(p) \/ RetentionFinish(p)
  \/ \E i \in Ids : RetentionExpire(p, i)
  \/ \E b \in Bundles : RetentionKeep(p, b) \/ RetentionPrune(p, b)

Next ==
  \/ \E p \in Procs : Install(p) \/ Edit(p) \/ Refer(p) \/ Retain(p) \/ Fail(p) \/ Die(p) \/ Lapse(p)
  \/ \E b \in Bundles : Damage(b)
  \/ \E i \in Ids : Garble(i)

Spec == Init /\ [][Next]_vars

-----------------------------------------------------------------------------
(* Properties *)

\* What the store writes, its own schema accepts on the next read: the
\* history repeats no bundle, and holds neither the active bundle nor, like
\* the active bundle and the held one, any that is quarantined.
StateIsValid ==
  /\ TypeOK
  /\ \A b, c \in Previous : place[b] = place[c] => b = c
  /\ active \notin Previous \cup quarantined
  /\ hold \notin quarantined
  /\ Previous \cap quarantined = {}

\* Whatever crashes in the middle of an install or a retention: the active
\* bundle, every predecessor and the held bundle are in place.
PointersResolve == ({active, hold} \cup Previous) \ {None} \subseteq bundles

\* A bundle is not pruned while a reference wants it, not even one that can
\* no longer be read.
WantedAreKept == \A i \in Ids : Wanted(i) => ref[i] \in bundles

\* While activation is held, an update does not move the active pointer: it
\* goes to the held bundle, or away from a bundle taken out of service.
HoldIsObeyed ==
  [][hold # None /\ active' # active =>
       \/ active' \in {hold', None}
       \/ active \in quarantined']_vars

=============================================================================
