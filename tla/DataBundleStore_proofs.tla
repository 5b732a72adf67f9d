------------------------ MODULE DataBundleStore_proofs ------------------------
(***************************************************************************)
(* DataBundleStore for any bundles, processes and references: what the     *)
(* store writes is valid, its pointers resolve, what is wanted is not      *)
(* pruned, and a hold is obeyed, wherever a crash falls.  The last part    *)
(* is about the lease that holds the store, DirectoryLease as an instance, *)
(* for any processes.                                                      *)
(***************************************************************************)
EXTENDS DataBundleStore, TLAPS

LEMMA Names ==
  /\ None \notin Bundles /\ None \notin Procs /\ Readers \subseteq Procs
  /\ KeptPrevious \in Nat /\ KeptPrevious > 0
BY StoreAssumption

-----------------------------------------------------------------------------
(* Histories *)

\* A list of bundles by their places, without repetition.
Listing(list) ==
  /\ list \in [Bundles -> Nat]
  /\ \A b, c \in Bundles : list[b] > 0 /\ list[b] = list[c] => b = c

LEMMA WithoutListing ==
  ASSUME NEW list, Listing(list), NEW b \in Bundles
  PROVE  /\ Listing(Without(list, b)) /\ Without(list, b)[b] = 0
         /\ \A c \in Bundles : Without(list, b)[c] <= list[c]
         /\ \A c \in Bundles : Without(list, b)[c] > 0 => list[c] > 0 /\ c # b
<1> DEFINE less == Without(list, b)
<1>1. list \in [Bundles -> Nat] /\ \A c \in Bundles : list[c] \in Nat
  BY DEF Listing
<1>2. \A c \in Bundles :
        less[c] = IF c = b THEN 0
                  ELSE IF list[b] > 0 /\ list[c] > list[b] THEN list[c] - 1 ELSE list[c]
  BY DEF Without
<1>3. less \in [Bundles -> Nat]
  BY <1>1 DEF Without
<1> HIDE DEF less
<1>4. \A c \in Bundles : less[c] <= list[c] /\ (less[c] > 0 => list[c] > 0 /\ c # b)
  <2> SUFFICES ASSUME NEW c \in Bundles
               PROVE  less[c] <= list[c] /\ (less[c] > 0 => list[c] > 0 /\ c # b)
    OBVIOUS
  <2>1. list[c] \in Nat /\ list[b] \in Nat
    BY <1>1
  <2>2. CASE c = b
    BY <1>2, <2>1, <2>2
  <2>3. CASE c # b
    <3>1. less[c] = IF list[b] > 0 /\ list[c] > list[b] THEN list[c] - 1 ELSE list[c]
      BY <1>2, <2>3
    <3> QED BY <2>1, <2>3, <3>1
  <2> QED BY <2>2, <2>3
<1>5. \A c, d \in Bundles : less[c] > 0 /\ less[c] = less[d] => c = d
  <2> SUFFICES ASSUME NEW c \in Bundles, NEW d \in Bundles, less[c] > 0, less[c] = less[d]
               PROVE  c = d
    OBVIOUS
  <2>1. c # b /\ d # b
    BY <1>2
  <2>2. list[c] # list[b] \/ list[b] = 0
    BY <1>1, <2>1 DEF Listing
  <2>3. list[d] # list[b] \/ list[b] = 0
    BY <1>1, <2>1 DEF Listing
  <2>4. list[c] = list[d] /\ list[c] > 0
    BY <1>1, <1>2, <2>1, <2>2, <2>3
  <2> QED BY <2>4 DEF Listing
<1> QED BY <1>2, <1>3, <1>4, <1>5 DEF Listing, less

\* A list that is not too long does not become so.
LEMMA ShortListing ==
  ASSUME NEW list, Listing(list), \A c \in Bundles : list[c] \in 0..KeptPrevious,
         NEW b \in Bundles
  PROVE  Without(list, b) \in [Bundles -> 0..KeptPrevious]
<1> DEFINE less == Without(list, b)
<1>1. less \in [Bundles -> Nat] /\ \A c \in Bundles : less[c] <= list[c]
  BY WithoutListing DEF Listing
<1> HIDE DEF less
<1>2. ASSUME NEW c \in Bundles PROVE less[c] \in 0..KeptPrevious
  <2>1. less[c] \in Nat /\ list[c] \in 0..KeptPrevious /\ less[c] <= list[c]
    BY <1>1
  <2> QED BY <2>1, Names
<1>3. less \in [Bundles -> 0..KeptPrevious]
  BY <1>1, <1>2
<1> QED BY <1>3 DEF less

LEMMA AheadListing ==
  ASSUME NEW list, Listing(list), NEW b \in Bundles, list[b] = 0
  PROVE  /\ Listing(Ahead(list, b))
         /\ \A c \in Bundles : Ahead(list, b)[c] > 0 => list[c] > 0 \/ c = b
<1> DEFINE more == Ahead(list, b)
<1>1. \A c \in Bundles : list[c] \in Nat
  BY DEF Listing
<1>2. \A c \in Bundles : more[c] = IF c = b THEN 1 ELSE IF list[c] = 0 THEN 0 ELSE list[c] + 1
  BY DEF Ahead
<1>3. more \in [Bundles -> Nat]
  BY <1>1 DEF Ahead
<1> HIDE DEF more
<1>4. \A c, d \in Bundles : more[c] > 0 /\ more[c] = more[d] => c = d
  <2> SUFFICES ASSUME NEW c \in Bundles, NEW d \in Bundles, more[c] > 0, more[c] = more[d],
                      c # d
               PROVE  FALSE
    OBVIOUS
  <2>1. c # b /\ d # b
    BY <1>1, <1>2
  <2>2. list[c] = list[d] /\ list[c] > 0
    BY <1>1, <1>2, <2>1
  <2> QED BY <2>2 DEF Listing
<1>5. \A c \in Bundles : more[c] > 0 => list[c] > 0 \/ c = b
  BY <1>1, <1>2
<1> QED BY <1>3, <1>4, <1>5 DEF Listing, more

LEMMA NewestListing ==
  ASSUME NEW list, Listing(list)
  PROVE  /\ Listing(Newest(list)) /\ Newest(list) \in [Bundles -> 0..KeptPrevious]
         /\ \A c \in Bundles : Newest(list)[c] > 0 => list[c] > 0
<1>1. \A c \in Bundles : list[c] \in Nat
  BY DEF Listing
<1>2. \A c \in Bundles : Newest(list)[c] = IF list[c] > KeptPrevious THEN 0 ELSE list[c]
  BY DEF Newest
<1>3. Newest(list) \in [Bundles -> 0..KeptPrevious]
  BY <1>1, Names DEF Newest
<1> QED BY <1>1, <1>2, <1>3, Names DEF Listing

-----------------------------------------------------------------------------
(* The inductive invariant *)

\* What must not be pruned.
Guarded == (({active, hold} \cup Previous) \ {None}) \cup {ref[i] : i \in {j \in Ids : Wanted(j)}}

\* Only a live holder is in the middle of something, and then nobody else
\* changes the state or a reference: what it meant to keep is still all there
\* is to keep, and nothing it is about to remove is part of it.
TaskInv ==
  /\ phase # "none" => holder \in alive
  /\ phase \in {"staged", "placed"} => target \in Bundles
  /\ phase \in {"expiring", "pruning"} => Guarded \subseteq kept
  /\ phase = "pruning" => todo \cap kept = {}

IInv == StateIsValid /\ PointersResolve /\ WantedAreKept /\ TaskInv

LEMMA PlaceListing ==
  ASSUME StateIsValid
  PROVE  /\ Listing(place) /\ \A b \in Bundles : place[b] \in 0..KeptPrevious
         /\ \A b \in Bundles : b \in Previous <=> place[b] > 0
         /\ active \in Bundles => place[active] = 0
<1>1. place \in [Bundles -> 0..KeptPrevious]
  BY DEF StateIsValid, TypeOK
<1>2. \A b \in Bundles : place[b] \in 0..KeptPrevious /\ place[b] \in Nat
  BY <1>1, Names
<1>3. \A b \in Bundles : b \in Previous <=> place[b] > 0
  BY DEF Previous
<1>4. Listing(place)
  BY <1>1, <1>2, <1>3 DEF Listing, StateIsValid
<1>5. active \in Bundles => place[active] = 0
  BY <1>2, <1>3 DEF StateIsValid
<1> QED BY <1>2, <1>3, <1>4, <1>5

\* The history without a bundle, and without two.
LEMMA LessHistory ==
  ASSUME StateIsValid, NEW b \in Bundles
  PROVE  /\ Listing(Without(place, b)) /\ Without(place, b) \in [Bundles -> 0..KeptPrevious]
         /\ \A c \in Bundles : Without(place, b)[c] > 0 => c \in Previous \ {b}
<1>1. \A c \in Bundles : place[c] \in 0..KeptPrevious
  BY PlaceListing
<1>2. Without(place, b) \in [Bundles -> 0..KeptPrevious]
  BY <1>1, PlaceListing, ShortListing
<1> QED BY <1>2, PlaceListing, WithoutListing

LEMMA LesserHistory ==
  ASSUME StateIsValid, NEW b \in Bundles, NEW c \in Bundles
  PROVE  /\ Listing(Without(Without(place, b), c))
         /\ Without(Without(place, b), c) \in [Bundles -> 0..KeptPrevious]
         /\ \A d \in Bundles : Without(Without(place, b), c)[d] > 0 => d \in Previous \ {b, c}
<1> DEFINE list == Without(place, b)
<1>1. Listing(list) /\ list \in [Bundles -> 0..KeptPrevious] /\ \A d \in Bundles : list[d] > 0 => d \in Previous \ {b}
  BY LessHistory
<1> HIDE DEF list
<1>2. /\ Listing(Without(list, c))
      /\ \A d \in Bundles : Without(list, c)[d] > 0 => list[d] > 0 /\ d # c
  BY <1>1, WithoutListing
<1>3. Without(list, c) \in [Bundles -> 0..KeptPrevious]
  BY <1>1, ShortListing
<1> QED BY <1>1, <1>2, <1>3 DEF list

\* The history once b is active.
LEMMA NewHistory ==
  ASSUME StateIsValid, NEW b \in Bundles, active # b
  PROVE  /\ Listing(History(b)) /\ History(b) \in [Bundles -> 0..KeptPrevious]
         /\ \A c \in Bundles : History(b)[c] > 0 => c \in (Previous \cup {active}) \ {b}
<1> DEFINE list == Without(place, b)
<1>1. Listing(list) /\ list \in [Bundles -> 0..KeptPrevious] /\ \A c \in Bundles : list[c] > 0 => c \in Previous \ {b}
  BY LessHistory
<1>2. CASE active = None
  BY <1>1, <1>2 DEF History
<1>3. CASE active # None
  <2>1. active \in Bundles /\ History(b) = Newest(Ahead(list, active))
    BY <1>3 DEF History, StateIsValid, TypeOK
  <2> HIDE DEF list
  <2>2. list[active] = 0
    <3>1. list[active] \in 0..KeptPrevious /\ ~(list[active] > 0)
      BY <1>1, <2>1 DEF StateIsValid
    <3> QED BY <3>1, Names
  <2>3. Listing(Ahead(list, active)) /\ \A c \in Bundles : Ahead(list, active)[c] > 0 => list[c] > 0 \/ c = active
    BY <1>1, <2>1, <2>2, AheadListing
  <2>4. /\ Listing(History(b)) /\ History(b) \in [Bundles -> 0..KeptPrevious]
        /\ \A c \in Bundles : History(b)[c] > 0 => Ahead(list, active)[c] > 0
    BY <2>1, <2>3, NewestListing
  <2> QED BY <1>1, <2>3, <2>4
<1> QED BY <1>2, <1>3

-----------------------------------------------------------------------------
(* The state file *)

\* What holds of the state file and of the directories it points to.
StateInv ==
  /\ active \in Bundles \cup {None} /\ hold \in Bundles \cup {None} /\ quarantined \subseteq Bundles
  /\ place \in [Bundles -> 0..KeptPrevious] /\ Listing(place)
  /\ active \notin Previous \cup quarantined
  /\ hold \notin quarantined
  /\ Previous \cap quarantined = {}
  /\ PointersResolve

\* What holds of the rest by its type alone.
RestType ==
  /\ bundles \subseteq Bundles /\ damaged \subseteq bundles
  /\ ref \in [Ids -> Bundles \cup {None}]
  /\ garbled \subseteq Ids /\ lapsed \subseteq Readers
  /\ alive \subseteq Procs
  /\ holder \in Procs \cup {None}
  /\ phase \in Phases
  /\ target \in Bundles \cup {None}
  /\ activates \in BOOLEAN
  /\ todo \subseteq Ids \cup Bundles
  /\ kept \subseteq Bundles /\ pruned \subseteq Bundles

LEMMA Parts == (StateIsValid /\ PointersResolve) <=> (StateInv /\ RestType)
<1>1. ASSUME StateIsValid, PointersResolve PROVE StateInv /\ RestType
  BY <1>1, PlaceListing DEF StateIsValid, TypeOK, StateInv, RestType
<1>2. ASSUME StateInv, RestType PROVE StateIsValid /\ PointersResolve
  <2>1. \A b, c \in Previous : place[b] = place[c] => b = c
    BY <1>2 DEF StateInv, Listing, Previous
  <2> QED BY <1>2, <2>1 DEF StateIsValid, TypeOK, StateInv, RestType
<1> QED BY <1>1, <1>2

\* The state file names b as the active bundle.
LEMMA ActivatesKeeps ==
  ASSUME StateIsValid, PointersResolve, NEW b, Activates(b), Verifies(b), b \notin quarantined,
         hold' \in {hold, b}, UNCHANGED bundles
  PROVE  StateInv'
<1>1. StateInv /\ RestType
  BY Parts
<1>2. b \in bundles /\ b \in Bundles
  BY <1>1 DEF Verifies, RestType
<1>3. active' = b /\ quarantined' = quarantined /\ hold' \in {hold, b}
  BY DEF Activates
<1>4. /\ place' \in [Bundles -> 0..KeptPrevious] /\ Listing(place')
      /\ \A c \in Bundles : place'[c] > 0 => c \in (Previous \cup {active}) \ {b}
  <2>1. CASE active = b
    BY <1>1, <2>1 DEF Activates, StateInv, Previous
  <2>2. CASE active # b
    BY <1>2, <2>2, NewHistory DEF Activates
  <2> QED BY <2>1, <2>2
<1>5. Previous' \subseteq (Previous \cup {active}) \ {b} /\ Previous' \subseteq Bundles
  BY <1>4 DEF Previous
<1> QED BY <1>1, <1>2, <1>3, <1>4, <1>5, Names DEF StateInv, PointersResolve

\* A bundle is put out of service.
LEMMA QuarantineKeeps ==
  ASSUME StateIsValid, PointersResolve, NEW p, NEW b \in Bundles, Quarantine(p, b)
  PROVE  StateInv'
<1>1. StateInv /\ RestType
  BY Parts
<1>2. /\ quarantined' = quarantined \cup {b} /\ hold' = IF hold = b THEN None ELSE hold
      /\ UNCHANGED bundles
  BY DEF Quarantine, Briefly
<1>3. /\ active' \in (bundles \cup {None}) \ quarantined' /\ active' \in Bundles \cup {None}
      /\ place' \in [Bundles -> 0..KeptPrevious] /\ Listing(place')
      /\ \A c \in Bundles : place'[c] > 0 => c \in Previous \ {b, active'}
  <2>1. CASE active = b
    <3>1. PICK c \in Fallbacks(b) :
            /\ active' = c
            /\ place' = IF c = None THEN Without(place, b) ELSE Without(Without(place, b), c)
      BY <2>1 DEF Quarantine
    <3>2. CASE c = None
      BY <1>1, <1>2, <3>1, <3>2, LessHistory, Names DEF StateInv
    <3>3. CASE c # None
      <4>1. c \in Previous \ {b} /\ c \notin quarantined /\ c \in bundles /\ c \in Bundles
        BY <3>1, <3>3 DEF Fallbacks, Verifies, Previous
      <4> QED BY <1>2, <3>1, <3>3, <4>1, LesserHistory
    <3> QED BY <3>2, <3>3
  <2>2. CASE active # b
    <3>1. active' = active /\ place' = Without(place, b)
      BY <2>2 DEF Quarantine
    <3> QED BY <1>1, <1>2, <2>2, <3>1, LessHistory, Names DEF StateInv, PointersResolve
  <2> QED BY <2>1, <2>2
<1>4. Previous' \subseteq Previous \ {b, active'} /\ Previous' \subseteq Bundles
  BY <1>3 DEF Previous
<1> QED BY <1>1, <1>2, <1>3, <1>4, Names DEF StateInv, PointersResolve

LEMMA EditKeeps ==
  ASSUME StateIsValid, PointersResolve, NEW p \in Procs, Edit(p)
  PROVE  StateInv'
<1>1. StateInv /\ RestType
  BY Parts
<1>2. ASSUME NEW b \in Bundles, Activate(p, b) \/ Rollback(p, b) PROVE StateInv'
  BY <1>2, ActivatesKeeps DEF Activate, Rollback, MayActivate, Briefly
<1>3. ASSUME NEW b \in Bundles, SetHold(p, b) PROVE StateInv'
  BY <1>1, <1>3 DEF SetHold, Briefly, Verifies, StateInv, PointersResolve, Previous
<1>4. ASSUME NEW b \in Bundles, ClearQuarantine(p, b) PROVE StateInv'
  BY <1>1, <1>4 DEF ClearQuarantine, Briefly, StateInv, PointersResolve, Previous
<1>5. CASE ClearHold(p)
  BY <1>1, <1>5, Names DEF ClearHold, Briefly, StateInv, PointersResolve, Previous
<1>6. CASE Deactivate(p)
  BY <1>1, <1>6, Names DEF Deactivate, Briefly, StateInv, PointersResolve, Previous
<1> QED BY <1>2, <1>3, <1>4, <1>5, <1>6, QuarantineKeeps DEF Edit

-----------------------------------------------------------------------------
(* Every step keeps the invariant *)

LEMMA EditStep ==
  ASSUME IInv, NEW p \in Procs, Edit(p)
  PROVE  IInv'
<1>1. StateInv' /\ RestType
  BY EditKeeps, Parts DEF IInv
<1>2. /\ holder' = None /\ phase' = "none"
      /\ UNCHANGED <<bundles, damaged, alive, target, activates, todo, kept, pruned, refs>>
  BY DEF Edit, ClearHold, Deactivate, Activate, Rollback, SetHold, Quarantine, ClearQuarantine,
         Briefly
<1>3. RestType'
  BY <1>1, <1>2 DEF RestType, refs, Phases
<1>4. StateIsValid' /\ PointersResolve'
  BY <1>1, <1>3, Parts, PTL
<1>5. WantedAreKept' /\ TaskInv'
  BY <1>2 DEF IInv, WantedAreKept, Wanted, TaskInv, refs
<1> QED BY <1>4, <1>5 DEF IInv

\* A step that leaves the state file and the bundles' directories alone.
LEMMA StateStays ==
  ASSUME IInv, RestType', UNCHANGED state, bundles \subseteq bundles'
  PROVE  StateIsValid' /\ PointersResolve'
<1>1. StateInv
  BY Parts DEF IInv
<1>2. StateInv'
  BY <1>1 DEF StateInv, PointersResolve, Previous, state
<1> QED BY <1>2, Parts, PTL

LEMMA InstallStep ==
  ASSUME IInv, NEW p \in Procs, Install(p)
  PROVE  IInv'
<1>1. StateInv /\ RestType /\ StateIsValid /\ PointersResolve
  BY Parts DEF IInv
<1>2. UNCHANGED <<refs, alive>>
  BY DEF Install, InstallStage, InstallPresent, InstallPlace, InstallFinish
<1>3. bundles \subseteq bundles' => WantedAreKept'
  BY <1>2 DEF IInv, WantedAreKept, Wanted, refs
<1>4. ASSUME NEW b \in Bundles, NEW act \in BOOLEAN, InstallStage(p, b,
             act) \/ InstallPresent(p, b, act)
      PROVE  IInv'
  <2>1. /\ holder' = p /\ p \in alive /\ phase' \in {"staged", "placed"} /\ target' = b /\ activates' = act
        /\ UNCHANGED <<bundles, damaged, state, refs, alive, todo, kept, pruned>>
    BY <1>4 DEF InstallStage, InstallPresent, Begin, Free
  <2>2. RestType' /\ TaskInv'
    BY <1>1, <2>1 DEF RestType, TaskInv, refs, Phases
  <2> QED BY <1>3, <2>1, <2>2, StateStays DEF IInv
<1>5. CASE InstallPlace(p)
  <2>1. /\ phase = "staged" /\ target \in Bundles /\ holder = p /\ p \in alive /\ phase' = "placed"
        /\ bundles' = bundles \cup {target}
        /\ UNCHANGED <<damaged, state, refs, alive, holder, target, activates, todo, kept, pruned>>
    BY <1>5 DEF InstallPlace, Continue, IInv, TaskInv
  <2>2. RestType' /\ TaskInv'
    BY <1>1, <2>1 DEF RestType, TaskInv, refs, Phases
  <2> QED BY <1>3, <2>1, <2>2, StateStays DEF IInv
<1>6. CASE InstallFinish(p)
  <2>1. /\ phase' = "none" /\ holder' = None /\ target' = None /\ activates' = FALSE
        /\ UNCHANGED <<bundles, damaged, refs, alive, todo, kept, pruned>>
    BY <1>6 DEF InstallFinish, Finish, Continue
  <2>2. RestType' /\ TaskInv'
    BY <1>1, <2>1 DEF RestType, TaskInv, refs, Phases
  <2>3. CASE activates /\ MayActivate(target)
    <3>1. StateInv'
      BY <1>1, <1>6, <2>1, <2>3, ActivatesKeeps DEF InstallFinish, MayActivate
    <3>2. StateIsValid' /\ PointersResolve'
      BY <2>2, <3>1, Parts, PTL
    <3> QED BY <1>3, <2>1, <2>2, <3>2 DEF IInv
  <2>4. CASE ~(activates /\ MayActivate(target))
    <3>1. UNCHANGED state
      BY <1>6, <2>4 DEF InstallFinish
    <3> QED BY <1>3, <2>1, <2>2, <3>1, StateStays DEF IInv
  <2> QED BY <2>3, <2>4
<1> QED BY <1>4, <1>5, <1>6 DEF Install

LEMMA ReferStep ==
  ASSUME IInv, NEW p \in Procs, Refer(p)
  PROVE  IInv'
<1>1. RestType
  BY Parts DEF IInv
<1>2. /\ holder' = None /\ phase' = "none"
      /\ UNCHANGED <<bundles, damaged, alive, target, activates, todo, kept, pruned, state>>
  BY DEF Refer, AcquireSnapshot, SetPin, RemoveReference, Briefly
<1>3. \E i \in Ids :
        \/ \E b \in Bundles : SetReference(i, b)
        \/ Removes(i)
  BY DEF Refer, AcquireSnapshot, SetPin, RemoveReference, Ids
<1>4. PICK i \in Ids : (\E b \in Bundles : SetReference(i, b)) \/ Removes(i)
  BY <1>3
<1>5. /\ ref' \in [Ids -> Bundles \cup {None}] /\ garbled' \subseteq Ids /\ lapsed' = lapsed \ {i}
      /\ ref'[i] \in bundles \cup {None} /\ \A j \in Ids : j # i => ref'[j] = ref[j]
  BY <1>1, <1>4 DEF SetReference, Removes, Verifies, RestType
<1>6. RestType' /\ TaskInv'
  BY <1>1, <1>2, <1>5 DEF RestType, TaskInv, Phases
<1>7. WantedAreKept'
  <2> SUFFICES ASSUME NEW j \in Ids, Wanted(j)' PROVE ref'[j] \in bundles
    BY <1>2 DEF WantedAreKept
  <2>1. CASE j = i
    BY <1>5, <2>1 DEF Wanted
  <2>2. CASE j # i
    BY <1>2, <1>5, <2>2 DEF Wanted, WantedAreKept, IInv
  <2> QED BY <2>1, <2>2
<1> QED BY <1>2, <1>6, <1>7, StateStays DEF IInv

LEMMA RetainStep ==
  ASSUME IInv, NEW p \in Procs, Retain(p)
  PROVE  IInv'
<1>1. StateInv /\ RestType
  BY Parts DEF IInv
<1>2. CASE RetentionStart(p)
  <2>1. /\ holder' = p /\ p \in alive /\ phase' = "expiring" /\ garbled = {}
        /\ todo' \subseteq Ids /\ pruned' = {}
        /\ kept' = Protected({i \in Ids : ~Live(i)})
        /\ UNCHANGED <<bundles, damaged, state, refs, alive, target, activates>>
    BY <1>2 DEF RetentionStart, Begin, Free, NoneGarbled
  <2>2. kept' \subseteq Bundles
    BY <1>1, <2>1 DEF Protected, RestType, StateInv, Previous
  <2>3. Guarded \subseteq kept'
    <3>1. \A i \in Ids : Wanted(i) => Live(i) /\ ref[i] # None
      BY <2>1 DEF Wanted, Live
    <3> QED BY <2>1, <3>1 DEF Guarded, Protected
  <2>4. Guarded' = Guarded
    BY <2>1 DEF Guarded, Previous, Wanted, state, refs
  <2>5. RestType'
    BY <1>1, <2>1, <2>2 DEF RestType, refs, Phases
  <2>6. WantedAreKept'
    BY <2>1 DEF WantedAreKept, Wanted, refs, IInv
  <2>7. TaskInv'
    BY <2>1, <2>3, <2>4 DEF TaskInv
  <2> QED BY <2>1, <2>5, <2>6, <2>7, StateStays DEF IInv
<1>3. ASSUME NEW i \in Ids, RetentionExpire(p, i) PROVE IInv'
  <2>1. /\ phase = "expiring" /\ phase' = phase /\ todo' \subseteq todo
        /\ ref' = [ref EXCEPT ![i] = None] /\ lapsed' = lapsed \ {i} /\ UNCHANGED garbled
        /\ UNCHANGED <<bundles, damaged, state, alive, holder, target, activates, kept, pruned>>
    BY <1>3 DEF RetentionExpire, Continue, Removes
  <2>2. \A j \in Ids : Wanted(j)' => Wanted(j) /\ ref'[j] = ref[j]
    BY <1>1, <2>1 DEF Wanted, RestType
  <2>3. Guarded' \subseteq Guarded
    BY <2>1, <2>2 DEF Guarded, Previous, state
  <2>4. RestType'
    BY <1>1, <2>1 DEF RestType, Phases
  <2>5. WantedAreKept'
    BY <2>1, <2>2 DEF WantedAreKept, IInv
  <2>6. TaskInv'
    BY <2>1, <2>3 DEF TaskInv, IInv
  <2> QED BY <2>1, <2>4, <2>5, <2>6, StateStays DEF IInv
<1>4. ASSUME \/ RetentionList(p)
             \/ \E b \in Bundles : RetentionKeep(p, b)
      PROVE  IInv'
  <2>1. /\ phase \in {"expiring", "pruning"} /\ phase' = "pruning" /\ holder \in alive
        /\ todo' \subseteq bundles \cup todo /\ todo' \cap kept = {}
        /\ UNCHANGED <<bundles, damaged, state, refs, alive, holder, target, activates, kept, pruned>>
    BY <1>4 DEF RetentionList, RetentionKeep, Continue, IInv, TaskInv
  <2>2. Guarded' = Guarded
    BY <2>1 DEF Guarded, Previous, Wanted, state, refs
  <2>3. RestType'
    BY <1>1, <2>1 DEF RestType, refs, Phases
  <2>4. WantedAreKept'
    BY <2>1 DEF WantedAreKept, Wanted, refs, IInv
  <2>5. TaskInv'
    BY <2>1, <2>2 DEF TaskInv, IInv
  <2> QED BY <2>1, <2>3, <2>4, <2>5, StateStays DEF IInv
<1>5. ASSUME NEW b \in Bundles, RetentionPrune(p, b) PROVE IInv'
  <2>1. /\ phase = "pruning" /\ phase' = "pruning" /\ b \in todo /\ todo' = todo \ {b}
        /\ b \notin damaged /\ bundles' = bundles \ {b} /\ pruned' = pruned \cup {b}
        /\ UNCHANGED <<damaged, state, refs, alive, holder, target, activates, kept>>
    BY <1>5 DEF RetentionPrune, Continue
  <2>2. Guarded \subseteq kept /\ b \notin kept /\ Guarded' = Guarded
    BY <2>1 DEF IInv, TaskInv, Guarded, Previous, Wanted, state, refs
  <2>3. RestType'
    BY <1>1, <2>1 DEF RestType, refs, Phases
  <2>4. StateInv'
    BY <1>1, <2>1, <2>2 DEF StateInv, PointersResolve, Guarded, Previous, state
  <2>5. StateIsValid' /\ PointersResolve'
    BY <2>3, <2>4, Parts, PTL
  <2>6. WantedAreKept'
    <3>1. \A i \in Ids : Wanted(i) => ref[i] \in bundles /\ ref[i] # b
      BY <2>2 DEF IInv, WantedAreKept, Guarded
    <3> QED BY <2>1, <3>1 DEF WantedAreKept, Wanted, refs
  <2>7. TaskInv'
    BY <2>1, <2>2 DEF IInv, TaskInv
  <2> QED BY <2>5, <2>6, <2>7 DEF IInv
<1>6. CASE RetentionFinish(p)
  <2>1. /\ phase' = "none" /\ holder' = None /\ quarantined' \subseteq quarantined
        /\ kept' = {} /\ pruned' = {}
        /\ UNCHANGED <<bundles, damaged, active, place, hold, refs, alive, target, activates, todo>>
    BY <1>6 DEF RetentionFinish, Finish, Continue
  <2>2. RestType'
    BY <1>1, <2>1 DEF RestType, refs, Phases
  <2>3. StateInv'
    BY <1>1, <2>1 DEF StateInv, PointersResolve, Previous
  <2>4. StateIsValid' /\ PointersResolve'
    BY <2>2, <2>3, Parts, PTL
  <2>5. WantedAreKept' /\ TaskInv'
    BY <2>1 DEF IInv, WantedAreKept, Wanted, TaskInv, refs
  <2> QED BY <2>4, <2>5 DEF IInv
<1> QED BY <1>2, <1>3, <1>4, <1>5, <1>6 DEF Retain

\* What happens to the store: fewer live processes want fewer bundles.
LEMMA AccidentStep ==
  ASSUME IInv, \/ \E p \in Procs : Fail(p) \/ Die(p) \/ Lapse(p)
               \/ \E b \in Bundles : Damage(b)
               \/ \E i \in Ids : Garble(i)
  PROVE  IInv'
<1>1. RestType
  BY Parts DEF IInv
<1>2. /\ UNCHANGED <<bundles, state, ref>> /\ alive' \subseteq alive /\ lapsed \subseteq lapsed'
      /\ lapsed' \subseteq Readers /\ garbled' \subseteq Ids
      /\ damaged' \subseteq bundles /\ holder' \in {holder, None}
      /\ \/ UNCHANGED task /\ holder' = holder /\ (holder \in alive => holder \in alive')
         \/ Forgets
         \/ UNCHANGED task /\ holder' = holder /\ holder \notin alive
  BY <1>1 DEF Fail, Die, Lapse, Damage, Garble, Forgets, refs, RestType
<1>3. \A i \in Ids : Wanted(i)' => Wanted(i) /\ ref'[i] = ref[i]
  BY <1>2 DEF Wanted
<1>4. Guarded' \subseteq Guarded
  BY <1>2, <1>3 DEF Guarded, Previous, state
<1>5. RestType'
  BY <1>1, <1>2 DEF RestType, task, Forgets, Phases
<1>6. WantedAreKept'
  BY <1>2, <1>3 DEF IInv, WantedAreKept
<1>7. TaskInv'
  BY <1>2, <1>4 DEF IInv, TaskInv, task, Forgets
<1> QED BY <1>2, <1>5, <1>6, <1>7, StateStays DEF IInv

LEMMA InitIInv == Init => IInv
<1> SUFFICES ASSUME Init PROVE IInv
  OBVIOUS
<1>1. /\ place \in [Bundles -> 0..KeptPrevious] /\ Previous = {}
  BY Names DEF Init, Previous
<1>2. Listing(place)
  BY DEF Init, Listing
<1>3. StateInv
  BY <1>1, <1>2, Names DEF Init, StateInv, PointersResolve
<1>4. RestType
  BY DEF Init, RestType, Phases
<1>5. WantedAreKept /\ TaskInv
  BY DEF Init, WantedAreKept, Wanted, TaskInv
<1> QED BY <1>3, <1>4, <1>5, Parts DEF IInv

LEMMA StutterIInv == IInv /\ UNCHANGED vars => IInv'
<1> SUFFICES ASSUME IInv, UNCHANGED vars PROVE IInv'
  OBVIOUS
<1>1. RestType /\ RestType'
  BY Parts DEF IInv, vars, RestType, refs, task
<1> QED BY <1>1, StateStays
        DEF IInv, vars, refs, task, state, WantedAreKept, Wanted, TaskInv, Guarded, Previous

\* For any bundles and processes, whatever crashes wherever: what the state
\* file says is valid, what it points to and what is wanted is in place, and a
\* retention that is under way knows all that has to be kept.
THEOREM Invariance == Spec => []IInv
<1>1. IInv /\ [Next]_vars => IInv'
  BY EditStep, InstallStep, ReferStep, RetainStep, AccidentStep, StutterIInv DEF Next
<1> QED BY <1>1, InitIInv, PTL DEF Spec

\* What the store writes, its own schema accepts on the next read.
THEOREM WhatIsWrittenIsValid == Spec => []StateIsValid
<1>1. IInv => StateIsValid
  BY DEF IInv
<1> QED BY <1>1, Invariance, PTL

\* The active bundle, its predecessors and the held bundle are in place, also
\* after a crash in the middle of an install or of a retention.
THEOREM PointersAlwaysResolve == Spec => []PointersResolve
<1>1. IInv => PointersResolve
  BY DEF IInv
<1> QED BY <1>1, Invariance, PTL

\* A bundle that a reference wants is not pruned.
THEOREM NothingWantedIsPruned == Spec => []WantedAreKept
<1>1. IInv => WantedAreKept
  BY DEF IInv
<1> QED BY <1>1, Invariance, PTL

\* A held activation moves to the held bundle only, or away from a bundle that
\* is taken out of service.
THEOREM HoldsAreObeyed == Spec => HoldIsObeyed
<1>1. ASSUME Next, hold # None, active' # active
      PROVE  active' \in {hold', None} \/ active \in quarantined'
  <2>1. \E p \in Procs : Edit(p) \/ InstallFinish(p)
    BY <1>1 DEF Next, Install, InstallStage, InstallPresent, InstallPlace, Refer,
                AcquireSnapshot, SetPin, RemoveReference, Retain, RetentionStart,
                RetentionExpire, RetentionList, RetentionKeep, RetentionPrune, RetentionFinish,
                Fail, Die, Lapse, Damage, Garble, Forgets, state
  <2>2. PICK p \in Procs : Edit(p) \/ InstallFinish(p)
    BY <2>1
  <2>3. CASE InstallFinish(p)
    BY <1>1, <2>3 DEF InstallFinish, MayActivate, Activates, state
  <2>4. CASE Edit(p)
    BY <1>1, <2>4 DEF Edit, ClearHold, Deactivate, Activate, Rollback, SetHold, Quarantine,
                      ClearQuarantine, MayActivate, Activates
  <2> QED BY <2>2, <2>3, <2>4
<1>2. [Next]_vars => [hold # None /\ active' # active =>
                        active' \in {hold', None} \/ active \in quarantined']_vars
  BY <1>1 DEF vars, state
<1> QED BY <1>2, PTL DEF Spec, HoldIsObeyed

-----------------------------------------------------------------------------
(* The update lease *)

CONSTANTS NoDir, NoOwner
VARIABLES lease, aged, pc, seen, stale, robbed

\* The protocol behind `holder', which the other leases of the system follow
\* too: DirectoryLease among the processes of the store, with its own files.
Lease == INSTANCE DirectoryLease

LEMMA LeaseInit == Lease!LeaseAssumption /\ Lease!Init => Lease!IInv
BY DEF Lease!LeaseAssumption, Lease!Init, Lease!IInv, Lease!TypeOK, Lease!OwnerOnDisk,
       Lease!RobbedInv, Lease!DiskInv, Lease!FreshInv, Lease!JudgedInv,
       Lease!Recovering, Lease!Dead, Lease!Holds

\* The steps that create, own and give back the directory.
LEMMA HolderInv ==
  ASSUME Lease!LeaseAssumption, Lease!IInv, NEW p \in Procs,
         \/ Lease!Mkdir(p) \/ Lease!WriteOwner(p) \/ Lease!WriteOwnerExists(p)
         \/ Lease!WriteOwnerMissing(p) \/ Lease!ReleaseStep(p)
  PROVE  Lease!IInv'
<1> USE DEF Lease!LeaseAssumption, Lease!IInv, Lease!TypeOK, Lease!Holds, Lease!OwnerOnDisk,
            Lease!RobbedInv, Lease!DiskInv, Lease!FreshInv, Lease!JudgedInv,
            Lease!Recovering, Lease!Dead, Lease!Step, Lease!Changes, Lease!history
<1>1. CASE Lease!Mkdir(p)
  BY <1>1 DEF Lease!Mkdir
<1>2. CASE Lease!WriteOwner(p)
  <2>1. Lease!TypeOK'
    BY <1>2 DEF Lease!WriteOwner
  <2>2. Lease!OwnerOnDisk'
    BY <1>2 DEF Lease!WriteOwner
  <2>3. Lease!RobbedInv'
    BY <1>2 DEF Lease!WriteOwner
  <2>4. Lease!DiskInv'
    BY <1>2 DEF Lease!WriteOwner
  <2>5. Lease!FreshInv'
    BY <1>2 DEF Lease!WriteOwner
  <2>6. Lease!JudgedInv'
    BY <1>2 DEF Lease!WriteOwner
  <2> QED BY <2>1, <2>2, <2>3, <2>4, <2>5, <2>6
<1>3. CASE Lease!WriteOwnerExists(p) \/ Lease!WriteOwnerMissing(p)
  BY <1>3 DEF Lease!WriteOwnerExists, Lease!WriteOwnerMissing
<1>4. CASE Lease!Release(p)
  BY <1>4 DEF Lease!Release
<1>5. CASE Lease!ReleaseLost(p)
  BY <1>5 DEF Lease!ReleaseLost
<1>6. CASE Lease!Remove(p) /\ p \in robbed
  <2>1. Lease!TypeOK'
    BY <1>6 DEF Lease!Remove, Lease!Robs
  <2>2. Lease!OwnerOnDisk'
    BY <1>6 DEF Lease!Remove, Lease!Robs
  <2>3. Lease!RobbedInv'
    BY <1>6 DEF Lease!Remove, Lease!Robs
  <2>4. Lease!DiskInv'
    BY <1>6 DEF Lease!Remove, Lease!Robs
  <2>5. Lease!FreshInv'
    BY <1>6 DEF Lease!Remove, Lease!Robs
  <2>6. Lease!JudgedInv'
    BY <1>6 DEF Lease!Remove, Lease!Robs
  <2> QED BY <2>1, <2>2, <2>3, <2>4, <2>5, <2>6
<1>7. CASE Lease!Remove(p) /\ p \notin robbed
  <2>1. Lease!TypeOK'
    BY <1>7 DEF Lease!Remove
  <2>2. Lease!OwnerOnDisk'
    BY <1>7 DEF Lease!Remove
  <2>3. Lease!RobbedInv'
    BY <1>7 DEF Lease!Remove
  <2>4. Lease!DiskInv'
    BY <1>7 DEF Lease!Remove
  <2>5. Lease!FreshInv'
    BY <1>7 DEF Lease!Remove
  <2>6. Lease!JudgedInv'
    BY <1>7 DEF Lease!Remove
  <2> QED BY <2>1, <2>2, <2>3, <2>4, <2>5, <2>6
<1> QED BY <1>1, <1>2, <1>3, <1>4, <1>5, <1>6, <1>7 DEF Lease!ReleaseStep

\* The steps that wait, read, judge and reclaim.
LEMMA RecoverInv ==
  ASSUME Lease!LeaseAssumption, Lease!IInv, NEW p \in Procs,
         \/ Lease!Acquire(p) \/ Lease!MkdirExists(p) \/ Lease!Retry(p)
         \/ Lease!TimeOut(p) \/ Lease!Recover(p)
  PROVE  Lease!IInv'
<1> USE DEF Lease!LeaseAssumption, Lease!IInv, Lease!TypeOK, Lease!Holds, Lease!OwnerOnDisk,
            Lease!RobbedInv, Lease!DiskInv, Lease!FreshInv, Lease!JudgedInv,
            Lease!Recovering, Lease!Dead, Lease!Step, Lease!Forgets, Lease!history
<1>1. CASE Lease!Acquire(p) \/ Lease!MkdirExists(p) \/ Lease!Retry(p) \/ Lease!TimeOut(p)
  BY <1>1 DEF Lease!Acquire, Lease!MkdirExists, Lease!Retry, Lease!TimeOut
<1>2. CASE Lease!ReadOwner(p)
  BY <1>2 DEF Lease!ReadOwner
<1>3. CASE Lease!JudgeAbandoned(p)
  BY <1>3 DEF Lease!JudgeAbandoned, Lease!Abandoned
<1>4. CASE Lease!JudgeLive(p) \/ Lease!RenameMissing(p)
  BY <1>4 DEF Lease!JudgeLive, Lease!RenameMissing
<1>5. CASE Lease!Rename(p) /\ p \in stale
  <2>1. Lease!TypeOK'
    BY <1>5 DEF Lease!Rename, Lease!Robs
  <2>2. Lease!OwnerOnDisk'
    BY <1>5 DEF Lease!Rename, Lease!Robs
  <2>3. Lease!RobbedInv'
    BY <1>5 DEF Lease!Rename, Lease!Robs
  <2>4. Lease!DiskInv'
    BY <1>5 DEF Lease!Rename, Lease!Robs
  <2>5. Lease!FreshInv'
    BY <1>5 DEF Lease!Rename, Lease!Robs
  <2>6. Lease!JudgedInv'
    BY <1>5 DEF Lease!Rename, Lease!Robs
  <2> QED BY <2>1, <2>2, <2>3, <2>4, <2>5, <2>6
<1>6. CASE Lease!Rename(p) /\ p \notin stale
  <2>1. Lease!TypeOK'
    BY <1>6 DEF Lease!Rename
  <2>2. Lease!OwnerOnDisk'
    BY <1>6 DEF Lease!Rename
  <2>3. Lease!RobbedInv'
    BY <1>6 DEF Lease!Rename
  <2>4. Lease!DiskInv'
    BY <1>6 DEF Lease!Rename
  <2>5. Lease!FreshInv'
    BY <1>6 DEF Lease!Rename
  <2>6. Lease!JudgedInv'
    BY <1>6 DEF Lease!Rename
  <2> QED BY <2>1, <2>2, <2>3, <2>4, <2>5, <2>6
<1> QED BY <1>1, <1>2, <1>3, <1>4, <1>5, <1>6 DEF Lease!Recover

LEMMA DieInv ==
  ASSUME Lease!LeaseAssumption, Lease!IInv, NEW p \in Procs, Lease!Die(p)
  PROVE  Lease!IInv'
BY DEF Lease!LeaseAssumption, Lease!IInv, Lease!TypeOK, Lease!Holds, Lease!OwnerOnDisk,
       Lease!RobbedInv, Lease!DiskInv, Lease!FreshInv, Lease!JudgedInv,
       Lease!Recovering, Lease!Dead, Lease!Die, Lease!Forgets

LEMMA LeaseKept ==
  Lease!LeaseAssumption /\ Lease!IInv /\ [Lease!Next]_Lease!vars => Lease!IInv'
<1> SUFFICES ASSUME Lease!LeaseAssumption, Lease!IInv, [Lease!Next]_Lease!vars
             PROVE  Lease!IInv'
  OBVIOUS
<1>1. CASE UNCHANGED Lease!vars \/ Lease!Age
  BY <1>1 DEF Lease!IInv, Lease!TypeOK, Lease!Recovering, Lease!Dead, Lease!Holds,
              Lease!OwnerOnDisk, Lease!RobbedInv, Lease!DiskInv, Lease!FreshInv,
              Lease!JudgedInv, Lease!vars, Lease!Age, Lease!history
<1>2. ASSUME NEW p \in Procs, Lease!Proc(p) PROVE Lease!IInv'
  BY <1>2, HolderInv, RecoverInv, DieInv DEF Lease!Proc, Lease!AcquireStep
<1> QED BY <1>1, <1>2 DEF Lease!Next

LEMMA LeaseInvariance == Lease!LeaseAssumption => (Lease!Spec => []Lease!IInv)
<1> SUFFICES ASSUME Lease!LeaseAssumption PROVE Lease!Spec => []Lease!IInv
  OBVIOUS
<1>1. Lease!IInv /\ [Lease!Next]_Lease!vars => Lease!IInv'
  BY LeaseKept
<1> QED BY LeaseInit, <1>1, PTL DEF Lease!Spec

\* Every variable keeps its type, however the calls of the processes fall.
THEOREM LeaseTypes == Lease!LeaseAssumption => (Lease!Spec => []Lease!TypeOK)
<1>1. Lease!IInv => Lease!TypeOK
  BY DEF Lease!IInv
<1> QED BY <1>1, LeaseInvariance, PTL

\* However many callers compete, pause and die, of two inside the section the
\* lease guards one has lost its directory, to a recoverer that took it for the
\* one it had read or to a caller that had lost its own.
THEOREM Exclusion == Lease!LeaseAssumption => (Lease!Spec => []Lease!MutualExclusion)
<1> SUFFICES ASSUME Lease!LeaseAssumption PROVE Lease!Spec => []Lease!MutualExclusion
  OBVIOUS
<1>1. Lease!IInv => Lease!MutualExclusion
  BY DEF Lease!IInv, Lease!OwnerOnDisk, Lease!MutualExclusion
<1> QED BY <1>1, LeaseInvariance, PTL

\* A holder that was not robbed is the owner on disk, so its release takes away
\* no directory but its own.
THEOREM Ownership == Lease!LeaseAssumption => (Lease!Spec => []Lease!OwnerOnDisk)
<1>1. Lease!IInv => Lease!OwnerOnDisk
  BY DEF Lease!IInv, Lease!OwnerOnDisk
<1> QED BY <1>1, LeaseInvariance, PTL

\* A step that leaves the owner and the unrobbed holders be stutters.
LEMMA LeaseStutter ==
  ASSUME lease' = lease, ({p \in Procs : Lease!Holds(p)} \ robbed)'
                           = {p \in Procs : Lease!Holds(p)} \ robbed
  PROVE  UNCHANGED Lease!Abstract!leaseVars
BY DEF Lease!Abstract!leaseVars

\* Each step of the protocol is a step of the abstract lease, leaves it be or
\* takes the directory of a holder.
LEMMA LeaseStep ==
  ASSUME Lease!LeaseAssumption, Lease!IInv, Lease!Next
  PROVE  [Lease!Abstract!Next \/ Lease!Robbery]_Lease!Abstract!leaseVars
<1> USE DEF Lease!LeaseAssumption, Lease!TypeOK, Lease!Holds, Lease!Step, Lease!history,
            Lease!OwnerOnDisk, Lease!RobbedInv, Lease!DiskInv, Lease!FreshInv, Lease!JudgedInv
<1> DEFINE Inside == {p \in Procs : Lease!Holds(p)} \ robbed
<1>1. CASE Lease!Age
  BY <1>1 DEF Lease!Age, Lease!Abstract!leaseVars
<1>2. ASSUME NEW p \in Procs, Lease!Proc(p)
      PROVE  [Lease!Abstract!Next \/ Lease!Robbery]_Lease!Abstract!leaseVars
  <2>1. CASE Lease!WriteOwner(p)
    <3>1. Inside' = Inside \cup {p}
      BY <2>1 DEF Lease!WriteOwner, Lease!Changes, Lease!IInv
    <3>2. Lease!Abstract!Take(p)
      BY <2>1, <3>1 DEF Lease!WriteOwner, Lease!Abstract!Take
    <3> QED BY <3>2 DEF Lease!Abstract!Next
  <2>2. CASE Lease!Remove(p) /\ p \notin robbed
    <3>1. Inside' = Inside \ {p} /\ lease = p /\ lease' = NoDir /\ p \in Inside
      BY <2>2 DEF Lease!Remove, Lease!IInv
    <3>2. Lease!Abstract!Drop(p)
      BY <3>1 DEF Lease!Abstract!Drop
    <3> QED BY <3>2 DEF Lease!Abstract!Next
  <2>3. CASE (Lease!Remove(p) /\ p \in robbed) \/ (Lease!Rename(p) /\ p \in stale)
    <3>1. lease' = NoDir /\ Lease!Robs(p)
      BY <2>3 DEF Lease!Remove, Lease!Rename
    <3>2. CASE lease \in Inside
      <4>1. p # lease
        BY <2>3, <3>2 DEF Lease!IInv, Lease!Remove, Lease!Rename
      <4> QED BY <3>1, <3>2, <4>1 DEF Lease!Robs, Lease!Robbery
    <3>3. CASE lease \notin Inside
      <4>1. Inside' = Inside
        BY <2>3, <3>1, <3>3 DEF Lease!IInv, Lease!Remove, Lease!Rename, Lease!Robs
      <4>2. CASE lease \in Procs
        <5>1. Lease!Abstract!Reclaim
          BY <3>1, <3>3, <4>1, <4>2 DEF Lease!Abstract!Reclaim
        <5> QED BY <5>1 DEF Lease!Abstract!Next
      <4>3. CASE lease \notin Procs
        BY <3>1, <4>1, <4>3 DEF Lease!Abstract!leaseVars
      <4> QED BY <4>2, <4>3
    <3> QED BY <3>2, <3>3
  <2>4. CASE Lease!Rename(p) /\ p \notin stale
    <3>1. lease' = NoDir /\ Inside' = Inside
      BY <2>4 DEF Lease!Rename
    <3>2. lease \notin Inside
      BY <2>4 DEF Lease!Rename, Lease!IInv, Lease!Recovering, Lease!Dead
    <3>3. CASE lease \in Procs
      <4>1. Lease!Abstract!Reclaim
        BY <3>1, <3>2, <3>3 DEF Lease!Abstract!Reclaim
      <4> QED BY <4>1 DEF Lease!Abstract!Next
    <3>4. CASE lease \notin Procs
      BY <3>1, <3>4 DEF Lease!Abstract!leaseVars
    <3> QED BY <3>3, <3>4
  <2>5. CASE Lease!Die(p)
    <3>1. Inside' = Inside \ {p} /\ lease' = lease
      BY <2>5 DEF Lease!Die, Lease!Forgets, Lease!IInv
    <3>2. CASE p \in Inside
      <4>1. Lease!Abstract!Die(p)
        BY <3>1, <3>2 DEF Lease!Abstract!Die
      <4> QED BY <4>1 DEF Lease!Abstract!Next
    <3>3. CASE p \notin Inside
      BY <3>1, <3>3, LeaseStutter
    <3> QED BY <3>2, <3>3
  <2>6. CASE Lease!Mkdir(p)
    BY <2>6 DEF Lease!Mkdir, Lease!Changes, Lease!Abstract!leaseVars
  <2>7. CASE Lease!ReleaseLost(p)
    <3>1. Inside' = Inside /\ lease' = lease
      BY <2>7 DEF Lease!ReleaseLost, Lease!IInv
    <3> QED BY <3>1, LeaseStutter
  <2>8. CASE \/ Lease!Acquire(p) \/ Lease!MkdirExists(p) \/ Lease!Retry(p) \/ Lease!TimeOut(p)
             \/ Lease!WriteOwnerExists(p) \/ Lease!WriteOwnerMissing(p) \/ Lease!Release(p)
             \/ Lease!ReadOwner(p) \/ Lease!JudgeAbandoned(p) \/ Lease!JudgeLive(p)
             \/ Lease!RenameMissing(p)
    <3>1. Inside' = Inside /\ lease' = lease
      BY <2>8 DEF Lease!IInv, Lease!Acquire, Lease!MkdirExists, Lease!Retry, Lease!TimeOut,
                  Lease!WriteOwnerExists, Lease!WriteOwnerMissing, Lease!Release,
                  Lease!ReadOwner, Lease!JudgeAbandoned, Lease!JudgeLive, Lease!RenameMissing,
                  Lease!Forgets
    <3> QED BY <3>1, LeaseStutter
  <2> QED BY <1>2, <2>1, <2>2, <2>3, <2>4, <2>5, <2>6, <2>7, <2>8
          DEF Lease!Proc, Lease!AcquireStep, Lease!Recover, Lease!ReleaseStep
<1> QED BY <1>1, <1>2 DEF Lease!Next

\* The directory protocol implements the abstract lease that the rest of the
\* system is specified against, except where a holder's directory is taken by
\* one that took it for another; that holder counts as outside from then on.
THEOREM LeaseRefinement == Lease!LeaseAssumption => (Lease!Spec => Lease!ImplementsLease)
<1> SUFFICES ASSUME Lease!LeaseAssumption PROVE Lease!Spec => Lease!ImplementsLease
  OBVIOUS
<1>1. Lease!Init => Lease!Abstract!Init
  BY DEF Lease!LeaseAssumption, Lease!Init, Lease!Holds, Lease!Abstract!Init
<1>2. Lease!IInv /\ [Lease!Next]_Lease!vars
        => [Lease!Abstract!Next \/ Lease!Robbery]_Lease!Abstract!leaseVars
  <2>1. ASSUME UNCHANGED Lease!vars PROVE UNCHANGED Lease!Abstract!leaseVars
    BY <2>1 DEF Lease!vars, Lease!Abstract!leaseVars, Lease!Holds
  <2> QED BY <2>1, LeaseStep
<1> QED BY <1>1, <1>2, LeaseInvariance, PTL DEF Lease!Spec, Lease!ImplementsLease

=============================================================================
