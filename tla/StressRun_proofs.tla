--------------------------- MODULE StressRun_proofs ---------------------------
(***************************************************************************)
(* StressRun for any portfolio, any limits and any number of invocations:  *)
(* types, one delivery of each roster, the lifetime budget of a cell, and  *)
(* the evidence of a verified report.                                      *)
(***************************************************************************)
EXTENDS StressRun, TLAPS

\* Where the invocation is, in terms of the rosters and the opponents.
PlaceInv ==
  /\ pc \in {"deliver", "keep"} => at \in Rosters
  /\ pc \in {"cell", "run", "judged", "settle"} => at \in Items

Typed == TypeOK /\ PlaceInv

LEMMA Numbers ==
  /\ Opponents \in Nat /\ Limit \in Nat /\ Items \subseteq Rosters
  /\ Rosters \subseteq 0..Opponents + 1 /\ 0 \in Rosters /\ Items \subseteq Nat
  /\ FirstLimit \in Nat /\ FirstLimit <= Limit
BY StressAssumption DEF Items, Rosters

LEMMA LimitType == MyLimit \in Nat /\ MyLimit <= Limit
BY Numbers DEF MyLimit

LEMMA NewTypes == NoFile \in Files /\ NewEntry \in Entries /\ NewManifest \in Manifests
<1>1. NoFile \in Files
  BY Numbers DEF NoFile, Files, Looks
<1>2. NewEntry \in Entries
  BY <1>1, Numbers DEF NewEntry, Entries
<1> QED BY <1>1, <1>2 DEF NewManifest, Manifests

LEMMA NoReportsType == NoReports \in [Items -> Looks]
BY DEF NoReports, Looks

LEMMA InitTyped == Init => Typed
<1> SUFFICES ASSUME Init PROVE Typed
  OBVIOUS
<1>1. file \in [Stages -> [Items -> Files]]
  BY NewTypes DEF Init
<1>2. sent \in [Rosters -> Nat] /\ ran \in [Stages -> [Items -> Nat]]
  BY DEF Init
<1>3. disk \in Manifests \cup {None} /\ mem \in Manifests
  BY NewTypes DEF Init
<1>4. /\ {forced, resumed, again} \subseteq BOOLEAN
      /\ pc = "idle" /\ frozen \in SUBSET Items /\ sound \in SUBSET Stages
      /\ artifacts \in SUBSET Rosters /\ stage \in Stages /\ last \in Kinds \cup {None}
      /\ data \in Worths \cup {"none"}
  BY DEF Init, Stages
<1>5. at \in 0..Opponents + 1 /\ turns \in 0..Resumes
  BY Numbers, StressAssumption DEF Init
<1>6. report \in [verified : BOOLEAN, complete : BOOLEAN] /\ got \in [Items -> Looks]
  BY NoReportsType DEF Init, NoReport
<1> QED BY <1>1, <1>2, <1>3, <1>4, <1>5, <1>6 DEF Typed, TypeOK, PlaceInv

-----------------------------------------------------------------------------
(* The parts of a manifest, and what changes them *)

\* What an entry of a manifest is, and what a change of a field leaves.
LEMMA EntryType ==
  ASSUME NEW m \in Manifests, NEW s \in Stages, NEW i \in Items
  PROVE  /\ m.entry[s][i] \in Entries
         /\ m.entry[s][i].count \in 0..Limit
         /\ m.entry[s][i].sha \in Files
         /\ m.entry[s][i].error \in Kinds \cup {None}
BY DEF Manifests, Entries

\* Two manifests agree on the deliveries and on the attempts counted.
Agree(m, n) ==
  /\ m.started = n.started /\ m.prepared = n.prepared
  /\ \A s \in Stages, i \in Items : m.entry[s][i].count = n.entry[s][i].count

LEMMA MarkedType ==
  ASSUME NEW e \in Entries
  PROVE  Marked(e) \in Entries /\ Marked(e).count = e.count
BY DEF Marked, Entries, Kinds

LEMMA RereadType ==
  ASSUME NEW m \in Manifests
  PROVE  Reread(m) \in Manifests /\ Agree(Reread(m), m)
<1> DEFINE es == [s \in Stages |-> [i \in Items |-> Marked(m.entry[s][i])]]
<1>1. es \in [Stages -> [Items -> Entries]]
  BY EntryType, MarkedType
<1>2. \A s \in Stages, i \in Items : es[s][i].count = m.entry[s][i].count
  BY EntryType, MarkedType
<1>3. CASE Over(m)
  <2>1. Reread(m) = [m EXCEPT !.entry = es]
    BY <1>3 DEF Reread, Manifests
  <2> QED BY <1>1, <1>2, <2>1 DEF Manifests, Agree
<1>4. CASE ~Over(m)
  BY <1>4 DEF Reread, Agree
<1> QED BY <1>3, <1>4

LEMMA PutType ==
  ASSUME Typed, at \in Items, NEW e \in Entries
  PROVE  /\ Put(e) \in Manifests
         /\ Put(e).started = mem.started /\ Put(e).prepared = mem.prepared
         /\ Put(e).entry[stage][at] = e
         /\ \A s \in Stages, i \in Items :
              s # stage \/ i # at => Put(e).entry[s][i] = mem.entry[s][i]
<1>1. mem \in Manifests /\ stage \in Stages
  BY DEF Typed, TypeOK
<1> QED BY <1>1 DEF Put, Manifests

LEMMA HereType ==
  ASSUME Typed, at \in Items
  PROVE  Here \in Entries /\ stage \in Stages /\ Here = mem.entry[stage][at]
BY EntryType DEF Typed, TypeOK, Here

LEMMA AssessedType ==
  ASSUME Typed
  PROVE  Assessed \in Manifests /\ Agree(Assessed, mem)
<1>1. mem \in Manifests /\ stage \in Stages
  BY DEF Typed, TypeOK
<1> DEFINE es == [i \in Items |-> IF i \in Affected THEN Marked(mem.entry[stage][i]) ELSE mem.entry[stage][i]]
<1>2. es \in [Items -> Entries] /\ \A i \in Items : es[i].count = mem.entry[stage][i].count
  BY <1>1, EntryType, MarkedType
<1>3. Assessed = [mem EXCEPT !.entry[stage] = es]
  BY <1>1 DEF Assessed, Manifests
<1> HIDE DEF es
<1> QED BY <1>1, <1>2, <1>3 DEF Manifests, Agree

LEMMA ChosenType ==
  ASSUME Typed, NEW c \in SUBSET Items
  PROVE  Chosen(c) \in Manifests /\ Agree(Chosen(c), mem) /\ Chosen(c).chosen = c
<1>1. mem \in Manifests /\ "deepDive" \in Stages
  BY DEF Typed, TypeOK, Stages
<1>2. CASE mem.chosen \in {{}, c}
  BY <1>1, <1>2 DEF Chosen, Manifests, Agree
<1>3. CASE mem.chosen \notin {{}, c}
  <2> DEFINE es == [i \in Items |-> [mem.entry["deepDive"][i] EXCEPT !.sha = NoFile, !.error = None]]
  <2>1. \A i \in Items : es[i] \in Entries /\ es[i].count = mem.entry["deepDive"][i].count
    <3> SUFFICES ASSUME NEW i \in Items
                 PROVE  es[i] \in Entries /\ es[i].count = mem.entry["deepDive"][i].count
      OBVIOUS
    <3>1. mem.entry["deepDive"][i] \in Entries
      BY <1>1, EntryType
    <3> QED BY <3>1, NewTypes DEF Entries
  <2>2. Chosen(c) = [mem EXCEPT !.chosen = c, !.entry["deepDive"] = es]
    BY <1>1, <1>3 DEF Chosen, Manifests
  <2>3. es \in [Items -> Entries]
    BY <2>1
  <2> HIDE DEF es
  <2>4. Chosen(c) \in Manifests
    <3> DEFINE entries == [mem.entry EXCEPT !["deepDive"] = es]
    <3>1. entries \in [Stages -> [Items -> Entries]]
      BY <1>1, <2>3 DEF Manifests
    <3>2. Chosen(c) = [started |-> mem.started, prepared |-> mem.prepared, entry |-> entries,
                       chosen |-> c, final |-> mem.final]
      BY <1>1, <2>2 DEF Manifests
    <3> HIDE DEF entries
    <3> QED BY <1>1, <3>1, <3>2 DEF Manifests
  <2>5. /\ Chosen(c).started = mem.started /\ Chosen(c).prepared = mem.prepared /\ Chosen(c).chosen = c
        /\ Chosen(c).entry = [mem.entry EXCEPT !["deepDive"] = es]
    BY <1>1, <2>2 DEF Manifests
  <2>6. ASSUME NEW s \in Stages, NEW i \in Items
        PROVE  Chosen(c).entry[s][i].count = mem.entry[s][i].count
    <3>1. mem.entry \in [Stages -> [Items -> Entries]]
      BY <1>1 DEF Manifests
    <3> QED BY <1>1, <2>1, <2>5, <3>1
  <2> QED BY <2>4, <2>5, <2>6 DEF Agree
<1> QED BY <1>2, <1>3
-----------------------------------------------------------------------------
(* Every step keeps the types *)

LEMMA AfterPlace ==
  ASSUME NEW s, NEW m \in Manifests, NEW from, After(s, m, from)
  PROVE  /\ at' \in 0..Opponents + 1 /\ again' = FALSE
         /\ pc' = "assess" \/ (pc' = "cell" /\ at' \in Items)
<1>1. ItemsOf(s, m) \subseteq Items
  BY DEF ItemsOf, Manifests
<1> QED BY <1>1, Numbers DEF After, Goes

LEMMA OnwardPlace ==
  ASSUME Typed, NEW error, Onward(error)
  PROVE  /\ at' \in 0..Opponents + 1 /\ again' = FALSE
         /\ pc' = "assess" \/ (pc' = "cell" /\ at' \in Items)
<1>1. CASE error # None /\ Global(error)
  BY <1>1, Numbers DEF Onward, Goes
<1>2. CASE ~(error # None /\ Global(error))
  <2>1. mem \in Manifests
    BY DEF Typed, TypeOK
  <2> QED BY <1>2, <2>1, AfterPlace DEF Onward
<1> QED BY <1>1, <1>2

LEMMA EndsTyped ==
  ASSUME Typed, Ends, disk' \in Manifests \cup {None}, artifacts' \in SUBSET Rosters,
         UNCHANGED <<file, report, turns, ran>>, sent' \in [Rosters -> Nat]
  PROVE  Typed'
BY NewTypes, NoReportsType, Numbers DEF Typed, TypeOK, PlaceInv, Ends, Goes, Stages

LEMMA BeginTyped ==
  ASSUME Typed, Begin \/ \E force \in BOOLEAN : Resume(force)
  PROVE  Typed'
<1>1. CASE Begin
  BY <1>1, NewTypes DEF Typed, TypeOK, PlaceInv, Begin, Saves, Goes, outside
<1>2. ASSUME NEW force \in BOOLEAN, Resume(force) PROVE Typed'
  <2>1. disk \in Manifests /\ Reread(disk) \in Manifests
    BY <1>2, RereadType DEF Typed, TypeOK, Resume
  <2>2. disk.chosen \in SUBSET Items
    BY <2>1 DEF Manifests
  <2>3. turns' \in 0..Resumes
    BY <1>2, StressAssumption DEF Typed, TypeOK, Resume
  <2> QED BY <1>2, <2>1, <2>2, <2>3 DEF Typed, TypeOK, PlaceInv, Resume, Saves, Goes
<1> QED BY <1>1, <1>2

LEMMA PreparationTyped ==
  ASSUME Typed, Preparation
  PROVE  Typed'
<1>1. mem \in Manifests /\ disk \in Manifests \cup {None}
  BY DEF Typed, TypeOK
<1>2. CASE Prepared
  <2>1. CASE at \in artifacts
    <3>1. at \in Rosters /\ at' = at + 1
      BY <1>2, <2>1 DEF Typed, TypeOK, Prepared
    <3>2. at' \in 0..Opponents + 1
      BY <3>1, Numbers DEF Rosters
    <3> QED BY <1>2, <2>1, <3>2 DEF Typed, TypeOK, PlaceInv, Prepared, Within, outside
  <2>2. CASE at \notin artifacts
    BY <1>2, <2>2, EndsTyped DEF Prepared, outside, Typed, TypeOK
  <2> QED BY <2>1, <2>2
<1>3. CASE Unknown
  BY <1>3, EndsTyped DEF Unknown, outside, Typed, TypeOK
<1>4. CASE Mark
  <2>1. [mem EXCEPT !.started = @ \cup {at}] \in Manifests
    BY <1>1, <1>4 DEF Mark, Manifests
  <2> QED BY <1>4, <2>1 DEF Typed, TypeOK, PlaceInv, Mark, Saves, Goes, Within, outside
<1>5. CASE Deliver
  <2>1. sent' \in [Rosters -> Nat]
    BY <1>5 DEF Deliver, Typed, TypeOK, PlaceInv
  <2>2. at \in Rosters
    BY <1>5 DEF Deliver, Typed, PlaceInv
  <2>3. CASE Goes("keep") /\ artifacts' = artifacts \cup {at} /\ UNCHANGED <<mem, at>> /\ Within
    BY <1>5, <2>1, <2>2, <2>3 DEF Typed, TypeOK, PlaceInv, Deliver, Goes, Within
  <2>4. CASE Ends /\ UNCHANGED artifacts
    BY <1>5, <2>1, <2>4, EndsTyped DEF Deliver, Typed, TypeOK
  <2> QED BY <1>5, <2>3, <2>4 DEF Deliver
<1>6. CASE Keep
  <2>1. at \in Rosters /\ at' = at + 1
    BY <1>6 DEF Keep, Typed, PlaceInv
  <2>2. at' \in 0..Opponents + 1
    BY <2>1, Numbers DEF Rosters
  <2>3. [mem EXCEPT !.prepared = @ \cup {at}, !.started = @ \ {at}] \in Manifests
    BY <1>1, <2>1 DEF Manifests
  <2> QED BY <1>6, <2>2, <2>3 DEF Typed, TypeOK, PlaceInv, Keep, Saves, Goes, Within, outside
<1> QED BY <1>2, <1>3, <1>4, <1>5, <1>6 DEF Preparation

\* The entry of the cell the invocation is at, changed in one field.
LEMMA ChangedType ==
  ASSUME NEW e \in Entries
  PROVE  /\ \A n \in 0..Limit : [e EXCEPT !.count = n] \in Entries /\ [e EXCEPT !.count = n].count = n
         /\ \A k \in Kinds \cup {None} :
              [e EXCEPT !.error = k] \in Entries /\ [e EXCEPT !.error = k].count = e.count
         /\ \A f \in Files : [e EXCEPT !.sha = f] \in Entries /\ [e EXCEPT !.sha = f].count = e.count
         /\ [e EXCEPT !.sha = NoFile, !.error = "terminal"] \in Entries
         /\ [e EXCEPT !.sha = NoFile, !.error = "terminal"].count = e.count
BY NewTypes DEF Entries, Kinds

\* The entry of a cell whose attempt is settled.
Settled(e, f, k) == [e EXCEPT !.sha = f, !.error = k]

LEMMA SettledType ==
  ASSUME NEW e \in Entries, NEW f \in Files, NEW k \in Kinds \cup {None}
  PROVE  /\ Settled(e, f, k) \in Entries /\ Settled(e, f, k).count = e.count
         /\ Settled(e, f, k).sha = f /\ Settled(e, f, k).error = k
BY DEF Settled, Entries

\* What Settle records of the cell, and how the pass goes on.
LEMMA SettleStep ==
  ASSUME Typed, Settle
  PROVE  \E error \in Kinds \cup {None}, f \in Files :
           /\ mem' = Put(Settled(Here, f, error)) /\ disk' = mem'
           /\ Onward(error)
           /\ last = None => error = None /\ f = file[stage][at]
           /\ last # None => f = NoFile
<1>1. /\ last \in Kinds \cup {None} /\ file \in [Stages -> [Items -> Files]]
      /\ stage \in Stages /\ at \in Items
  BY DEF Typed, TypeOK, PlaceInv, Settle
<1> DEFINE f == IF last = None THEN file[stage][at] ELSE NoFile
<1>2. PICK error \in IF last = None THEN {None} ELSE {last, "terminal"} :
        Saves(Put([Here EXCEPT !.sha = f, !.error = error])) /\ Onward(error)
  BY DEF Settle
<1>3. f \in Files /\ error \in Kinds \cup {None}
  BY <1>1, NewTypes DEF Kinds
<1>4. (last = None => error = None /\ f = file[stage][at]) /\ (last # None => f = NoFile)
  OBVIOUS
<1> HIDE DEF f
<1> QED BY <1>2, <1>3, <1>4 DEF Saves, Settled

LEMMA CellTyped ==
  ASSUME Typed, Screen \/ Reuse \/ Reject \/ Skip \/ Attempt
  PROVE  Typed'
<1>1. mem \in Manifests /\ disk \in Manifests \cup {None} /\ stage \in Stages
  BY DEF Typed, TypeOK
<1>2. CASE Screen
  BY <1>1, <1>2, AfterPlace DEF Screen, Typed, TypeOK, PlaceInv, Saves, outside
<1>3. CASE Reuse
  <2>1. at \in Items
    BY <1>3 DEF Reuse, Typed, PlaceInv
  <2>2. got' \in [Items -> Looks]
    <3>1. file[stage][at].worth \in Looks
      BY <1>1, <2>1 DEF Typed, TypeOK, Files
    <3> QED BY <1>3, <2>1, <3>1 DEF Reuse, Typed, TypeOK
  <2> QED BY <1>1, <1>3, <2>1, <2>2, AfterPlace DEF Reuse, Typed, TypeOK, PlaceInv, outside
<1>4. CASE Reject
  <2>1. at \in Items
    BY <1>4 DEF Reject, Typed, PlaceInv
  <2>2. mem' \in Manifests
    BY <1>4, <2>1, HereType, ChangedType, PutType DEF Reject
  <2> QED BY <1>1, <1>4, <2>1, <2>2 DEF Reject, Typed, TypeOK, PlaceInv, control, outside
<1>5. CASE Skip
  BY <1>5, OnwardPlace DEF Skip, Typed, TypeOK, PlaceInv, outside
<1>6. CASE Attempt
  <2>1. at \in Items
    BY <1>6 DEF Attempt, Open, Typed, PlaceInv
  <2>2. Here.count + 1 \in 0..Limit
    BY <1>6, <2>1, HereType, EntryType, <1>1, LimitType, Numbers DEF Attempt, GivenUp
  <2>3. Put([Here EXCEPT !.count = @ + 1]) \in Manifests
    BY <2>1, <2>2, HereType, ChangedType, PutType
  <2> QED BY <1>6, <2>1, <2>3 DEF Attempt, Saves, Goes, Typed, TypeOK, PlaceInv, outside
<1> QED BY <1>2, <1>3, <1>4, <1>5, <1>6

LEMMA AttemptTyped ==
  ASSUME Typed, Refused \/ Simulate \/ Judge \/ Settle \/ Assess
  PROVE  Typed'
<1>1. /\ mem \in Manifests /\ disk \in Manifests \cup {None} /\ stage \in Stages
      /\ last \in Kinds \cup {None} /\ file \in [Stages -> [Items -> Files]]
  BY DEF Typed, TypeOK
<1>2. CASE Refused
  BY <1>2 DEF Refused, Goes, Kinds, Typed, TypeOK, PlaceInv, outside
<1>3. CASE Simulate
  <2>1. at \in Items
    BY <1>3 DEF Simulate, Typed, PlaceInv
  <2>2. ran' \in [Stages -> [Items -> Nat]]
    BY <1>1, <1>3, <2>1 DEF Simulate, Typed, TypeOK
  <2>3. \A q \in Looks : [by |-> Here.count, worth |-> q] \in Files
    BY <1>1, <2>1, HereType, EntryType DEF Files
  <2>4. file' \in [Stages -> [Items -> Files]]
    <3>1. \A q \in Looks : Leaves(q) => file' \in [Stages -> [Items -> Files]]
      BY <1>1, <2>1, <2>3 DEF Leaves
    <3>2. file' = file \/ \E q \in Looks : Leaves(q)
      BY <1>3 DEF Simulate, Looks
    <3> QED BY <1>1, <3>1, <3>2
  <2>5. last' \in Kinds \cup {None} /\ data' \in Worths \cup {"none"}
    BY <1>3, StressAssumption DEF Simulate, Kinds
  <2>6. /\ pc' = "judged" /\ UNCHANGED <<disk, mem, forced, resumed, frozen, stage, at, got, sound, again>>
        /\ UNCHANGED <<artifacts, report, turns, sent>>
    BY <1>3 DEF Simulate, Goes
  <2> QED BY <2>1, <2>2, <2>4, <2>5, <2>6 DEF Typed, TypeOK, PlaceInv
<1>4. CASE Judge
  <2>1. at \in Items
    BY <1>4 DEF Judge, Typed, PlaceInv
  <2>2. mem' \in Manifests /\ disk' = mem'
    BY <1>1, <1>4, <2>1, HereType, ChangedType, PutType DEF Judge, Saves
  <2>3. pc' \in {"cell", "settle"} /\ again' \in {again, TRUE}
    BY <1>4 DEF Judge, Goes
  <2> QED BY <1>4, <2>1, <2>2, <2>3 DEF Judge, Typed, TypeOK, PlaceInv, outside
<1>5. CASE Settle
  <2>1. at \in Items
    BY <1>5 DEF Settle, Typed, PlaceInv
  <2>2. PICK error \in Kinds \cup {None}, f \in Files :
          /\ mem' = Put(Settled(Here, f, error)) /\ disk' = mem'
          /\ Onward(error)
    BY <1>5, SettleStep
  <2>3. mem' \in Manifests /\ disk' = mem'
    BY <2>1, <2>2, HereType, SettledType, PutType
  <2>4. /\ at' \in 0..Opponents + 1 /\ again' = FALSE
        /\ pc' = "assess" \/ (pc' = "cell" /\ at' \in Items)
    BY <2>2, OnwardPlace
  <2>5. got' \in [Items -> Looks] /\ last' = None /\ data' = "none"
    <3>1. data \in Looks /\ got \in [Items -> Looks]
      BY DEF Typed, TypeOK, Looks
    <3> QED BY <1>5, <2>1, <3>1 DEF Settle
  <2>6. UNCHANGED <<forced, resumed, frozen, stage, sound, outside>>
    BY <1>5 DEF Settle
  <2> QED BY <2>3, <2>4, <2>5, <2>6 DEF Typed, TypeOK, PlaceInv, outside
<1>6. CASE Assess
  <2>1. mem' \in Manifests /\ disk' = mem'
    BY <1>6, AssessedType DEF Assess, Saves
  <2>2. CASE \E i \in Affected : CanRetry(Assessed.entry[stage][i])
    <3>1. After(stage, mem, 0) /\ got' = NoReports /\ UNCHANGED sound
      BY <1>6, <2>2 DEF Assess
    <3>2. /\ at' \in 0..Opponents + 1 /\ again' = FALSE
          /\ pc' = "assess" \/ (pc' = "cell" /\ at' \in Items)
      BY <1>1, <3>1, AfterPlace
    <3> QED BY <1>6, <2>1, <3>1, <3>2, NoReportsType DEF Assess, Typed, TypeOK, PlaceInv, outside
  <2>3. CASE ~\E i \in Affected : CanRetry(Assessed.entry[stage][i])
    <3>1. /\ sound' = (IF Affected = {} THEN sound \cup {stage} ELSE sound)
          /\ pc' \in {"choose", "open"} /\ UNCHANGED <<at, again, got>>
      BY <1>6, <2>3 DEF Assess, Goes
    <3> QED BY <1>1, <1>6, <2>1, <3>1 DEF Assess, Typed, TypeOK, PlaceInv, outside
  <2> QED BY <2>2, <2>3
<1> QED BY <1>2, <1>3, <1>4, <1>5, <1>6

LEMMA EndingTyped ==
  ASSUME Typed, Ending \/ Die \/ Damage
  PROVE  Typed'
<1>1. /\ mem \in Manifests /\ disk \in Manifests \cup {None}
      /\ file \in [Stages -> [Items -> Files]] /\ frozen \in SUBSET Items
  BY DEF Typed, TypeOK
<1>2. CASE Choose
  <2>1. CASE /\ Stable /\ stage' = "deepDive"
             /\ \E c \in Representatives : Saves(Chosen(c)) /\ After("deepDive", Chosen(c), 0)
    <3>1. PICK c \in Representatives : Saves(Chosen(c)) /\ After("deepDive", Chosen(c), 0)
      BY <2>1
    <3>2. c \in SUBSET Items
      BY <1>1 DEF Representatives
    <3>3. mem' \in Manifests /\ disk' = mem'
      BY <3>1, <3>2, ChosenType DEF Saves
    <3>4. /\ at' \in 0..Opponents + 1 /\ again' = FALSE
          /\ pc' = "assess" \/ (pc' = "cell" /\ at' \in Items)
      BY <3>1, <3>2, ChosenType, AfterPlace
    <3> QED BY <1>2, <2>1, <3>3, <3>4, NoReportsType DEF Choose, Typed, TypeOK, PlaceInv, outside, Stages
  <2>2. CASE ~Stable /\ Saves(Chosen({})) /\ Goes("open") /\ UNCHANGED <<stage, at, again>>
    <3>1. mem' \in Manifests /\ disk' = mem'
      BY <2>2, ChosenType DEF Saves
    <3> QED BY <1>2, <2>2, <3>1, NoReportsType DEF Choose, Goes, Typed, TypeOK, PlaceInv, outside
  <2> QED BY <1>2, <2>1, <2>2 DEF Choose
<1>3. CASE OpenReport
  <2>1. [mem EXCEPT !.final = FALSE] \in Manifests
    BY <1>1 DEF Manifests
  <2> QED BY <1>3, <2>1 DEF OpenReport, Saves, Goes, Typed, TypeOK, PlaceInv, outside
<1>4. CASE Publish
  <2>1. report' \in [verified : BOOLEAN, complete : BOOLEAN]
    BY <1>4 DEF Publish, Outcome
  <2>2. /\ pc' = "close" /\ UNCHANGED <<disk, mem, forced, resumed, frozen, stage, at, got, sound, again>>
        /\ UNCHANGED <<last, data, artifacts, file, turns, sent, ran>>
    BY <1>4 DEF Publish, Outcome, Goes
  <2> QED BY <2>1, <2>2 DEF Typed, TypeOK, PlaceInv
<1>5. CASE Close
  <2>1. [mem EXCEPT !.final = TRUE] \in Manifests
    BY <1>1 DEF Manifests
  <2> QED BY <1>5, <2>1, EndsTyped DEF Close, outside, Typed, TypeOK
<1>6. CASE Die
  BY <1>6, EndsTyped DEF Die, outside, Typed, TypeOK
<1>7. CASE Damage
  <2>1. artifacts' \in SUBSET Rosters /\ file' \in [Stages -> [Items -> Files]]
    <3>1. CASE \E r \in artifacts \cap Fragile : artifacts' = artifacts \ {r} /\ UNCHANGED file
      BY <3>1 DEF Typed, TypeOK
    <3>2. CASE /\ UNCHANGED artifacts
               /\ \E s \in Stages, i \in Fragile :
                    \/ file' = [file EXCEPT ![s][i] = NoFile]
                    \/ file' = [file EXCEPT ![s][i].worth = "altered"]
      <4>1. PICK s \in Stages, i \in Items :
                 \/ file' = [file EXCEPT ![s][i] = NoFile]
                 \/ file' = [file EXCEPT ![s][i].worth = "altered"]
        BY <3>2, StressAssumption DEF Items
      <4>2. file[s][i] \in Files /\ [file[s][i] EXCEPT !.worth = "altered"] \in Files
        BY <1>1 DEF Files, Looks
      <4>3. file' \in [Stages -> [Items -> Files]]
        BY <1>1, <4>1, <4>2, NewTypes
      <4> QED BY <3>2, <4>3 DEF Typed, TypeOK
    <3> QED BY <1>7, <3>1, <3>2 DEF Damage
  <2> QED BY <1>7, <2>1 DEF Damage, control, Typed, TypeOK, PlaceInv
<1> QED BY <1>2, <1>3, <1>4, <1>5, <1>6, <1>7 DEF Ending

LEMMA NextTyped == Typed /\ [Next]_vars => Typed'
<1>1. ASSUME Typed, UNCHANGED vars PROVE Typed'
  BY <1>1 DEF Typed, TypeOK, PlaceInv, vars, control, outside
<1> QED BY <1>1, BeginTyped, PreparationTyped, CellTyped, AttemptTyped, EndingTyped
        DEF Next, Works, Stage

\* Whatever an invocation does, the manifest on disk, its copy, the reports and
\* the counters stay in their types, and it is at a roster or an opponent.
THEOREM TypesHold == Spec => []TypeOK
<1>1. Spec => []Typed
  BY InitTyped, NextTyped, PTL DEF Spec
<1>2. Typed => TypeOK
  BY DEF Typed
<1> QED BY <1>1, <1>2, PTL

-----------------------------------------------------------------------------
(* One delivery, and the budget *)

\* What the copy says of deliveries and attempts, the file says.
CopyInv == pc # "idle" => disk # None /\ Agree(mem, disk)

\* A roster that was given to New Recruit is marked, or has a receipt.
SentInv ==
  /\ \A r \in Rosters : sent[r] <= 1
  /\ disk = None => \A r \in Rosters : sent[r] = 0
  /\ disk # None => \A r \in Rosters \ (disk.started \cup disk.prepared) : sent[r] = 0
  /\ pc = "deliver" => at \in mem.started /\ sent[at] = 0
  /\ pc = "keep" => at \in mem.started

\* A simulation is counted on disk before it begins.
RanInv ==
  /\ disk = None => \A s \in Stages, i \in Items : ran[s][i] = 0
  /\ disk # None => \A s \in Stages, i \in Items : ran[s][i] <= disk.entry[s][i].count
  /\ pc = "run" => ran[stage][at] < mem.entry[stage][at].count

IInv == Typed /\ CopyInv /\ SentInv /\ RanInv

LEMMA InitIInv == Init => IInv
BY InitTyped DEF Init, IInv, CopyInv, SentInv, RanInv

LEMMA Written ==
  ASSUME Typed
  PROVE  disk # None <=> disk \in Manifests
BY NoneAssumption DEF Typed, TypeOK

LEMMA AgreeAgain ==
  ASSUME NEW l, NEW m, NEW n, Agree(l, m), Agree(m, n)
  PROVE  Agree(l, n)
BY DEF Agree

\* Most steps count nothing and deliver nothing: the manifest they leave says
\* of deliveries and attempts what the one before them said.
LEMMA QuietStep ==
  ASSUME IInv, Typed', pc # "idle", pc' \notin {"deliver", "keep", "run"},
         UNCHANGED <<sent, ran>>,
         disk' = disk \/ (disk' \in Manifests /\ Agree(disk', mem)),
         pc' = "idle" \/ (Agree(mem', mem) /\ (disk' = disk \/ disk' = mem'))
  PROVE  IInv'
<1>1. disk # None /\ Agree(mem, disk)
  BY DEF IInv, CopyInv
<1>2. disk' # None /\ Agree(disk', disk)
  <2>1. CASE disk' = disk
    BY <1>1, <2>1 DEF Agree
  <2>2. CASE disk' \in Manifests /\ Agree(disk', mem)
    BY <1>1, <2>2, NoneAssumption, AgreeAgain
  <2> QED BY <2>1, <2>2
<1>3. CopyInv'
  <2>1. CASE pc' = "idle"
    BY <2>1 DEF CopyInv
  <2>2. CASE Agree(mem', mem) /\ disk' = disk
    BY <1>1, <1>2, <2>2, AgreeAgain DEF CopyInv
  <2>3. CASE disk' = mem'
    BY <1>2, <2>3 DEF CopyInv, Agree
  <2> QED BY <2>1, <2>2, <2>3
<1>4. SentInv'
  BY <1>1, <1>2 DEF IInv, SentInv, Agree
<1>5. RanInv'
  BY <1>1, <1>2 DEF IInv, RanInv, Agree
<1> QED BY <1>3, <1>4, <1>5 DEF IInv

\* Put(e) counts as many attempts as before if e does.
LEMMA PutAgrees ==
  ASSUME Typed, at \in Items, NEW e \in Entries, e.count = Here.count
  PROVE  Put(e) \in Manifests /\ Agree(Put(e), mem)
BY HereType, PutType DEF Agree

LEMMA AgreeSelf == \A m : Agree(m, m)
BY DEF Agree

LEMMA QuietPreparation ==
  ASSUME IInv, Typed', Prepared \/ Unknown \/ Screen
  PROVE  IInv'
<1>1. mem \in Manifests /\ Agree(mem, mem)
  BY AgreeSelf DEF IInv, Typed, TypeOK
<1>2. CASE Prepared
  <2>1. pc = "prepare" /\ pc' \in {"prepare", "idle"} /\ UNCHANGED <<disk, sent, ran>>
        /\ (pc' = "idle" \/ UNCHANGED mem)
    BY <1>2 DEF Prepared, Ends, Goes, outside
  <2> QED BY <1>1, <2>1, QuietStep
<1>3. CASE Unknown
  BY <1>3, QuietStep DEF Unknown, Ends, Goes, outside
<1>4. CASE Screen
  <2>1. pc' \in {"assess", "cell"} /\ mem' = mem /\ disk' = mem
    BY <1>1, <1>4, AfterPlace DEF Screen, Saves
  <2> QED BY <1>1, <1>4, <2>1, QuietStep DEF Screen, outside
<1> QED BY <1>2, <1>3, <1>4

LEMMA QuietCell ==
  ASSUME IInv, Typed', Reuse \/ Reject \/ Skip \/ Refused
  PROVE  IInv'
<1>1. Typed /\ mem \in Manifests /\ Agree(mem, mem)
  BY AgreeSelf DEF IInv, Typed, TypeOK
<1>2. CASE Reuse
  <2>1. pc' \in {"assess", "cell"}
    BY <1>1, <1>2, AfterPlace DEF Reuse
  <2> QED BY <1>1, <1>2, <2>1, QuietStep DEF Reuse, outside
<1>3. CASE Reject
  <2>1. at \in Items
    BY <1>1, <1>3 DEF Reject, Typed, PlaceInv
  <2>2. Agree(mem', mem)
    BY <1>1, <1>3, <2>1, HereType, ChangedType, PutAgrees DEF Reject
  <2> QED BY <1>3, <2>2, QuietStep DEF Reject, control, outside
<1>4. CASE Skip
  <2>1. pc' \in {"assess", "cell"}
    BY <1>1, <1>4, OnwardPlace DEF Skip
  <2> QED BY <1>1, <1>4, <2>1, QuietStep DEF Skip, Open, outside
<1>5. CASE Refused
  BY <1>1, <1>5, QuietStep DEF Refused, Goes, outside
<1> QED BY <1>2, <1>3, <1>4, <1>5

LEMMA QuietRecord ==
  ASSUME IInv, Typed', Judge \/ Settle \/ Assess
  PROVE  IInv'
<1>1. /\ Typed /\ stage \in Stages /\ mem \in Manifests /\ last \in Kinds \cup {None}
      /\ file \in [Stages -> [Items -> Files]]
  BY DEF IInv, Typed, TypeOK
<1>2. CASE Judge
  <2>1. at \in Items
    BY <1>1, <1>2 DEF Judge, Typed, PlaceInv
  <2>2. mem' \in Manifests /\ Agree(mem', mem) /\ disk' = mem'
    BY <1>1, <1>2, <2>1, HereType, ChangedType, PutAgrees DEF Judge, Saves
  <2>3. pc' \in {"cell", "settle"}
    BY <1>2 DEF Judge, Goes
  <2> QED BY <1>2, <2>2, <2>3, QuietStep DEF Judge, outside
<1>3. CASE Settle
  <2>1. at \in Items
    BY <1>1, <1>3 DEF Settle, Typed, PlaceInv
  <2>2. PICK error \in Kinds \cup {None}, f \in Files :
          /\ mem' = Put(Settled(Here, f, error)) /\ disk' = mem'
          /\ Onward(error)
    BY <1>1, <1>3, SettleStep
  <2>3. mem' \in Manifests /\ Agree(mem', mem) /\ disk' = mem'
    <3> DEFINE e == Settled(Here, f, error)
    <3>1. Here \in Entries
      BY <1>1, <2>1, HereType
    <3>2. e \in Entries /\ e.count = Here.count
      BY <3>1, SettledType
    <3> HIDE DEF e
    <3> QED BY <1>1, <2>1, <2>2, <3>2, PutAgrees DEF e
  <2>4. pc' \in {"assess", "cell"}
    BY <1>1, <2>2, OnwardPlace
  <2> QED BY <1>3, <2>3, <2>4, QuietStep DEF Settle, outside
<1>4. CASE Assess
  <2>1. mem' \in Manifests /\ Agree(mem', mem) /\ disk' = mem'
    BY <1>1, <1>4, AssessedType DEF Assess, Saves
  <2>2. pc' \in {"assess", "cell", "choose", "open"}
    <3>1. After(stage, mem, 0) \/ pc' \in {"choose", "open"}
      BY <1>4 DEF Assess, Goes
    <3> QED BY <1>1, <3>1, AfterPlace
  <2> QED BY <1>4, <2>1, <2>2, QuietStep DEF Assess, outside
<1> QED BY <1>2, <1>3, <1>4

LEMMA QuietEnding ==
  ASSUME IInv, Typed', Ending \/ Die
  PROVE  IInv'
<1>1. Typed /\ mem \in Manifests /\ frozen \in SUBSET Items /\ Agree(mem, mem)
  BY AgreeSelf DEF IInv, Typed, TypeOK
<1>2. CASE Choose
  <2>1. mem' \in Manifests /\ Agree(mem', mem) /\ disk' = mem' /\ pc' \in {"assess", "cell", "open"}
    <3>1. CASE \E c \in Representatives : Saves(Chosen(c)) /\ After("deepDive", Chosen(c), 0)
      <4>1. PICK c \in Representatives : Saves(Chosen(c)) /\ After("deepDive", Chosen(c), 0)
        BY <3>1
      <4>2. c \in SUBSET Items
        BY <1>1 DEF Representatives
      <4> QED BY <1>1, <4>1, <4>2, ChosenType, AfterPlace DEF Saves
    <3>2. CASE Saves(Chosen({})) /\ Goes("open")
      BY <1>1, <3>2, ChosenType DEF Saves, Goes
    <3> QED BY <1>2, <3>1, <3>2 DEF Choose
  <2> QED BY <1>2, <2>1, QuietStep DEF Choose, outside
<1>3. CASE OpenReport
  <2>1. [mem EXCEPT !.final = FALSE] \in Manifests /\ Agree([mem EXCEPT !.final = FALSE], mem)
    BY <1>1 DEF Manifests, Agree
  <2> QED BY <1>3, <2>1, QuietStep DEF OpenReport, Saves, Goes, outside
<1>4. CASE Publish
  BY <1>1, <1>4, QuietStep DEF Publish, Outcome, Goes
<1>5. CASE Close
  <2>1. [mem EXCEPT !.final = TRUE] \in Manifests /\ Agree([mem EXCEPT !.final = TRUE], mem)
    BY <1>1 DEF Manifests, Agree
  <2> QED BY <1>5, <2>1, QuietStep DEF Close, Ends, Goes, outside
<1>6. CASE Die
  BY <1>6, QuietStep DEF Die, Ends, Goes, outside
<1> QED BY <1>2, <1>3, <1>4, <1>5, <1>6 DEF Ending

LEMMA BeginKeeps ==
  ASSUME IInv, Typed', Begin \/ \E force \in BOOLEAN : Resume(force)
  PROVE  IInv'
<1>1. CASE Begin
  <2>1. /\ disk = None /\ disk' = NewManifest /\ mem' = NewManifest /\ pc' = "prepare"
        /\ UNCHANGED <<sent, ran>>
    BY <1>1 DEF Begin, Saves, Goes, outside
  <2>2. NewManifest # None
    BY NewTypes, NoneAssumption
  <2>3. (\A r \in Rosters : sent[r] = 0) /\ \A s \in Stages, i \in Items : ran[s][i] = 0
    BY <2>1 DEF IInv, SentInv, RanInv
  <2>4. \A s \in Stages, i \in Items : NewManifest.entry[s][i].count = 0
    BY DEF NewManifest, NewEntry
  <2>5. CopyInv' /\ SentInv'
    BY <2>1, <2>2, <2>3 DEF CopyInv, SentInv, Agree
  <2>6. RanInv'
    BY <2>1, <2>2, <2>3, <2>4 DEF RanInv
  <2> QED BY <2>5, <2>6 DEF IInv
<1>2. ASSUME NEW force \in BOOLEAN, Resume(force) PROVE IInv'
  <2>1. disk \in Manifests /\ disk # None /\ disk' = Reread(disk) /\ mem' = disk'
        /\ pc' = "prepare" /\ UNCHANGED <<sent, ran>>
    BY <1>2 DEF Resume, Saves, Goes, IInv, Typed, TypeOK
  <2>2. disk' \in Manifests /\ Agree(disk', disk) /\ disk' # None
    BY <2>1, RereadType, NoneAssumption
  <2>3. CopyInv'
    BY <2>1, <2>2 DEF CopyInv, Agree
  <2>4. SentInv' /\ RanInv'
    BY <2>1, <2>2 DEF IInv, SentInv, RanInv, Agree
  <2> QED BY <2>3, <2>4 DEF IInv
<1> QED BY <1>1, <1>2

LEMMA DeliveryKeeps ==
  ASSUME IInv, Typed', Mark \/ Deliver \/ Keep
  PROVE  IInv'
<1>1. /\ mem \in Manifests /\ disk # None /\ Agree(mem, disk)
      /\ sent \in [Rosters -> Nat]
  BY DEF IInv, Typed, TypeOK, CopyInv, Mark, Deliver, Keep
<1>2. CASE Mark
  <2>1. /\ at \in Rosters /\ at \notin mem.prepared /\ at \notin mem.started
        /\ mem' = [mem EXCEPT !.started = @ \cup {at}] /\ disk' = mem' /\ pc' = "deliver"
        /\ UNCHANGED <<at, stage, sent, ran>>
    BY <1>2 DEF Mark, Started, Saves, Goes, Within, outside
  <2>2. /\ mem'.started = mem.started \cup {at} /\ mem'.prepared = mem.prepared
        /\ mem'.entry = mem.entry /\ mem' \in Manifests /\ mem' # None
    BY <1>1, <2>1, NoneAssumption DEF Manifests
  <2>3. sent[at] = 0
    BY <1>1, <2>1 DEF IInv, SentInv, Agree
  <2> QED BY <1>1, <2>1, <2>2, <2>3 DEF IInv, CopyInv, SentInv, RanInv, Agree
<1>3. CASE Deliver
  <2>1. /\ at \in Rosters /\ at \in mem.started /\ sent[at] = 0
        /\ sent' = [sent EXCEPT ![at] = @ + 1] /\ UNCHANGED <<disk, ran>>
    BY <1>3 DEF Deliver, IInv, Typed, PlaceInv, SentInv
  <2>2. pc' = "idle" \/ (pc' = "keep" /\ UNCHANGED <<mem, at>>)
    BY <1>3 DEF Deliver, Ends, Goes
  <2>3. sent'[at] = 1 /\ \A r \in Rosters : r # at => sent'[r] = sent[r]
    BY <1>1, <2>1
  <2>4. at \in disk.started
    BY <1>1, <2>1 DEF Agree
  <2>5. SentInv'
    BY <1>1, <2>1, <2>2, <2>3, <2>4 DEF IInv, SentInv
  <2>6. CopyInv' /\ RanInv'
    BY <1>1, <2>1, <2>2 DEF IInv, CopyInv, RanInv
  <2> QED BY <2>5, <2>6 DEF IInv
<1>4. CASE Keep
  <2>1. /\ at \in mem.started /\ pc' = "prepare" /\ disk' = mem'
        /\ mem' = [mem EXCEPT !.prepared = @ \cup {at}, !.started = @ \ {at}]
        /\ UNCHANGED <<sent, ran>>
    BY <1>4 DEF Keep, Saves, Goes, outside, IInv, SentInv
  <2>2. mem' \in Manifests
    BY <1>4 DEF Keep, Saves, Typed, TypeOK
  <2>3. /\ mem'.prepared = mem.prepared \cup {at} /\ mem'.started = mem.started \ {at}
        /\ mem'.entry = mem.entry /\ mem' # None
    BY <1>1, <2>1, <2>2, NoneAssumption DEF Manifests
  <2>4. \A r \in Rosters : r \notin mem'.started \cup mem'.prepared => sent[r] = 0
    BY <1>1, <2>1, <2>3 DEF IInv, SentInv, Agree
  <2>5. CopyInv' /\ RanInv'
    BY <1>1, <2>1, <2>3 DEF IInv, CopyInv, RanInv, Agree
  <2>6. SentInv'
    BY <2>1, <2>3, <2>4 DEF IInv, SentInv
  <2> QED BY <2>5, <2>6 DEF IInv
<1> QED BY <1>2, <1>3, <1>4

LEMMA AttemptKeeps ==
  ASSUME IInv, Typed', Attempt
  PROVE  IInv'
<1>1. /\ Typed /\ at \in Items /\ stage \in Stages /\ mem \in Manifests
      /\ disk # None /\ Agree(mem, disk)
      /\ ran \in [Stages -> [Items -> Nat]]
  BY DEF Attempt, Open, IInv, Typed, TypeOK, PlaceInv, CopyInv
<1> DEFINE e == [Here EXCEPT !.count = @ + 1]
<1>2. /\ mem' = Put(e) /\ disk' = mem' /\ pc' = "run" /\ UNCHANGED <<stage, at, sent, ran>>
  BY DEF Attempt, Saves, Goes, outside
<1>3. e \in Entries /\ e.count = Here.count + 1 /\ Here.count \in 0..Limit
  <2>1. Here.count \in 0..Limit /\ Here.count + 1 \in 0..Limit
    BY <1>1, HereType, EntryType, LimitType, Numbers DEF Attempt, GivenUp
  <2> QED BY <1>1, <2>1, HereType, ChangedType
<1> HIDE DEF e
<1>4. /\ mem' \in Manifests /\ mem' # None
      /\ mem'.started = mem.started /\ mem'.prepared = mem.prepared
      /\ mem'.entry[stage][at].count = mem.entry[stage][at].count + 1
      /\ \A s \in Stages, i \in Items :
           s # stage \/ i # at => mem'.entry[s][i].count = mem.entry[s][i].count
  BY <1>1, <1>2, <1>3, PutType, HereType, NoneAssumption
<1>5. \A s \in Stages, i \in Items :
        ran[s][i] \in Nat /\ mem.entry[s][i].count \in Nat /\ ran[s][i] <= mem.entry[s][i].count
  BY <1>1, EntryType, Numbers DEF IInv, RanInv, Agree
<1>6. CopyInv' /\ SentInv'
  BY <1>1, <1>2, <1>4 DEF IInv, CopyInv, SentInv, Agree
<1>7. RanInv'
  <2>1. ran[stage][at] < mem'.entry[stage][at].count
    BY <1>1, <1>4, <1>5
  <2>2. \A s \in Stages, i \in Items : ran[s][i] <= mem'.entry[s][i].count
    BY <1>1, <1>4, <1>5
  <2> QED BY <1>2, <1>4, <2>1, <2>2 DEF RanInv
<1> QED BY <1>6, <1>7 DEF IInv

LEMMA SimulateKeeps ==
  ASSUME IInv, Typed', Simulate
  PROVE  IInv'
<1>1. /\ at \in Items /\ stage \in Stages /\ mem \in Manifests
      /\ disk # None /\ Agree(mem, disk) /\ ran \in [Stages -> [Items -> Nat]]
      /\ ran[stage][at] < mem.entry[stage][at].count
  BY DEF Simulate, IInv, Typed, TypeOK, PlaceInv, CopyInv, RanInv
<1>2. /\ ran' = [ran EXCEPT ![stage][at] = @ + 1] /\ pc' = "judged"
      /\ UNCHANGED <<disk, mem, sent>>
  BY DEF Simulate, Goes
<1>3. /\ ran'[stage][at] = ran[stage][at] + 1
      /\ \A s \in Stages, i \in Items : s # stage \/ i # at => ran'[s][i] = ran[s][i]
  BY <1>1, <1>2
<1>4. ran'[stage][at] <= disk.entry[stage][at].count
  BY <1>1, <1>3, EntryType, Numbers DEF Agree
<1>5. RanInv'
  BY <1>1, <1>2, <1>3, <1>4 DEF IInv, RanInv
<1>6. CopyInv' /\ SentInv'
  BY <1>1, <1>2 DEF IInv, CopyInv, SentInv
<1> QED BY <1>5, <1>6 DEF IInv

LEMMA NextIInv == IInv /\ [Next]_vars => IInv'
<1>1. ASSUME IInv, [Next]_vars PROVE Typed'
  BY <1>1, NextTyped DEF IInv
<1>2. ASSUME IInv, UNCHANGED vars PROVE IInv'
  BY <1>1, <1>2 DEF IInv, CopyInv, SentInv, RanInv, vars, control, outside
<1>3. ASSUME IInv, Typed', Damage PROVE IInv'
  BY <1>3 DEF Damage, control, IInv, CopyInv, SentInv, RanInv
<1> QED BY <1>1, <1>2, <1>3, BeginKeeps, DeliveryKeeps, AttemptKeeps, SimulateKeeps,
           QuietPreparation, QuietCell, QuietRecord, QuietEnding
        DEF Next, Works, Preparation, Stage

LEMMA IInvHolds == Spec => []IInv
BY InitIInv, NextIInv, PTL DEF Spec

\* Over any number of invocations, each of which may die at any step, a roster
\* is given to New Recruit once: the marker or the receipt on disk tells.
THEOREM OneDelivery == Spec => []DeliveredOnce
<1>1. IInv => DeliveredOnce
  BY DEF IInv, SentInv, DeliveredOnce
<1> QED BY <1>1, IInvHolds, PTL

\* A cell is simulated no more often than its lifetime limit, because each
\* simulation is counted on disk before it begins.
THEOREM WithinBudget == Spec => []BudgetHolds
<1>1. ASSUME IInv, NEW s \in Stages, NEW i \in Items PROVE ran[s][i] <= Limit
  <2>1. ran[s][i] \in Nat
    BY <1>1 DEF IInv, Typed, TypeOK
  <2>2. CASE disk = None
    BY <1>1, <2>2, Numbers DEF IInv, RanInv
  <2>3. CASE disk # None
    <3>1. disk.entry[s][i].count \in 0..Limit /\ ran[s][i] <= disk.entry[s][i].count
      BY <1>1, <2>3, EntryType DEF IInv, Typed, TypeOK, RanInv
    <3> QED BY <2>1, <3>1, Numbers
  <2> QED BY <2>2, <2>3
<1>2. IInv => BudgetHolds
  BY <1>1 DEF BudgetHolds
<1> QED BY <1>2, IInvHolds, PTL

-----------------------------------------------------------------------------
(* The evidence of a verified report *)

\* A report that an entry counts on was complete when it was written.
Worthy(m) ==
  \A s \in Stages, i \in Items :
    m.entry[s][i].sha # NoFile => m.entry[s][i].sha.worth \in Worths

WorthInv ==
  /\ Worthy(mem)
  /\ disk # None => Worthy(disk)
  /\ pc \in {"judged", "settle"} /\ last = None =>
       data \in Worths /\ file[stage][at].worth = data

\* The copy and the file agree on the report of a cell.
Good(s, i) == Reusable(mem.entry[s][i]) /\ file[s][i] = mem.entry[s][i].sha

AtCell == {"cell", "run", "judged", "settle"}

\* What a pass has of a cell is what its file is worth, if the cell is complete.
Honest(i) == got[i] # "none" /\ Complete(stage, i) => Good(stage, i) /\ file[stage][i].worth = got[i]

\* A pass has the reports of cells it has behind it.
GotInv ==
  /\ pc \in AtCell \cup {"assess"} => \A i \in Items : Honest(i)
  /\ pc \in AtCell => \A i \in Items : got[i] # "none" => i < at
  /\ pc \in {"idle", "prepare", "deliver", "keep"} =>
       got = NoReports /\ sound = {} /\ stage = "screening"

\* In stage s, the evidence of the cell that the manifest calls complete.
Sound(s, i) == Complete(s, i) => Backed(mem, s, i)

\* A stage that passed the integrity check is left alone from then on.
SoundInv ==
  /\ "screening" \in sound => \A i \in Items : Sound("screening", i)
  /\ "deepDive" \in sound => \A i \in mem.chosen : Sound("deepDive", i)
  /\ pc \in AtCell \cup {"assess"} => stage \notin sound
  /\ stage = "screening" => "deepDive" \notin sound
  /\ stage = "deepDive" => Cardinality(mem.chosen) = Wanted
  /\ frozen # {} => Cardinality(frozen) = Wanted
  /\ pc = "choose" => stage = "screening"
  /\ pc = "close" /\ report.complete =>
       /\ sound = Stages
       /\ \A i \in Items : Complete("screening", i)
       /\ \A i \in mem.chosen : Complete("deepDive", i)

EvidenceInv == WorthInv /\ GotInv /\ SoundInv

LEMMA InitEvidence == Init => EvidenceInv
<1> SUFFICES ASSUME Init PROVE EvidenceInv
  OBVIOUS
<1>1. Worthy(mem)
  BY DEF Init, NewManifest, NewEntry, Worthy
<1> QED BY <1>1 DEF Init, NoReport, EvidenceInv, WorthInv, GotInv, SoundInv, AtCell

\* A manifest that records no report but what another records.
Recorded(n, m) ==
  \A s \in Stages, i \in Items : n.entry[s][i].sha \in {m.entry[s][i].sha, NoFile}

LEMMA WorthyFrom ==
  ASSUME NEW m, NEW n, Worthy(m), Recorded(n, m)
  PROVE  Worthy(n)
BY DEF Worthy, Recorded

LEMMA SameRecorded == \A m, n : n.entry = m.entry => Recorded(n, m)
BY DEF Recorded

LEMMA MarkedSha ==
  ASSUME NEW e \in Entries
  PROVE  Marked(e).sha = e.sha
BY DEF Marked, Entries

LEMMA RereadRecorded ==
  ASSUME NEW m \in Manifests
  PROVE  Recorded(Reread(m), m)
<1>1. CASE Over(m)
  <2>1. Reread(m).entry = [s \in Stages |-> [i \in Items |-> Marked(m.entry[s][i])]]
    BY <1>1 DEF Reread, Manifests
  <2> QED BY <2>1, EntryType, MarkedSha DEF Recorded
<1>2. CASE ~Over(m)
  BY <1>2, SameRecorded DEF Reread
<1> QED BY <1>1, <1>2

LEMMA AssessedEntries ==
  ASSUME Typed
  PROVE  /\ Recorded(Assessed, mem) /\ Assessed.chosen = mem.chosen
         /\ \A i \in Items \ Affected : Assessed.entry[stage][i] = mem.entry[stage][i]
         /\ \A s \in Stages \ {stage} : Assessed.entry[s] = mem.entry[s]
<1>1. mem \in Manifests /\ stage \in Stages
  BY DEF Typed, TypeOK
<1> DEFINE es == [i \in Items |-> IF i \in Affected THEN Marked(mem.entry[stage][i]) ELSE mem.entry[stage][i]]
<1>2. \A i \in Items : es[i].sha = mem.entry[stage][i].sha /\ (i \notin Affected => es[i] = mem.entry[stage][i])
  BY <1>1, EntryType, MarkedSha
<1>3. Assessed = [mem EXCEPT !.entry[stage] = es]
  BY <1>1 DEF Assessed, Manifests
<1> HIDE DEF es
<1>4. /\ Assessed.entry[stage] = es /\ Assessed.chosen = mem.chosen
      /\ \A s \in Stages \ {stage} : Assessed.entry[s] = mem.entry[s]
  BY <1>1, <1>3 DEF Manifests
<1>5. Recorded(Assessed, mem)
  <2> SUFFICES ASSUME NEW s \in Stages, NEW i \in Items
               PROVE  Assessed.entry[s][i].sha = mem.entry[s][i].sha
    BY DEF Recorded
  <2> QED BY <1>2, <1>4
<1> QED BY <1>2, <1>4, <1>5

LEMMA ChosenEntries ==
  ASSUME Typed, NEW c \in SUBSET Items
  PROVE  Recorded(Chosen(c), mem) /\ Chosen(c).entry["screening"] = mem.entry["screening"]
<1>1. mem \in Manifests /\ "deepDive" \in Stages
  BY DEF Typed, TypeOK, Stages
<1>2. CASE mem.chosen \in {{}, c}
  <2>1. Chosen(c).entry = mem.entry
    BY <1>1, <1>2 DEF Chosen, Manifests
  <2> QED BY <2>1, SameRecorded
<1>3. CASE mem.chosen \notin {{}, c}
  <2> DEFINE es == [i \in Items |-> [mem.entry["deepDive"][i] EXCEPT !.sha = NoFile, !.error = None]]
  <2>1. \A i \in Items : es[i].sha = NoFile
    <3> SUFFICES ASSUME NEW i \in Items PROVE es[i].sha = NoFile
      OBVIOUS
    <3>1. mem.entry["deepDive"][i] \in Entries
      BY <1>1, EntryType
    <3> QED BY <3>1 DEF Entries
  <2>2. Chosen(c) = [mem EXCEPT !.chosen = c, !.entry["deepDive"] = es]
    BY <1>1, <1>3 DEF Chosen, Manifests
  <2> HIDE DEF es
  <2>3. Chosen(c).entry = [mem.entry EXCEPT !["deepDive"] = es]
    BY <1>1, <2>2 DEF Manifests
  <2>4. /\ Chosen(c).entry["deepDive"] = es
        /\ Chosen(c).entry["screening"] = mem.entry["screening"]
    BY <1>1, <2>3 DEF Manifests, Stages
  <2>5. Recorded(Chosen(c), mem)
    <3> SUFFICES ASSUME NEW s \in Stages, NEW i \in Items
                 PROVE  Chosen(c).entry[s][i].sha \in {mem.entry[s][i].sha, NoFile}
      BY DEF Recorded
    <3> QED BY <2>1, <2>4 DEF Stages
  <2> QED BY <2>4, <2>5
<1> QED BY <1>2, <1>3

LEMMA PutRecorded ==
  ASSUME Typed, at \in Items, NEW e \in Entries
  PROVE  /\ Put(e).chosen = mem.chosen
         /\ e.sha \in {Here.sha, NoFile} => Recorded(Put(e), mem)
         /\ Worthy(mem) /\ (e.sha # NoFile => e.sha.worth \in Worths) => Worthy(Put(e))
<1>1. mem \in Manifests /\ stage \in Stages
  BY DEF Typed, TypeOK
<1>2. Put(e).chosen = mem.chosen
  BY <1>1 DEF Put, Manifests
<1>3. e.sha \in {Here.sha, NoFile} => Recorded(Put(e), mem)
  BY PutType, HereType DEF Recorded
<1>4. Worthy(mem) /\ (e.sha # NoFile => e.sha.worth \in Worths) => Worthy(Put(e))
  BY PutType, HereType DEF Worthy
<1> QED BY <1>2, <1>3, <1>4

LEMMA NewWorthy == Worthy(NewManifest)
BY DEF Worthy, NewManifest, NewEntry

LEMMA WorthyWhenIdle ==
  ASSUME WorthInv, Worthy(mem'), disk' = disk \/ Worthy(disk'), pc' \notin {"judged", "settle"}
  PROVE  WorthInv'
BY DEF WorthInv

LEMMA PreparationWorth ==
  ASSUME Typed, WorthInv, Begin \/ (\E force \in BOOLEAN : Resume(force)) \/ Preparation
  PROVE  WorthInv'
<1>1. mem \in Manifests
  BY DEF Typed, TypeOK
<1>2. CASE Begin
  BY <1>2, NewWorthy, WorthyWhenIdle DEF Begin, Saves, Goes
<1>3. ASSUME NEW force \in BOOLEAN, Resume(force) PROVE WorthInv'
  <2>1. disk \in Manifests /\ Worthy(disk) /\ mem' = Reread(disk) /\ disk' = mem' /\ pc' = "prepare"
    BY <1>3 DEF Resume, Saves, Goes, Typed, TypeOK, WorthInv
  <2> QED BY <2>1, RereadRecorded, WorthyFrom, WorthyWhenIdle
<1>4. ASSUME mem' = NewManifest \/ mem'.entry = mem.entry,
             disk' \in {disk, mem'}, pc' \notin {"judged", "settle"}
      PROVE  WorthInv'
  <2>1. Worthy(mem')
    BY <1>4, NewWorthy, SameRecorded, WorthyFrom DEF WorthInv
  <2> QED BY <1>4, <2>1, WorthyWhenIdle
<1>5. CASE Prepared \/ Unknown
  BY <1>4, <1>5 DEF Prepared, Unknown, Ends, Goes, outside
<1>6. CASE Mark
  <2>1. mem'.entry = mem.entry
    BY <1>1, <1>6 DEF Mark, Saves, Manifests
  <2> QED BY <1>4, <1>6, <2>1 DEF Mark, Saves, Goes
<1>7. CASE Deliver
  BY <1>4, <1>7 DEF Deliver, Ends, Goes
<1>8. CASE Keep
  <2>1. mem'.entry = mem.entry
    BY <1>1, <1>8 DEF Keep, Saves, Manifests
  <2> QED BY <1>4, <1>8, <2>1 DEF Keep, Saves, Goes
<1> QED BY <1>2, <1>3, <1>5, <1>6, <1>7, <1>8 DEF Preparation

LEMMA StageWorth ==
  ASSUME Typed, WorthInv, Stage
  PROVE  WorthInv'
<1>1. /\ mem \in Manifests /\ stage \in Stages /\ Worthy(mem)
      /\ file \in [Stages -> [Items -> Files]] /\ last \in Kinds \cup {None}
  BY DEF Typed, TypeOK, WorthInv
<1>2. CASE Screen
  BY <1>1, <1>2, AfterPlace, WorthyWhenIdle DEF Screen, Saves
<1>3. CASE Reuse
  BY <1>1, <1>3, AfterPlace, WorthyWhenIdle DEF Reuse
<1>4. CASE Skip
  BY <1>1, <1>4, OnwardPlace, WorthyWhenIdle DEF Skip
<1>5. CASE Reject
  <2>1. at \in Items /\ pc' = "cell" /\ disk' = disk
    BY <1>5 DEF Reject, Typed, PlaceInv, control
  <2> DEFINE e == [Here EXCEPT !.sha = NoFile, !.error = "terminal"]
  <2>2. e \in Entries /\ e.sha = NoFile
    BY <2>1, HereType, ChangedType DEF Entries
  <2>3. mem' = Put(e)
    BY <1>5 DEF Reject
  <2> HIDE DEF e
  <2>4. Worthy(mem')
    BY <1>1, <2>1, <2>2, <2>3, PutRecorded
  <2> QED BY <2>1, <2>4, WorthyWhenIdle
<1>6. CASE Attempt
  <2>1. at \in Items /\ pc' = "run" /\ disk' = mem'
    BY <1>6 DEF Attempt, Open, Saves, Goes, Typed, PlaceInv
  <2> DEFINE e == [Here EXCEPT !.count = @ + 1]
  <2>2. Here.count + 1 \in 0..Limit
    BY <1>6, <2>1, HereType, EntryType, <1>1, LimitType, Numbers DEF Attempt, GivenUp
  <2>3. e \in Entries /\ e.sha = Here.sha
    BY <2>1, <2>2, HereType, ChangedType DEF Entries
  <2>4. mem' = Put(e)
    BY <1>6 DEF Attempt, Saves
  <2> HIDE DEF e
  <2>5. Worthy(mem')
    BY <1>1, <2>1, <2>3, <2>4, PutRecorded, WorthyFrom
  <2> QED BY <2>1, <2>5, WorthyWhenIdle
<1>7. CASE Refused
  <2>1. last' # None
    BY <1>7, NoneAssumption DEF Refused, Kinds
  <2> QED BY <1>7, <2>1 DEF Refused, WorthInv, outside
<1>8. CASE Simulate
  <2>1. at \in Items /\ UNCHANGED <<mem, disk, stage, at>>
    BY <1>8 DEF Simulate, Typed, PlaceInv
  <2>2. ASSUME last' = None PROVE data' \in Worths /\ file'[stage][at].worth = data'
    <3>1. data' \in Worths /\ Leaves(data')
      BY <1>8, <2>2, NoneAssumption, StressAssumption DEF Simulate, Kinds
    <3>2. file'[stage][at] = [by |-> Here.count, worth |-> data']
      BY <1>1, <2>1, <3>1 DEF Leaves
    <3> QED BY <3>1, <3>2
  <2> QED BY <2>1, <2>2 DEF WorthInv
<1>9. CASE Judge
  <2>1. at \in Items /\ disk' = mem' /\ UNCHANGED <<stage, at, last, data, file>> /\ pc = "judged"
    BY <1>9 DEF Judge, Saves, Typed, PlaceInv, outside
  <2> DEFINE e == [Here EXCEPT !.error = last]
  <2>2. e \in Entries /\ e.sha = Here.sha
    BY <1>1, <2>1, HereType, ChangedType DEF Entries
  <2>3. mem' = Put(e)
    BY <1>9 DEF Judge, Saves
  <2> HIDE DEF e
  <2>4. Worthy(mem')
    BY <1>1, <2>1, <2>2, <2>3, PutRecorded, WorthyFrom
  <2> QED BY <2>1, <2>4 DEF WorthInv
<1>10. CASE Settle
  <2>1. at \in Items /\ (last = None => file[stage][at].worth \in Worths)
    BY <1>10 DEF Settle, Typed, PlaceInv, WorthInv
  <2>2. PICK error \in Kinds \cup {None}, f \in Files :
          /\ mem' = Put(Settled(Here, f, error)) /\ disk' = mem'
          /\ Onward(error)
          /\ last = None => f = file[stage][at]
          /\ last # None => f = NoFile
    BY <1>10, SettleStep
  <2>3. f # NoFile => f.worth \in Worths
    BY <2>1, <2>2
  <2> DEFINE e == Settled(Here, f, error)
  <2>4. e \in Entries /\ e.sha = f
    <3>1. Here \in Entries
      BY <2>1, HereType
    <3> QED BY <3>1, SettledType
  <2>5. mem' = Put(e) /\ pc' \notin {"judged", "settle"}
    BY <2>2, OnwardPlace
  <2> HIDE DEF e
  <2>6. Worthy(mem')
    BY <1>1, <2>1, <2>3, <2>4, <2>5, PutRecorded
  <2> QED BY <2>2, <2>5, <2>6, WorthyWhenIdle
<1>11. CASE Assess
  <2>1. mem' = Assessed /\ disk' = mem' /\ pc' \notin {"judged", "settle"}
    BY <1>1, <1>11, AfterPlace DEF Assess, Saves, Goes
  <2> QED BY <1>1, <2>1, AssessedEntries, WorthyFrom, WorthyWhenIdle
<1> QED BY <1>2, <1>3, <1>4, <1>5, <1>6, <1>7, <1>8, <1>9, <1>10, <1>11 DEF Stage

LEMMA EndingWorth ==
  ASSUME Typed, WorthInv, Ending \/ Die \/ Damage
  PROVE  WorthInv'
<1>1. mem \in Manifests /\ Worthy(mem) /\ frozen \in SUBSET Items
  BY DEF Typed, TypeOK, WorthInv
<1>2. CASE Choose
  <2>1. \E c \in SUBSET Items : Saves(Chosen(c)) /\ pc' \in {"assess", "cell", "open"}
    <3>1. CASE \E c \in Representatives : Saves(Chosen(c)) /\ After("deepDive", Chosen(c), 0)
      <4>1. PICK c \in Representatives : Saves(Chosen(c)) /\ After("deepDive", Chosen(c), 0)
        BY <3>1
      <4>2. c \in SUBSET Items
        BY <1>1, <4>1 DEF Representatives
      <4> QED BY <4>1, <4>2, ChosenType, AfterPlace
    <3>2. CASE Saves(Chosen({})) /\ Goes("open")
      BY <3>2 DEF Goes
    <3> QED BY <1>2, <3>1, <3>2 DEF Choose
  <2>2. PICK c \in SUBSET Items : Saves(Chosen(c)) /\ pc' \in {"assess", "cell", "open"}
    BY <2>1
  <2> QED BY <1>1, <2>2, ChosenEntries, WorthyFrom, WorthyWhenIdle DEF Saves
<1>3. CASE OpenReport
  <2>1. mem'.entry = mem.entry
    BY <1>1, <1>3 DEF OpenReport, Saves, Manifests
  <2> QED BY <1>1, <1>3, <2>1, SameRecorded, WorthyFrom, WorthyWhenIdle DEF OpenReport, Saves, Goes
<1>4. CASE Publish
  BY <1>1, <1>4, WorthyWhenIdle DEF Publish, Outcome, Goes
<1>5. CASE Close
  <2>1. disk'.entry = mem.entry
    BY <1>1, <1>5 DEF Close, Manifests
  <2>2. Worthy(disk') /\ mem' = NewManifest /\ pc' = "idle"
    BY <1>1, <1>5, <2>1, SameRecorded, WorthyFrom DEF Close, Ends, Goes
  <2> QED BY <2>2, NewWorthy, WorthyWhenIdle
<1>6. CASE Die
  BY <1>6, NewWorthy, WorthyWhenIdle DEF Die, Ends, Goes
<1>7. CASE Damage
  BY <1>7 DEF Damage, WorthInv, control
<1> QED BY <1>2, <1>3, <1>4, <1>5, <1>6, <1>7 DEF Ending

\* At a cell, what has changed is that cell, and the pass goes forward.
LEMMA CellEvidence ==
  ASSUME Typed, GotInv, SoundInv, pc \in AtCell,
         UNCHANGED <<stage, frozen, sound>>, mem'.chosen = mem.chosen,
         \A s \in Stages, i \in Items : s # stage \/ i # at =>
           mem'.entry[s][i] = mem.entry[s][i] /\ file'[s][i] = file[s][i],
         \A i \in Items : i # at => got'[i] = got[i],
         \A i \in Items : i = at => Honest(i)',
         pc' \in AtCell \cup {"assess"},
         pc' \in AtCell => at' \in Nat /\ at' >= at,
         pc' \in AtCell /\ got'[at] # "none" => at' > at
  PROVE  GotInv' /\ SoundInv'
<1>1. /\ at \in Items /\ stage \in Stages /\ mem.chosen \subseteq Items
      /\ sound \subseteq Stages /\ stage \notin sound /\ "screening" \in Stages /\ "deepDive" \in Stages
  BY DEF Typed, TypeOK, PlaceInv, AtCell, Manifests, SoundInv, Stages
<1>2. \A i \in Items : Honest(i) /\ (got[i] # "none" => i < at)
  BY DEF GotInv
<1>3. \A i \in Items : Honest(i)'
  <2> SUFFICES ASSUME NEW i \in Items, i # at PROVE Honest(i)'
    OBVIOUS
  <2>1. mem'.entry[stage'][i] = mem.entry[stage][i] /\ file'[stage'][i] = file[stage][i]
    BY <1>1
  <2> QED BY <1>2, <2>1 DEF Honest, Good, Complete
<1>4. pc' \in AtCell => \A i \in Items : got'[i] # "none" => i < at'
  <2> SUFFICES ASSUME pc' \in AtCell, NEW i \in Items, got'[i] # "none" PROVE i < at'
    OBVIOUS
  <2>1. i \in Nat /\ at \in Nat /\ at' \in Nat /\ at' >= at
    BY <1>1, Numbers
  <2>2. CASE i = at
    BY <2>2
  <2>3. CASE i # at
    <3>1. i < at
      BY <1>2, <2>3
    <3> QED BY <2>1, <3>1
  <2> QED BY <2>2, <2>3
<1>5. GotInv'
  BY <1>3, <1>4 DEF GotInv, AtCell
<1>6. \A s \in sound, i \in Items : mem'.entry[s][i] = mem.entry[s][i] /\ file'[s][i] = file[s][i]
  BY <1>1
<1>7. SoundInv'
  BY <1>1, <1>6 DEF SoundInv, Sound, Complete, Backed, AtCell
<1> QED BY <1>5, <1>7

\* The same, when the step brings no report.
LEMMA CellAsItWas ==
  ASSUME Typed, GotInv, SoundInv, pc \in AtCell,
         UNCHANGED <<stage, frozen, sound, got>>, mem'.chosen = mem.chosen,
         \A s \in Stages, i \in Items : s # stage \/ i # at =>
           mem'.entry[s][i] = mem.entry[s][i] /\ file'[s][i] = file[s][i],
         pc' \in AtCell \cup {"assess"},
         pc' \in AtCell => at' \in Nat /\ at' >= at
  PROVE  GotInv' /\ SoundInv'
<1>1. at \in Items /\ at \in Nat
  BY Numbers DEF Typed, PlaceInv, AtCell
<1>2. got[at] = "none"
  BY <1>1 DEF GotInv
<1>3. \A i \in Items : got'[i] = got[i]
  OBVIOUS
<1>4. got'[at] = "none"
  BY <1>2
<1>5. \A i \in Items : i = at => Honest(i)'
  BY <1>4 DEF Honest
<1> QED BY <1>3, <1>4, <1>5, CellEvidence

LEMMA AfterPast ==
  ASSUME NEW s, NEW m \in Manifests, NEW from \in Nat, After(s, m, from), pc' = "cell"
  PROVE  at' \in Nat /\ at' > from
<1>1. ItemsOf(s, m) \subseteq Nat
  BY Numbers DEF ItemsOf, Manifests
<1> QED BY <1>1 DEF After, Goes

LEMMA OnwardPast ==
  ASSUME Typed, at \in Items, NEW error, Onward(error)
  PROVE  pc' \in {"cell", "assess"} /\ (pc' = "cell" => at' \in Nat /\ at' > at)
<1>1. pc' \in {"cell", "assess"}
  BY OnwardPlace
<1>2. ASSUME pc' = "cell" PROVE at' \in Nat /\ at' > at
  <2>1. After(stage, mem, at)
    BY <1>2 DEF Onward, Goes
  <2> QED BY <1>2, <2>1, AfterPast, Numbers DEF Typed, TypeOK
<1> QED BY <1>1, <1>2

\* Before the first stage there is no evidence to keep.
LEMMA FreshEvidence ==
  ASSUME pc' \in {"idle", "prepare", "deliver", "keep"}, got' = NoReports, sound' = {},
         stage' = "screening", frozen' # {} => Cardinality(frozen') = Wanted
  PROVE  GotInv' /\ SoundInv'
BY DEF GotInv, SoundInv, AtCell

LEMMA PreparationEvidence ==
  ASSUME Typed, GotInv, SoundInv,
         Begin \/ (\E force \in BOOLEAN : Resume(force)) \/ Preparation \/ Close \/ Die \/ Damage
  PROVE  GotInv' /\ SoundInv'
<1>1. CASE Ends
  BY <1>1, FreshEvidence DEF Ends, Goes
<1>2. ASSUME pc \in {"idle", "prepare", "deliver", "keep"}, pc' \in {"idle", "prepare", "deliver", "keep"},
             UNCHANGED <<stage, got, sound>>, frozen' = frozen \/ frozen' = {} \/ Cardinality(frozen') = Wanted
      PROVE  GotInv' /\ SoundInv'
  BY <1>2, FreshEvidence DEF GotInv, SoundInv
<1>3. CASE Begin
  BY <1>2, <1>3 DEF Begin, Goes
<1>4. CASE \E force \in BOOLEAN : Resume(force)
  BY <1>2, <1>4 DEF Resume, Goes
<1>5. CASE Prepared \/ Unknown
  BY <1>1, <1>2, <1>5 DEF Prepared, Unknown, Within
<1>6. CASE Mark \/ Keep
  BY <1>2, <1>6 DEF Mark, Keep, Goes, Within
<1>7. CASE Deliver
  BY <1>1, <1>2, <1>7 DEF Deliver, Goes, Within
<1>8. CASE Close \/ Die
  BY <1>1, <1>8 DEF Close, Die
<1>9. CASE Damage
  BY <1>2, <1>9 DEF Damage, control
<1> QED BY <1>3, <1>4, <1>5, <1>6, <1>7, <1>8, <1>9 DEF Preparation

\* A pass begins with nothing.
LEMMA FreshPass ==
  ASSUME got' = NoReports, pc' \notin {"idle", "prepare", "deliver", "keep"}
  PROVE  GotInv'
BY DEF GotInv, Honest, NoReports, AtCell

LEMMA CellStepEvidence ==
  ASSUME Typed, WorthInv, GotInv, SoundInv,
         Screen \/ Reuse \/ Reject \/ Skip \/ Attempt \/ Refused \/ Simulate \/ Judge \/ Settle
  PROVE  GotInv' /\ SoundInv'
<1>1. /\ mem \in Manifests /\ stage \in Stages /\ got \in [Items -> Looks]
      /\ file \in [Stages -> [Items -> Files]] /\ last \in Kinds \cup {None}
      /\ pc \in AtCell => at \in Items /\ at \in Nat
  BY Numbers DEF Typed, TypeOK, PlaceInv, AtCell
<1>2. CASE Screen
  <2>1. /\ got' = NoReports /\ sound = {} /\ UNCHANGED <<stage, sound, frozen>> /\ stage = "screening"
        /\ pc' \in {"cell", "assess"}
    BY <1>1, <1>2, AfterPlace DEF Screen, GotInv
  <2> QED BY <2>1, FreshPass DEF SoundInv, AtCell
<1>3. CASE Reuse
  <2>1. /\ pc = "cell" /\ Good(stage, at) /\ After(stage, mem, at)
        /\ got' = [got EXCEPT ![at] = file[stage][at].worth]
        /\ UNCHANGED <<mem, file, stage, frozen, sound>>
    BY <1>3 DEF Reuse, Good, Here, outside
  <2>2. pc' \in {"cell", "assess"} /\ (pc' = "cell" => at' \in Nat /\ at' > at)
    BY <1>1, <2>1, AfterPlace, AfterPast DEF AtCell
  <2>3. got'[at] = file[stage][at].worth /\ \A i \in Items : i # at => got'[i] = got[i]
    BY <1>1, <2>1 DEF AtCell
  <2>4. \A i \in Items : i = at => Honest(i)'
    <3>1. /\ mem'.entry[stage'][at] = mem.entry[stage][at]
          /\ file'[stage'][at] = file[stage][at]
      BY <2>1
    <3> QED BY <2>1, <2>3, <3>1 DEF Honest, Good, Complete
  <2> QED BY <1>1, <2>1, <2>2, <2>3, <2>4, CellEvidence DEF AtCell
<1>4. CASE Skip
  <2>1. pc \in AtCell /\ UNCHANGED <<mem, file, stage, frozen, sound, got>> /\ Onward(Here.error)
    BY <1>4 DEF Skip, Open, AtCell, outside
  <2>2. pc' \in {"cell", "assess"} /\ (pc' = "cell" => at' \in Nat /\ at' > at)
    BY <1>1, <2>1, OnwardPast
  <2>3. pc' \in AtCell => at' \in Nat /\ at' >= at
    BY <1>1, <2>1, <2>2 DEF AtCell
  <2>4. pc' \in AtCell \cup {"assess"}
    BY <2>2 DEF AtCell
  <2> QED BY <2>1, <2>3, <2>4, CellAsItWas
<1>5. ASSUME pc \in AtCell, NEW e \in Entries, mem' = Put(e),
             UNCHANGED <<file, stage, frozen, sound, at, got>>, pc' \in AtCell
      PROVE  GotInv' /\ SoundInv'
  <2>1. /\ mem'.chosen = mem.chosen /\ mem'.entry[stage][at] = e
        /\ \A s \in Stages, i \in Items : s # stage \/ i # at => mem'.entry[s][i] = mem.entry[s][i]
    BY <1>1, <1>5, PutType, PutRecorded
  <2> QED BY <1>1, <1>5, <2>1, CellAsItWas
<1>6. CASE Reject
  <2>1. [Here EXCEPT !.sha = NoFile, !.error = "terminal"] \in Entries
    BY <1>1, <1>6, HereType, ChangedType DEF Reject, AtCell
  <2> QED BY <1>5, <1>6, <2>1 DEF Reject, AtCell, control, outside
<1>7. CASE Attempt
  <2>1. pc = "cell" /\ at \in Items
    BY <1>1, <1>7 DEF Attempt, Open, AtCell
  <2>2. Here.count + 1 \in 0..Limit
    BY <1>7, <2>1, HereType, EntryType, <1>1, LimitType, Numbers DEF Attempt, GivenUp
  <2>3. [Here EXCEPT !.count = @ + 1] \in Entries
    BY <2>1, <2>2, HereType, ChangedType
  <2> QED BY <1>5, <1>7, <2>1, <2>3 DEF Attempt, Saves, Goes, AtCell, outside
<1>8. CASE Refused
  <2>1. pc = "run" /\ pc' = "judged" /\ UNCHANGED <<mem, file, stage, frozen, sound, at, got>>
    BY <1>8 DEF Refused, Goes, outside
  <2> QED BY <1>1, <2>1, CellAsItWas DEF AtCell
<1>9. CASE Simulate
  <2>1. pc = "run" /\ pc' = "judged" /\ UNCHANGED <<mem, stage, frozen, sound, at, got>>
    BY <1>9 DEF Simulate, Goes
  <2>2. file' = file \/ \E f : file' = [file EXCEPT ![stage][at] = f]
    BY <1>9 DEF Simulate, Leaves
  <2>3. \A s \in Stages, i \in Items : s # stage \/ i # at => file'[s][i] = file[s][i]
    BY <1>1, <2>1, <2>2 DEF AtCell
  <2> QED BY <1>1, <2>1, <2>3, CellAsItWas DEF AtCell
<1>10. CASE Judge
  <2>1. pc = "judged" /\ at \in Items
    BY <1>1, <1>10 DEF Judge, AtCell
  <2>2. [Here EXCEPT !.error = last] \in Entries
    BY <1>1, <2>1, HereType, ChangedType
  <2>3. /\ mem' = Put([Here EXCEPT !.error = last]) /\ pc' \in {"cell", "settle"}
        /\ UNCHANGED <<file, stage, frozen, sound, at, got>>
    BY <1>10 DEF Judge, Saves, Goes, outside
  <2> QED BY <1>5, <2>1, <2>2, <2>3 DEF AtCell
<1>11. CASE Settle
  <2>1. /\ pc = "settle" /\ at \in Items /\ UNCHANGED <<file, stage, frozen, sound>>
        /\ last = None => data \in Worths /\ file[stage][at].worth = data
        /\ got' = IF data = "none" THEN got ELSE [got EXCEPT ![at] = data]
        /\ got[at] = "none"
    <3>1. pc = "settle" /\ at \in Items /\ at \in Nat
      BY <1>1, <1>11 DEF Settle, AtCell
    <3>2. got[at] = "none"
      BY <3>1 DEF GotInv, AtCell
    <3> QED BY <1>11, <3>1, <3>2 DEF Settle, WorthInv, outside
  <2>2. PICK error \in Kinds \cup {None}, f \in Files :
          /\ mem' = Put(Settled(Here, f, error)) /\ Onward(error)
          /\ last = None => error = None /\ f = file[stage][at]
          /\ last # None => f = NoFile
    BY <1>11, SettleStep
  <2> DEFINE e == Settled(Here, f, error)
  <2>3. e \in Entries /\ e.sha = f /\ e.error = error /\ mem' = Put(e)
    <3>1. Here \in Entries
      BY <2>1, HereType
    <3> QED BY <2>2, <3>1, SettledType
  <2> HIDE DEF e
  <2>4. /\ mem'.chosen = mem.chosen /\ mem'.entry[stage][at] = e
        /\ \A s \in Stages, i \in Items : s # stage \/ i # at => mem'.entry[s][i] = mem.entry[s][i]
    BY <1>1, <2>1, <2>3, PutType, PutRecorded
  <2>5. pc' \in {"cell", "assess"} /\ (pc' = "cell" => at' \in Nat /\ at' > at)
    BY <1>1, <2>1, <2>2, OnwardPast
  <2>6. got'[at] = data /\ \A i \in Items : i # at => got'[i] = got[i]
    BY <1>1, <2>1
  <2>7. \A i \in Items : i = at => Honest(i)'
    <3> SUFFICES ASSUME mem'.entry[stage][at].sha # NoFile
                 PROVE  /\ mem'.entry[stage][at].error = None
                        /\ file[stage][at] = mem'.entry[stage][at].sha
                        /\ file[stage][at].worth = data
      BY <2>1, <2>6 DEF Honest, Complete, Good, Reusable
    <3>1. last = None
      BY <2>2, <2>3, <2>4
    <3> QED BY <2>1, <2>2, <2>3, <2>4, <3>1
  <2>8. /\ pc \in AtCell /\ pc' \in AtCell \cup {"assess"}
        /\ pc' \in AtCell => at' \in Nat /\ at' > at /\ at' >= at
    BY <1>1, <2>1, <2>5 DEF AtCell
  <2>9. \A s \in Stages, i \in Items : s # stage \/ i # at =>
          mem'.entry[s][i] = mem.entry[s][i] /\ file'[s][i] = file[s][i]
    BY <2>1, <2>4
  <2> QED BY <2>1, <2>4, <2>6, <2>7, <2>8, <2>9, CellEvidence
<1> QED BY <1>2, <1>3, <1>4, <1>6, <1>7, <1>8, <1>9, <1>10, <1>11

LEMMA AssessEvidence ==
  ASSUME Typed, WorthInv, GotInv, SoundInv, Assess
  PROVE  GotInv' /\ SoundInv'
<1>1. /\ mem \in Manifests /\ stage \in Stages /\ sound \subseteq Stages
      /\ stage \notin sound /\ mem.chosen \subseteq Items
      /\ \A i \in Items : Honest(i)
  BY DEF Typed, TypeOK, Assess, GotInv, SoundInv, AtCell, Manifests
<1>2. mem' = Assessed /\ UNCHANGED <<file, stage, frozen>>
  BY DEF Assess, Saves, outside
<1>3. /\ mem'.chosen = mem.chosen
      /\ \A i \in Items \ Affected : mem'.entry[stage][i] = mem.entry[stage][i]
      /\ \A s \in Stages \ {stage} : mem'.entry[s] = mem.entry[s]
  BY <1>2, AssessedEntries
<1>4. "screening" \in Stages /\ "deepDive" \in Stages /\ \A s \in Stages : s = "screening" \/ s = "deepDive"
  BY DEF Stages
<1>5. CASE \E i \in Affected : CanRetry(Assessed.entry[stage][i])
  <2>1. got' = NoReports /\ sound' = sound /\ pc' \in {"cell", "assess"}
    BY <1>1, <1>5, AfterPlace DEF Assess
  <2>2. GotInv'
    BY <2>1, FreshPass
  <2>3. SoundInv'
    BY <1>1, <1>2, <1>3, <1>4, <2>1 DEF SoundInv, Sound, Complete, Backed
  <2> QED BY <2>2, <2>3
<1>6. CASE ~\E i \in Affected : CanRetry(Assessed.entry[stage][i])
  <2>1. /\ sound' = IF Affected = {} THEN sound \cup {stage} ELSE sound
        /\ pc' = IF stage = "screening" THEN "choose" ELSE "open"
    BY <1>6 DEF Assess, Goes
  <2>2. GotInv'
    BY <2>1 DEF GotInv, AtCell
  <2>3. ASSUME Affected = {} PROVE \A i \in ItemsOf(stage, mem) : Sound(stage, i)
    <3>1. TAKE i \in ItemsOf(stage, mem)
    <3>2. i \in Items /\ got[i] \notin {"none", "aliased"}
      BY <1>1, <2>3 DEF Affected, ItemsOf
    <3> SUFFICES ASSUME Complete(stage, i) PROVE Backed(mem, stage, i)
      BY DEF Sound
    <3>3. Good(stage, i) /\ file[stage][i].worth = got[i]
      BY <1>1, <3>2 DEF Honest
    <3>4. file[stage][i].worth \in Worths
      BY <1>1, <3>2, <3>3 DEF WorthInv, Worthy, Good, Reusable
    <3>5. file[stage][i].worth \in {"sound", "vague"}
      BY <3>2, <3>3, <3>4, StressAssumption
    <3> QED BY <3>3, <3>5 DEF Backed, Good
  <2>4. SoundInv'
    <3>1. \A s \in sound' : \A i \in ItemsOf(s, mem) : Sound(s, i)
      BY <1>1, <1>4, <2>1, <2>3 DEF SoundInv, ItemsOf
    <3>2. \A s \in sound', i \in Items : mem'.entry[s][i] = mem.entry[s][i]
      BY <1>1, <1>3, <2>1
    <3>3. /\ "screening" \in sound' => \A i \in Items : Sound("screening", i)'
          /\ "deepDive" \in sound' => \A i \in mem'.chosen : Sound("deepDive", i)'
      BY <1>1, <1>2, <1>3, <1>4, <3>1, <3>2 DEF ItemsOf, Sound, Complete, Backed
    <3>4. pc' \in {"choose", "open"} /\ (pc' = "choose" => stage = "screening")
      BY <2>1
    <3>5. stage = "screening" => "deepDive" \notin sound'
      BY <2>1 DEF SoundInv
    <3> QED BY <1>2, <1>3, <3>3, <3>4, <3>5 DEF SoundInv, AtCell
  <2> QED BY <2>2, <2>4
<1> QED BY <1>5, <1>6

LEMMA EndingEvidence ==
  ASSUME Typed, GotInv, SoundInv, Choose \/ OpenReport \/ Publish
  PROVE  GotInv' /\ SoundInv'
<1>1. mem \in Manifests /\ frozen \in SUBSET Items
  BY DEF Typed, TypeOK
<1>2. CASE Choose
  <2>1. /\ stage = "screening" /\ "deepDive" \notin sound /\ got' = NoReports
        /\ UNCHANGED <<frozen, sound, file>>
    BY <1>2 DEF Choose, SoundInv, outside
  <2>2. CASE /\ Stable /\ stage' = "deepDive"
             /\ \E c \in Representatives : Saves(Chosen(c)) /\ After("deepDive", Chosen(c), 0)
    <3>1. PICK c \in Representatives : Saves(Chosen(c)) /\ After("deepDive", Chosen(c), 0)
      BY <2>2
    <3>2. c \in SUBSET Items /\ Cardinality(c) = Wanted
      BY <1>1, <3>1 DEF Representatives, SoundInv
    <3>3. mem' = Chosen(c) /\ mem'.chosen = c /\ mem'.entry["screening"] = mem.entry["screening"]
      BY <3>1, <3>2, ChosenType, ChosenEntries DEF Saves
    <3>4. pc' \in {"cell", "assess"}
      BY <3>1, <3>2, ChosenType, AfterPlace
    <3>5. GotInv'
      BY <2>1, <3>4, FreshPass
    <3>6. SoundInv'
      BY <2>1, <2>2, <3>2, <3>3, <3>4 DEF Stable, SoundInv, Sound, Complete, Backed, AtCell
    <3> QED BY <3>5, <3>6
  <2>3. CASE /\ ~Stable /\ Saves(Chosen({}))
             /\ Goes("open") /\ UNCHANGED <<stage, at, again>>
    <3>1. mem' = Chosen({}) /\ mem'.entry["screening"] = mem.entry["screening"]
      BY <2>3, ChosenEntries DEF Saves
    <3>2. pc' = "open" /\ stage' = stage
      BY <2>3 DEF Goes
    <3>3. GotInv'
      BY <2>1, <3>2, FreshPass
    <3> QED BY <2>1, <3>1, <3>2, <3>3 DEF SoundInv, Sound, Complete, Backed, AtCell
  <2> QED BY <1>2, <2>2, <2>3 DEF Choose
<1>3. CASE OpenReport
  <2>1. mem'.entry = mem.entry /\ mem'.chosen = mem.chosen
    BY <1>1, <1>3 DEF OpenReport, Saves, Manifests
  <2> QED BY <1>3, <2>1 DEF OpenReport, Goes, outside, GotInv, SoundInv, Sound, Complete, Backed, AtCell
<1>4. CASE Publish
  <2>1. /\ pc' = "close" /\ UNCHANGED <<mem, file, stage, frozen, got, sound>>
        /\ report'.complete => /\ sound = Stages
                               /\ \A i \in Items : Complete("screening", i)
                               /\ \A i \in mem.chosen : Complete("deepDive", i)
    BY <1>4 DEF Publish, Outcome, Goes
  <2> QED BY <2>1 DEF GotInv, SoundInv, Sound, Complete, Backed, AtCell
<1> QED BY <1>2, <1>3, <1>4

LEMMA NextEvidence == Typed /\ EvidenceInv /\ [Next]_vars => EvidenceInv'
<1>1. CASE UNCHANGED vars
  BY <1>1 DEF EvidenceInv, WorthInv, GotInv, SoundInv, Honest, Sound, Complete, Good, Backed,
              vars, control, outside
<1>2. ASSUME Typed, EvidenceInv, Next PROVE WorthInv'
  BY <1>2, PreparationWorth, StageWorth, EndingWorth DEF EvidenceInv, Next, Works
<1>3. ASSUME Typed, EvidenceInv, Next PROVE GotInv' /\ SoundInv'
  BY <1>3, PreparationEvidence, CellStepEvidence, AssessEvidence, EndingEvidence
     DEF EvidenceInv, Next, Works, Stage, Ending
<1> QED BY <1>1, <1>2, <1>3 DEF EvidenceInv

\* A run is closed over a report that calls the analysis complete only when, for
\* every opponent's screening and every representative's deep dive, the report
\* file is the one recorded and its matrices are its own, whatever earlier
\* invocations left, whatever was lost in between, and although a pass counts
\* complete reports that were never written.
THEOREM CompleteMeansBacked == Spec => ReportIsBacked
<1>1. ASSUME Typed, EvidenceInv, pc = "close", report.complete, disk' # disk, [Next]_vars
      PROVE  /\ \A i \in Items : Backed(disk', "screening", i)
             /\ Cardinality(disk'.chosen) = Wanted
             /\ \A i \in disk'.chosen : Backed(disk', "deepDive", i)
  <2>1. /\ mem \in Manifests /\ sound = Stages /\ stage \in Stages
        /\ \A i \in Items : Complete("screening", i)
        /\ \A i \in mem.chosen : Complete("deepDive", i)
    BY <1>1 DEF Typed, TypeOK, EvidenceInv, SoundInv
  <2>2. Close
    BY <1>1 DEF Next, Works, Preparation, Stage, Ending, Begin, Resume, Prepared, Unknown, Mark, Deliver, Keep,
                Screen, Reuse, Reject, Skip, Open, Attempt, Refused, Simulate, Judge, Settle, Assess,
                Choose, OpenReport, Publish, Die, Damage, vars
  <2>3. disk'.entry = mem.entry /\ disk'.chosen = mem.chosen
    BY <2>1, <2>2 DEF Close, Manifests
  <2>4. stage = "deepDive"
    BY <1>1, <2>1 DEF EvidenceInv, SoundInv, Stages
  <2> QED BY <1>1, <2>1, <2>3, <2>4 DEF EvidenceInv, SoundInv, Sound, Stages, Backed
<1>2. Typed /\ EvidenceInv /\ [Next]_vars =>
        [pc = "close" /\ disk' # disk /\ report.complete =>
           /\ \A i \in Items : Backed(disk', "screening", i)
           /\ Cardinality(disk'.chosen) = Wanted
           /\ \A i \in disk'.chosen : Backed(disk', "deepDive", i)]_vars
  BY <1>1
<1>3. IInv => Typed
  BY DEF IInv
<1> QED BY <1>2, <1>3, IInvHolds, InitEvidence, NextEvidence, PTL DEF Spec, ReportIsBacked

=============================================================================
