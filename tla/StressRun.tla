------------------------------ MODULE StressRun ------------------------------
(***************************************************************************)
(* A stress run on the Tessera website (local/tessera/stress.ts): the      *)
(* player's roster and its opponents are delivered to New Recruit, every   *)
(* opponent is simulated in a screening stage and some of them again in    *)
(* full, and a report is written.                                          *)
(*                                                                         *)
(* One manifest on disk tells what was done.  An invocation reads it,      *)
(* works on its copy and replaces the file after each step; a later one    *)
(* resumes.  An invocation that dies, or whose write fails, leaves the     *)
(* manifest as it last wrote it, the reports and the lists it made.        *)
(*                                                                         *)
(* Roster 0 is the player's, the opponents are numbered in the order of    *)
(* the portfolio.  A report file is known by the attempt that wrote it and *)
(* by what its matrices are worth.                                         *)
(***************************************************************************)
EXTENDS Naturals, FiniteSets

CONSTANTS
  Opponents,      \* the number of opponents in the portfolio
  Wanted,         \* representatives a complete analysis needs
  FirstLimit,     \* attempts at a cell in the first invocation
  Limit,          \* attempts at a cell over all invocations
  Overwrite,      \* --overwrite
  Failures,       \* the kinds of failure that occur
  Worths,         \* what the matrices of a complete report may be worth
  Enough,         \* the sets of opponents whose confident evidence is enough
  Resumes,        \* the bound on the invocations that resume
  Fragile,        \* the opponents whose files may be lost or altered
  None

ASSUME StressAssumption ==
  /\ Opponents \in Nat \ {0} /\ Wanted \in 1..Opponents
  /\ FirstLimit \in Nat \ {0} /\ Limit \in Nat /\ FirstLimit <= Limit
  /\ Overwrite \in BOOLEAN
  /\ Failures \subseteq {"transient", "terminal", "lost", "changed"}
  /\ Resumes \in Nat
  /\ Worths \subseteq {"sound", "vague", "aliased"}
  /\ Enough \subseteq SUBSET (1..Opponents)
  /\ Fragile \subseteq 1..Opponents

Items   == 1..Opponents
Rosters == 0..Opponents
Stages  == {"screening", "deepDive"}

\* TRANSIENT_TESSERA_CODES, and GLOBAL_STAGE_FAILURE_CODES, which overlap.
Retryable(kind) == kind \in {"transient", "lost"}
Global(kind)    == kind \in {"lost", "changed"}

VARIABLES
  disk,      \* the manifest on disk, or None
  mem,       \* the manifest the invocation works on
  pc,        \* where the invocation is
  forced,    \* --force-retry
  resumed,   \* the invocation resumes an earlier one
  frozen,    \* the representatives it must keep, if any
  stage, at, \* the stage it is in, the roster or opponent it is at
  got,       \* what the complete reports of this pass of the stage are worth
  sound,     \* the stages that passed the integrity check
  again,     \* it has tried the cell before in this turn
  last,      \* what its last attempt came to
  data,      \* what the complete report it returned is worth
  artifacts, \* the prepared archives in place
  file,      \* the report file of each cell
  report,    \* the final report: whether it calls its evidence verified, and
             \* the analysis complete
  turns,     \* invocations that resumed
  sent,      \* times each roster was given to New Recruit
  ran        \* times each cell was simulated

control == <<pc, forced, resumed, frozen, stage, at, got, sound, again, last, data>>
outside == <<artifacts, file, report, turns, sent, ran>>
vars    == <<disk, mem, control, outside>>

NoFile    == [by |-> 0, worth |-> "none"]
Looks     == Worths \cup {"none", "partial", "altered"}
Files     == [by : 0..Limit, worth : Looks]

NoReports == [i \in Items |-> "none"]
NoReport  == [verified |-> FALSE, complete |-> FALSE]

NewEntry == [error |-> None, count |-> 0, sha |-> NoFile]
Kinds    == {"transient", "terminal", "lost", "changed"}
Entries  == [error : Kinds \cup {None}, count : 0..Limit, sha : Files]

NewManifest == [started |-> {}, prepared |-> {},
                entry |-> [s \in Stages |-> [i \in Items |-> NewEntry]],
                chosen |-> {}, final |-> FALSE]
Manifests == [started : SUBSET Rosters, prepared : SUBSET Rosters,
              entry : [Stages -> [Items -> Entries]],
              chosen : SUBSET Items, final : BOOLEAN]

ASSUME NoneAssumption == None \notin Manifests /\ None \notin Kinds

TypeOK ==
  /\ disk \in Manifests \cup {None} /\ mem \in Manifests
  /\ pc \in {"idle", "prepare", "deliver", "keep", "cell", "run", "judged", "settle", "assess",
             "choose", "open", "publish", "close"}
  /\ {forced, resumed, again} \subseteq BOOLEAN
  /\ frozen \in SUBSET Items
  /\ stage \in Stages /\ at \in 0..Opponents + 1
  /\ got \in [Items -> Looks] /\ sound \in SUBSET Stages
  /\ last \in Kinds \cup {None} /\ data \in Worths \cup {"none"}
  /\ artifacts \in SUBSET Rosters
  /\ file \in [Stages -> [Items -> Files]]
  /\ report \in [verified : BOOLEAN, complete : BOOLEAN]
  /\ turns \in 0..Resumes
  /\ sent \in [Rosters -> Nat] /\ ran \in [Stages -> [Items -> Nat]]

Init ==
  /\ disk = None /\ mem = NewManifest
  /\ pc = "idle" /\ forced = FALSE /\ resumed = FALSE /\ frozen = {}
  /\ stage = "screening" /\ at = 0 /\ got = NoReports /\ sound = {} /\ again = FALSE
  /\ last = None /\ data = "none"
  /\ artifacts = {} /\ report = NoReport /\ turns = 0
  /\ file = [s \in Stages |-> [i \in Items |-> NoFile]]
  /\ sent = [r \in Rosters |-> 0]
  /\ ran = [s \in Stages |-> [i \in Items |-> 0]]

-----------------------------------------------------------------------------
(* The manifest *)

\* stageEntryIsReusable
Reusable(e) == e.sha # NoFile /\ e.error = None

\* manifestHasRetryableWork
HasRetryableWork(m) ==
  \/ \E i \in Items : ~Reusable(m.entry["screening"][i])
  \/ \E i \in m.chosen : ~Reusable(m.entry["deepDive"][i])

Over(m) == m.final /\ ~HasRetryableWork(m)

\* recordStageIntegrityIssues: a good entry is marked, to be tried again.
Marked(e) == IF Reusable(e) THEN [e EXCEPT !.error = "transient"] ELSE e

\* A report that claims no verified evidence is taken for one of an older
\* version: everything it rests on is to be made again.
Reread(m) ==
  IF Over(m) THEN [m EXCEPT !.entry = [s \in Stages |-> [i \in Items |-> Marked(@[s][i])]]]
  ELSE m

\* Mutant: the manifest is written with the outcome of an attempt only.
SavesLater(m) == mem' = m /\ UNCHANGED disk

\* writeManifest.  If it fails the invocation ends, as if it had died before.
Saves(m) == mem' = m /\ disk' = m

Here == mem.entry[stage][at]
Put(e) == [mem EXCEPT !.entry[stage][at] = e]

-----------------------------------------------------------------------------
(* An invocation *)

Goes(to) == pc' = to

\* What the invocation held in memory is gone.
Ends ==
  /\ Goes("idle") /\ mem' = NewManifest
  /\ forced' = FALSE /\ resumed' = FALSE /\ frozen' = {}
  /\ stage' = "screening" /\ at' = 0 /\ got' = NoReports /\ sound' = {} /\ again' = FALSE
  /\ last' = None /\ data' = "none"

Begin ==
  /\ pc = "idle" /\ disk = None
  /\ Saves(NewManifest) /\ Goes("prepare")
  /\ UNCHANGED <<forced, resumed, frozen, stage, at, got, sound, again, last, data, outside>>

\* A run that is over and whose report is verified is answered from the file.
Resume(force) ==
  /\ pc = "idle" /\ disk # None
  /\ ~(Over(disk) /\ report.verified)
  /\ Saves(Reread(disk)) /\ Goes("prepare")
  /\ forced' = force /\ resumed' = TRUE
  /\ frozen' = IF Cardinality(disk.chosen) = Wanted THEN disk.chosen ELSE {}
  /\ turns < Resumes /\ turns' = turns + 1
  /\ UNCHANGED <<stage, at, got, sound, again, last, data, artifacts, file, report, sent, ran>>

Die ==
  /\ pc # "idle" /\ Ends
  /\ UNCHANGED <<disk, outside>>

-----------------------------------------------------------------------------
(* Preparation *)

Within == UNCHANGED <<forced, resumed, frozen, stage, got, sound, again, last, data>>

\* A roster with a receipt is not delivered again; its archive is verified.
Prepared ==
  /\ pc = "prepare" /\ at \in mem.prepared
  /\ IF at \in artifacts
       THEN at' = at + 1 /\ UNCHANGED <<mem, pc>> /\ Within
       ELSE Ends
  /\ UNCHANGED <<disk, outside>>

\* Mutant: only the receipt tells that a roster was delivered.
StartedUnseen == FALSE

\* A delivery was started that left no receipt.
Started == at \in mem.started

\* TESSERA_STRESS_DELIVERY_OUTCOME_UNKNOWN
Unknown ==
  /\ pc = "prepare" /\ at \in Rosters \ mem.prepared /\ Started
  /\ Ends
  /\ UNCHANGED <<disk, outside>>

\* The marker is on disk before the delivery begins.
Mark ==
  /\ pc = "prepare" /\ at \in Rosters \ mem.prepared /\ ~Started
  /\ Saves([mem EXCEPT !.started = @ \cup {at}])
  /\ Goes("deliver")
  /\ UNCHANGED at /\ Within
  /\ UNCHANGED outside

\* prepareRosterForTessera.  When it fails, the list may or may not exist.
Deliver ==
  /\ pc = "deliver"
  /\ sent' = [sent EXCEPT ![at] = @ + 1]
  /\ \/ Goes("keep") /\ artifacts' = artifacts \cup {at} /\ UNCHANGED <<mem, at>> /\ Within
     \/ Ends /\ UNCHANGED artifacts
  /\ UNCHANGED <<disk, file, report, turns, ran>>

Keep ==
  /\ pc = "keep"
  /\ Saves([mem EXCEPT !.prepared = @ \cup {at}, !.started = @ \ {at}])
  /\ Goes("prepare") /\ at' = at + 1
  /\ Within
  /\ UNCHANGED outside

-----------------------------------------------------------------------------
(* runStage *)

\* What stage s is made of.
ItemsOf(s, m) == IF s = "screening" THEN Items ELSE m.chosen

\* Stage s goes on behind `from`: to its next opponent, or to its assessment.
After(s, m, from) ==
  LET rest == {i \in ItemsOf(s, m) : i > from}
  IN  /\ \/ rest = {} /\ at' = 0 /\ Goes("assess")
         \/ \E i \in rest : (\A j \in rest : i <= j) /\ at' = i /\ Goes("cell")
      /\ again' = FALSE

\* A global failure ends the pass.
Onward(error) ==
  IF error # None /\ Global(error)
    THEN at' = 0 /\ Goes("assess") /\ again' = FALSE
    ELSE After(stage, mem, at)

MyLimit == IF resumed THEN Limit ELSE FirstLimit

\* All rosters are prepared, and what they came to is written.
Screen ==
  /\ pc = "prepare" /\ at > Opponents
  /\ Saves(mem) /\ After(stage, mem, 0)
  /\ UNCHANGED <<forced, resumed, frozen, stage, got, sound, last, data, outside>>

Present == file[stage][at] # NoFile

Reuse ==
  /\ pc = "cell" /\ Reusable(Here) /\ file[stage][at] = Here.sha
  /\ got' = [got EXCEPT ![at] = file[stage][at].worth]
  /\ UNCHANGED <<disk, mem, forced, resumed, frozen, stage, sound, last, data, outside>>
  /\ After(stage, mem, at)

\* TESSERA_STORED_REPORT_INVALID
Reject ==
  /\ pc = "cell" /\ Reusable(Here) /\ Present /\ file[stage][at] # Here.sha
  /\ mem' = Put([Here EXCEPT !.sha = NoFile, !.error = "terminal"])
  /\ UNCHANGED <<disk, control, outside>>

\* It failed for good, or as often as it may.
GivenUp(e) == (e.error # None /\ ~Retryable(e.error) /\ ~forced) \/ e.count >= MyLimit

Open == pc = "cell" /\ ~(Reusable(Here) /\ Present)

Skip ==
  /\ Open /\ GivenUp(Here)
  /\ UNCHANGED <<disk, mem, forced, resumed, frozen, stage, got, sound, last, data, outside>>
  /\ Onward(Here.error)

\* Mutant: the attempt is counted with its outcome.
AttemptUncounted ==
  /\ Open /\ ~GivenUp(Here)
  /\ SavesLater(Put([Here EXCEPT !.count = @ + 1]))
  /\ Goes("run")
  /\ UNCHANGED <<forced, resumed, frozen, stage, at, got, sound, again, last, data, outside>>

Attempt ==
  /\ Open /\ ~GivenUp(Here)
  /\ Saves(Put([Here EXCEPT !.count = @ + 1]))
  /\ Goes("run")
  /\ UNCHANGED <<forced, resumed, frozen, stage, at, got, sound, again, last, data, outside>>

\* analyzeRosterMatchup refuses to replace a report unless it is told to.
MayReplace == resumed \/ Overwrite \/ again \/ ~Present

Refused ==
  /\ pc = "run" /\ ~MayReplace
  /\ last' = "terminal" /\ data' = "none" /\ Goes("judged")
  /\ UNCHANGED <<disk, mem, forced, resumed, frozen, stage, at, got, sound, again, outside>>

\* The file of the cell is written in place.
Leaves(worth) == file' = [file EXCEPT ![stage][at] = [by |-> Here.count, worth |-> worth]]

\* A simulation, and the report it leaves.  A complete report is in memory even
\* if it cannot be written, or is not what the manifest asks for.
Simulate ==
  /\ pc = "run" /\ MayReplace
  /\ ran' = [ran EXCEPT ![stage][at] = @ + 1]
  /\ \/ last' = None /\ data' \in Worths /\ Leaves(data')
     \/ last' = "terminal" /\ data' \in Worths
        /\ (Leaves(data') \/ Leaves("partial") \/ UNCHANGED file)
     \/ last' \in Failures /\ data' = "none" /\ (Leaves("partial") \/ UNCHANGED file)
  /\ Goes("judged")
  /\ UNCHANGED <<disk, mem, forced, resumed, frozen, stage, at, got, sound, again>>
  /\ UNCHANGED <<artifacts, report, turns, sent>>

\* The attempt is recorded, and followed by another if that may help.
Judge ==
  /\ pc = "judged"
  /\ Saves(Put([Here EXCEPT !.error = last]))
  /\ IF last # None /\ Retryable(last) /\ Here.count < MyLimit
       THEN Goes("cell") /\ again' = TRUE
       ELSE Goes("settle") /\ UNCHANGED again
  /\ UNCHANGED <<forced, resumed, frozen, stage, at, got, sound, last, data, outside>>

\* Mutant: a report counts as written because it is complete.
SettleComplete ==
  /\ pc = "settle"
  /\ got' = IF data = "none" THEN got ELSE [got EXCEPT ![at] = data]
  /\ LET done == data # "none" IN
       /\ Saves(Put([Here EXCEPT !.sha = IF done THEN file[stage][at] ELSE NoFile,
                                 !.error = IF done THEN None ELSE last]))
       /\ Onward(IF done THEN None ELSE last)
  /\ last' = None /\ data' = "none"
  /\ UNCHANGED <<forced, resumed, frozen, stage, sound, outside>>

\* What a failed attempt leaves on disk is never looked at again, but its
\* report, if it has a complete one, counts in this pass.  Its error is that
\* of the simulation, which may be none of those that are worth a retry.
Settle ==
  /\ pc = "settle"
  /\ got' = IF data = "none" THEN got ELSE [got EXCEPT ![at] = data]
  /\ \E error \in IF last = None THEN {None} ELSE {last, "terminal"} :
       /\ Saves(Put([Here EXCEPT !.sha = IF last = None THEN file[stage][at] ELSE NoFile,
                                 !.error = error]))
       /\ Onward(error)
  /\ last' = None /\ data' = "none"
  /\ UNCHANGED <<forced, resumed, frozen, stage, sound, outside>>

-----------------------------------------------------------------------------
(* runIntegrityCheckedStage *)

\* assessScreeningIntegrity: no complete report, or matrices of another cell.
Affected == {i \in ItemsOf(stage, mem) : got[i] \in {"none", "aliased"}}

Assessed ==
  [mem EXCEPT !.entry[stage] = [i \in Items |-> IF i \in Affected THEN Marked(@[i]) ELSE @[i]]]

\* Mutant: the budget is left to the next pass.
CanRetryAlways(e) == e.error # None /\ Retryable(e.error)

\* canRetryIntegrityFailure
CanRetry(e) == e.error # None /\ Retryable(e.error) /\ e.count < MyLimit

Assess ==
  /\ pc = "assess"
  /\ Saves(Assessed)
  /\ IF \E i \in Affected : CanRetry(Assessed.entry[stage][i])
       THEN After(stage, mem, 0) /\ got' = NoReports /\ UNCHANGED sound
       ELSE /\ sound' = IF Affected = {} THEN sound \cup {stage} ELSE sound
            /\ Goes(IF stage = "screening" THEN "choose" ELSE "open")
            /\ UNCHANGED <<at, again, got>>
  /\ UNCHANGED <<forced, resumed, frozen, stage, last, data, outside>>

-----------------------------------------------------------------------------
(* Representatives, and the report *)

\* The analysis of opponent i in stage s is complete, as the manifest says.
Complete(s, i) == mem.entry[s][i].sha # NoFile

\* screeningStable: all are complete, and enough of them confident.
Stable ==
  /\ "screening" \in sound
  /\ \A i \in Items : Complete("screening", i)
  /\ {i \in Items : got[i] = "sound"} \in Enough

Representatives == IF frozen # {} THEN {frozen} ELSE {c \in SUBSET Items : Cardinality(c) = Wanted}

\* The deep dives into other representatives are forgotten.
Chosen(c) ==
  IF mem.chosen \in {{}, c} THEN [mem EXCEPT !.chosen = c]
  ELSE [mem EXCEPT !.chosen = c,
                   !.entry["deepDive"] =
                     [i \in Items |-> [@[i] EXCEPT !.sha = NoFile, !.error = None]]]

Choose ==
  /\ pc = "choose"
  /\ got' = NoReports
  /\ \/ /\ Stable /\ stage' = "deepDive"
        /\ \E c \in Representatives : Saves(Chosen(c)) /\ After("deepDive", Chosen(c), 0)
     \/ /\ ~Stable /\ Saves(Chosen({}))
        /\ Goes("open") /\ UNCHANGED <<stage, at, again>>
  /\ UNCHANGED <<forced, resumed, frozen, sound, last, data, outside>>

OpenReport ==
  /\ pc = "open"
  /\ Saves([mem EXCEPT !.final = FALSE]) /\ Goes("publish")
  /\ UNCHANGED <<forced, resumed, frozen, stage, at, got, sound, again, last, data, outside>>

\* executionStatus: the evidence was verified in this invocation, and every
\* analysis it rests on is complete.
Outcome ==
  [verified |-> sound = Stages,
   complete |-> /\ sound = Stages
                /\ \A i \in Items : Complete("screening", i)
                /\ \A i \in mem.chosen : Complete("deepDive", i)]

Publish ==
  /\ pc = "publish"
  /\ report' = Outcome
  /\ Goes("close")
  /\ UNCHANGED <<disk, mem, forced, resumed, frozen, stage, at, got, sound, again, last, data>>
  /\ UNCHANGED <<artifacts, file, turns, sent, ran>>

Close ==
  /\ pc = "close"
  /\ disk' = [mem EXCEPT !.final = TRUE]
  /\ Ends
  /\ UNCHANGED outside

-----------------------------------------------------------------------------
\* A file is lost or altered while nobody works.
Damage ==
  /\ pc = "idle"
  /\ \/ \E r \in artifacts \cap Fragile : artifacts' = artifacts \ {r} /\ UNCHANGED file
     \/ \E s \in Stages, i \in Fragile :
          /\ file[s][i] # NoFile
          /\ \/ file' = [file EXCEPT ![s][i] = NoFile]
             \/ file' = [file EXCEPT ![s][i].worth = "altered"]
          /\ UNCHANGED artifacts
  /\ UNCHANGED <<disk, mem, control, report, turns, sent, ran>>

Preparation == Prepared \/ Unknown \/ Mark \/ Deliver \/ Keep
Stage == Screen \/ Reuse \/ Reject \/ Skip \/ Attempt \/ Refused \/ Simulate \/ Judge \/ Settle \/ Assess
Ending == Choose \/ OpenReport \/ Publish \/ Close

Works == Preparation \/ Stage \/ Ending

Next == Begin \/ (\E force \in BOOLEAN : Resume(force)) \/ Works \/ Die \/ Damage

Spec == Init /\ [][Next]_vars

\* An invocation goes on: its deliveries and simulations have time limits.
FairSpec == Spec /\ WF_vars(Works)

-----------------------------------------------------------------------------
(* Properties *)

\* Over any number of invocations each roster is given to New Recruit once.
DeliveredOnce == \A r \in Rosters : sent[r] <= 1

\* A cell is simulated no more often than its lifetime budget allows, however
\* many invocations die in the middle of an attempt.
BudgetHolds == \A s \in Stages, i \in Items : ran[s][i] <= Limit

\* The evidence of a cell that counts.
Backed(m, s, i) ==
  /\ Reusable(m.entry[s][i]) /\ file[s][i] = m.entry[s][i].sha
  /\ file[s][i].worth \in {"sound", "vague"}

\* A run ends with a report that calls the analysis complete only if all of its
\* evidence is on disk.
ReportIsBacked ==
  [][pc = "close" /\ disk' # disk /\ report.complete =>
       /\ \A i \in Items : Backed(disk', "screening", i)
       /\ Cardinality(disk'.chosen) = Wanted
       /\ \A i \in disk'.chosen : Backed(disk', "deepDive", i)]_vars

\* A pass that a global failure ends every time before it comes to a cell
\* that may be tried again.
Blocked ==
  \E i, j \in Items :
    /\ i < j
    /\ GivenUp(mem.entry[stage][i]) /\ mem.entry[stage][i].error # None
    /\ Global(mem.entry[stage][i].error)
    /\ CanRetry(mem.entry[stage][j])

\* An invocation ends, unless it is blocked.
EndsUnlessBlocked == (pc # "idle") ~> (pc = "idle" \/ Blocked)

=============================================================================
