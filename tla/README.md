# TLA+ models of RosterPilot

RosterPilot plans tabletop rosters and, when asked to, delivers them to two
external web applications (New Recruit and Tessera) through a local browser
agent. It runs as short-lived CLI processes and as an MCP server, several of
which may run at once on one machine. They share nothing but files under one
support directory, and guard them with directories used as locks. This
directory models what goes wrong in such a program: processes that interleave
between two file-system calls, that die between two writes, and an external
mutation (a list created in a user's New Recruit account) that cannot be undone
and must not be repeated.

## Inventory

| Component | Source | State it keeps | Operations | What makes it correct |
|---|---|---|---|---|
| Directory lease | `local/new-recruit/cache.ts` 888-1018 (copies in `data-bundles/store.ts`, `local-source-updater.ts`) | a lock directory and its `owner.json` | acquire, recover abandoned, release | one holder at a time, as far as a lease without locks can have it; a dead owner never blocks for ever |
| Mutation receipts | `local/new-recruit/cache.ts` 1440-2372, `new-recruit/companion.ts`, `tessera/companion.ts` | one sealed receipt per roster (its delivery attempts) and the list inventory | begin, observe, finalize, finalizeDelivery, reconcile, record reuse | a roster is uploaded at most once; recorded outcomes are true and final; the lease is always given back |
| Operation service | `lib/rosterpilot/service.ts` | one V1 document per operation, an action lock per operation | plan/analyze/import, act (upload, stress, refresh, sync) | stale revisions fail closed; an upload is confirmed and never repeated automatically; revisions only grow |
| Local agent | `local/agent/{server,client,framing,lifecycle}.ts` | spool of request/response files, browser queues and sessions | socket and spool requests, delivery, sessions, cleanup | no life of the agent runs a request twice; the queue is bounded; one delivery per session |
| Tessera task pool | `local/tessera/local-engine-task-pool.ts` | workers, attempts and results of a batch | start, dispatch, retry after exit, abort, close | results complete and in order; a task whose result was judged is not tried again; nothing survives the batch |
| Data bundle store | `local/data-bundles/store.ts` | installed bundles, active pointer, hold, quarantine, references | install, activate, roll back, quarantine, reference, retain | the active bundle is installed and not quarantined; a lease keeps its bundle |
| Data bundle provider | `local/data-bundles/provider.ts`, `configure.ts`, `lib/rosterpilot/{data-bundle,runtime-data-bundle,active-data-context}.ts` | the active snapshot and its leases | refresh, replace, roll back, pin | an operation sees one snapshot from start to end |
| Local source updater | `local/data-bundles/local-source-updater.ts` | update jobs, schedule state, worker lock | due check, enqueue, run, recover | one worker; a job is finalized once; failures back off |
| Remote bundle provider | `lib/rosterpilot/remote-data-bundle-provider.ts` | cursor, cached manifest | refresh, rollback | cursor only moves forward |
| Reliability log | `local/reliability/{store,runtime}.ts` | append-only, hash-chained events, head, registry | append, verify, reconcile, rebuild | the chain has no gap or fork; an idempotency key is recorded once |
| Tessera stress | `local/tessera/stress.ts` | run manifest, checkpoints, stage results | execute, resume, stage, retry | a resumed run repeats no completed cell |
| Tessera companion | `local/tessera/companion.ts`, `browser.ts` | run lease, job files | prepare, run, resume | see Mutation receipts |
| Local engine caches | `local/tessera/local-engine-result-cache.ts`, `semantic-snapshot-cache.ts` | content-addressed results, key locks | load, store, publish | a published entry is complete and immutable |
| Service compatibility | `local/data-bundles/service-compatibility.ts` | observed catalogue identities | record, lookup | an index of verified evidence only |
| Roster engine | `lib/rosterpilot/{engine,copy-limits,roster-repair,...}.ts` | none (pure) | build, validate, repair, analyse | legality of rosters |
| Simulation and reports | `local/tessera/{local-engine*,provider-parity*,report*}.ts`, `reports/` | none or read-only | simulate, render | numeric agreement, layout |
| CLI, MCP, scripts, native broker | `cli/`, `mcp/`, `scripts/`, `native/` | none of their own | argument handling, data builds, keychain | thin entry points |

### How they interact

CLI and MCP call `RosterPilotService`; each call takes an immutable data-bundle
lease. An upload goes service -> New Recruit companion -> mutation receipt
(under the per-roster directory lease) -> local agent (socket, or spool files
when the socket may not be opened) -> browser worker -> remote site; the answer
travels back, is sealed into the receipt, then recorded in the reliability log
and the inventory, and only then is the lease released. Tessera preparation
reuses a delivered artifact or starts a delivery of its own through the same
receipts. Most state files are replaced by temporary file and rename, so a crash
leaves an old or a new document, never half of one; what a crash can leave is a
*sequence* of documents broken off in the middle. Two kinds of file are written
in place and may be left cut short: the events of the reliability log, and the
reports that a simulation exports.

### Hard behaviours

Read-modify-write of files by several processes; locks that are reclaimed from
dead owners; a crash between two durable writes; a lost or late answer of the
browser; cleanup code (`finally`) that gives a lock back although the work it
guarded is not over; a retry of something already done. `PROJECT.json`
("hazards") lists them at their lines.


## The modules

Every module takes its parameters as CONSTANTS with a named assumption, has one
action per operation or step of the code (one per file-system call or `await`
where another process can come between), and a `Die` action where the process
can end. A comment `Mutant:` marks an operator that is a plausible bug of the
action below it; `PROJECT.json` ("mutants") names for every checked property
the mutant that breaks it. `MC<Module>.tla` instantiates a module for TLC.

### DirectoryLease, AbstractLease

`acquireDirectoryLease`, `recoverAbandonedLease` and the release closure of
`local/new-recruit/cache.ts`. `lease` is what the path holds (nothing, a
directory without `owner.json`, or an owner), `aged` whether its mtime is past
the five-second grace period, `pc` and `seen` where each caller is and the owner
it has read. `Mkdir`, `WriteOwner`, `ReadOwner`, `Judge...`, `Rename` and
`Remove` are the file-system calls; each acts on whatever the path names at that
moment, and a caller may pause before any of them, past the grace period too.

Two history variables say what has gone wrong where the code cannot know it:
`stale` are the recoverers whose directory has become another one since they read
it, `robbed` the callers inside their section whose directory such a recoverer
(or the release of a caller robbed before) has taken. `MutualExclusion` says that
this is the only way in which two callers get inside. `AbstractLease` is what
callers rely on: a holder, taken by one at a time, dropped by the holder, and
reclaimed from the dead. `ImplementsLease` is the refinement, `lease \in Procs`
being the abstract holder; the one step that is not one of `AbstractLease` is
`Robbery`, by which a holder leaves the abstract section against its will.

### MutationReceipts

The receipt of one roster and everything that reads, writes or is decided by
it. A *run* is `deliverRosterToNewRecruit` (with its own receipt, or under the
receipt of `prepareRosterForTessera`), a *reconciler* calls
`reconcileMutationReceipt`, a *reuser* calls `recordNewRecruitReuseReceipt`.
`receipt` maps each caller to the outcome of the attempt it appended,
`inventory` is the set of attempts in the list inventory, `remote` what the
browser worker did with each run's request, `copy` the receipt each caller has
read and `verdict` what it is about to record. `BeginRefused/Accepted/Write`,
`Dispatch`, `Answered/AnswerLost`, `Observe...`, `Finalize...`,
`RecordReliability`, `IndexAndRelease` follow one delivery; `FinalizeAgain` is
the second finalization `prepareRosterForTessera` makes after a first one threw
and had already given the lease back. Reading the file and replacing it are two
actions; the module uses `AbstractLease` for the lease between them.

`SettledInspection` says that a user's lists are inspected, and an uncertain
attempt reconciled, only when the request can no longer run. The code cannot
know that: a client that gives up leaves its request in the agent's spool, where
it may run after the lists were found empty and a second delivery was begun.

### OperationService

One operation document of `RosterPilotService`. `run` creates the result and
its offers; `act` claims the operation with `mkdir` (`Claim`, `Busy`), compares
the revision, the offer and the confirmation (`Acceptable`), records the start
(`UploadStart`, `StressStart`), executes (`Dispatch`), and records what came of
it (`UploadVerified`, `UploadFailed`, `StressAnswered`, `Caught`). `seen` is
the document the call holds in memory, which is not what is on disk once a
write has failed. `outcome` is what really happened outside. A document is its
revision, state, offered actions and mutation. `NoUpload` and
`NoStress` calls are served by a service built without that external runner,
which refuses and, through `#updateFailure`, leaves the offers as they are.

### AgentSpool

The file transport between clients and the browser agent, the browser queues,
and the life of the agent. `request` and `response` are the spool files; they
outlive the agent. `listed`, `job`, `answer` and `queue` are the agent's memory
and do not. The scan lists the directory (`Scan`) and looks at the names one by
one later (`Skip`, `Take`); the set of files being processed is `job # "none"`.
`Enqueue`, `Start` and `Finish` are `enqueueBrowserOperation`; `Respond` and
`Clear` are the two file operations at the end of `processSpoolFile`, in that
order. `Close` notes what is in the browser queues (`awaited`) and `Exit` waits
for just that; `Die` waits for nothing. `Restart` is launchd, or the installer.
`ran` counts the executions of a request in each life of the agent separately;
`WritesFail` are the requests whose response may fail to be written. `FirstLife`
is the time before the first restart: some promises are made for that only,
since a life that ends between the response and the removal of the request
leaves a request to the next one that has been answered.

### TaskPool

`runLocalEngineTaskPool`: one loop per slot (`Run(s)`), children as processes of
their own (`ChildReady`, `ChildAnswers`, `ChildExits`), and the batch (`Abort`,
`Settle`, `Close`). `slot[s]` is `slot.child`, `using[s]` the child whose events
the loop awaits, which differ after a child is lost. `FailBatch` keeps the first
failure and kills the children in all slots. An answer and the continuation
that looks at it are two steps (`ChildAnswers`, `Hear`), since the batch may
fail between them. `verdict[t]` is whether a child has answered for a task and
whether the answer was judged, well (`CheckSucceeds`) or badly (`CheckFails`).
`Breaks` is an error of the file system while an attempt is prepared or an answer
is read: the pool takes it for a lost child and tries the task again, although
its child is alive and may have answered.

### DataBundleStore

`local/data-bundles/store.ts`. `bundles` are the bundle directories, `active`,
`place` (the position of each bundle in `previousBundleIds`), `quarantined` and
`hold` the state file, `ref` the reference files: one per process for its
snapshot and one per pin. Every mutation runs under the update lease, which is
here `holder` (a dead holder does not keep it: `AbstractLease`, with take and
drop folded into the mutation). A mutation that replaces one file (`Activate`,
`Rollback`, `SetHold`, `ClearHold`, `Deactivate`, `Quarantine`,
`ClearQuarantine`, `AcquireSnapshot`, `SetPin`, `RemoveReference`) is one action.
`Install...` and `Retention...` touch several, and are one action for each:
`phase` says what the holder is in the middle of, and `Fail` and `Die` may fall
between any two. `History`, `Without` and `Ahead` are the list operations the
code repeats in four places; the limit `Newest` is the constant `KeptPrevious`.
`Damage`, `Garble` and `Lapse` are what happens to a bundle that no longer
verifies, a reference file that cannot be read, and one past its time to live.
A bundle may always be young enough to stay (`RetentionKeep`) or old enough to
be pruned.

### SnapshotProvider

The provider of one process (`lib/rosterpilot/remote-data-bundle-provider.ts`
with the archive of `local/data-bundles/provider.ts`, and
`activateRuntimeDataBundle`). The calls of the process run concurrently and one
action is what a call does between two `await`s. `engine` is the data set the
whole process shares, `stored` and `storedHold` the store's state as other
processes see it, `active`, `pending`, `hold` and `promise` the private fields
of the class; `call[c]` is where a call is, whose activation it awaits and the lease it
holds. `Attempt`, `Check`, `ReadStatus`, `Publish`, `Switch`, `Unhold`, `Restore`
and `Retain` follow `activatePendingIfSafe` and `activateArchive`; `Ends` is the
end of an activation, which wakes all that wait for it. `same` are the
activations that began with the object `#pending` still is. A release whose
store reference cannot be removed leaves the lease of the process counted for
good (`stranded`). `Update` is another process's activation. `Faults` names the
steps that may fail. Between a call's look at the promise (`Attempt`) and the
step that sets it (`Check`) every other call may move, and a second activation
may begin; `beside` are the activations this has happened to. `OneSnapshot` says
that nothing else replaces the data under a lease, `LeaseKeepsItsData` is the
promise itself, which does not hold.

### SourceUpdater, UpdateQueue

The coordinator of `local/data-bundles/local-source-updater.ts`: `enqueue`,
`recoverInterrupted`, `runNext`, `runJob`, `finalizeState`, and the two locks
they take. `active` is `activeJobId`, `status` the job files, `worker` the owner
of the worker lock, `stateLock` the directory lease around the state file,
`live` the job whose candidate is the active snapshot. A step is what a process
does to one file. Judging a lock abandoned and removing it are two steps, in the
recovery (`RecoverJudges`, `RecoverRemoves`) and in the acquisition (`Judge`,
`Steal`). `Refused`, `TimesOut` and `FinalizeTimesOut` are the waits that end
with an error: the state lock is waited for two seconds, and the lock of a dead
owner is reclaimed after a minute only, so that the wait may end on a dead owner
as on a live one. `overtaken` is history: a worker has acquired the worker lock
between somebody's judging it abandoned and removing it, or a job has ended
between a recovery's look at it and its being queued again. What follows such a
step (two workers, an ended job that is queued again) is part of the model;
`OneWorker` and the refinement promise nothing from then on, `JobsEnd` still
does. Whether a job is due, its back-off and the pipeline's stages are
left open: every run of it may succeed, find nothing or fail; after a consumer
that fails the previous snapshot may be restored, or that fails too. `UpdateQueue`
is the abstract queue: one active job, run again until it has ended and never
after that. `ImplementsQueue` is the refinement.

### ReliabilityLog, ReliabilityJournal

`local/reliability/store.ts`. `events[w]` are the event files of a workflow, a
set, since two processes may write the same number; `head` and `registry` the
two files derived from them. `withLock` is `Acquire`, `Judge`, `Claim`,
`GivesUp`, `Release`: the lock has no owner on disk, so that `lock` is what the
modeller knows and the code does not. `append` is `Refuse`, `Find`, `Draft`,
`WriteEvent`, `WriteHead`, `OpenRegistry`, `WriteEntry`, `Answer`;
`reconcileUnlocked` and `rebuildRegistryUnlocked` are shared by the exported
operations and by an append that finds its event, or cannot read the registry.
`WriteEvent` writes the event file in place: `CutShort` is its failing, or the
process dying in it, which leaves a file in `torn` that no later scan accepts.
`Ages` says that thirty seconds pass, whoever holds the lock; `Judge` and `Claim`
are the look at an old lock and its removal, between which others may move.
`robbed` becomes true when the lock of a process at work is moved away; the
properties hold up to that moment. `Harm` is what may happen: a crash between any
two steps, an event cut short, a lost head, an unreadable registry.
`ReliabilityJournal` is the abstract log: an append-only sequence of
keys per workflow and the answers given; `ImplementsJournal` is the refinement.

### StressRun

A stress run on the website (`local/tessera/stress.ts`). `disk` is the manifest
file and `mem` the copy an invocation works on; `Saves` is `writeManifest`.
`Begin` and `Resume` start an invocation, `Prepared`, `Unknown`, `Mark`,
`Deliver` and `Keep` are the delivery of the rosters with its marker
(`started`) and its receipt, `Reuse`, `Reject`, `Skip`, `Attempt`, `Refused`,
`Simulate`, `Judge` and `Settle` are `runStage`, `Assess` is the integrity pass
of `runIntegrityCheckedStage`, `Choose` selects the representatives, and
`OpenReport`, `Publish`, `Close` write the report. A report file is known by the
attempt that wrote it and by what its matrices are worth: sound, complete but
without confident evidence (`vague`), or those of another cell (`aliased`). The
analysis itself is the choice of that worth. A simulation may also come back with
a complete report and an error, when its files could not be written: the attempt
has failed, and the report counts in the pass (`data`, `got`) all the same, with
or without a file behind it (`Leaves`). `Enough` are the sets of opponents whose
confident evidence is enough for a decision. `Outcome` is what the final report
says: whether the integrity checks passed, and whether the analysis is complete,
for which every cell has to have the checksum of its file. `Die` is a crash, or
any error that leaves the invocation; `Damage` loses or alters files between
invocations. `sent` and `ran` count what was done outside, which no file records.

## Runs

| Run | Question | Bounds |
|---|---|---|
| `lease_any` | Whatever the timing: are two callers inside only when one was robbed, and does no abandoned directory block for ever? | 3 callers |
| `receipts_deployed` | As the program calls it (nothing reconciles), with all failures: is what a delivery reports in the receipt, and are recorded outcomes kept? | 3 runs, 1 reuse |
| `receipts_reconciled` | Beside a reconciliation, without failing writes: one list, nothing forgotten, inventory and receipt agree, the lease comes back | 2 runs, 1 reconciliation |
| `operation_calls` | At most one execution, no doubtful offer, truthful document, no lock kept by a call that is over | 3 calls, revisions to 3 |
| `spool` | Over stops, deaths and a restart: no life runs a request twice, the queue keeps its limit, nothing runs after its answer, every client is answered, the spool empties | 2 requests of one provider, limit 1, 2 lives |
| `pool_batch` | Complete or failed, no task tried again after its verdict, no orphan, nothing new after a failure, an answer in the end | 2 slots, 2 tasks, 2 attempts |
| `bundles_store` | Is the state file valid, do its pointers resolve, are wanted bundles kept and the hold obeyed, whatever dies or fails half-way? | 3 bundles, 2 processes, 1 reader, 1 pin, history of 2 |
| `provider` | Is the data set replaced under a lease by nothing but activations that ran side by side, and does every call end? | 2 calls, one of them rolls back, 1 update, all failures |
| `provider_lease` | Is the data set never replaced under a lease? It is (a finding) | 2 calls, 2 updates, no failure |
| `updater` | One worker and a queue that implements `UpdateQueue` until a recovery is overtaken; no job active for ever in any case | 2 jobs, 2 enqueuers, 2 workers, 2 of 3 processes mortal |
| `reliability` | Until a process at work is robbed of the lock: are chains sound, acknowledged events kept, answers true, and is the store a journal? | 2 processes, 2 workflows, 2 keys, 2 bodies |
| `stress` | One delivery per roster, the budget kept, a complete analysis backed by its files, an end to every invocation that is not blocked | 2 opponents, 1 representative, 2 attempts, 2 invocations |

The proofs also cover properties that no run names, because they hold for every
value of the constants: the refinement of the lease and the owner on disk,
receipts that are true, revisions that only grow, one request per browser, "busy"
that means not run, and the number of children.

Why the bounds are enough to see the interesting cases. A robbed lease needs a
dead owner and two recoverers, hence three callers. A duplicate list by way of a
lost attempt needs the attempt that is dropped, the caller that drops it and
one more that then begins, hence three runs, or two and a reconciler. The
operation's repeated execution needs a refused call, one whose outcome is not
written, and one more. The spool's limit needs one request that waits and one that
is refused, of the same provider (`MaxQueued` is 1; the code's value is larger and
nothing depends on it); that session controls are not counted is in the theorem
(`QueuesStayWithinTheLimit`), not in the run. Two lives are enough to run a
request again. The pool needs two loops, each of which may lose its child, fail,
or be between two awaits when the other fails, and an attempt after the first;
a slot that goes on with its next task is reached when the other loop is still
at its own. `MaxRevision` bounds what a client may expect, not the document: an
operation is written at most a few times per call. `MaxLives` bounds the agent's
lives: its last life does not end, so that liveness is asked of an agent that
stays up in the end.

The store needs an active bundle, one predecessor and one more that is
installed, quarantined or pruned, and a history that is not yet full and one that
is; one process reads and dies while the other retains. Bundle `b1` and pin `k1`
are the ones that may be damaged, so that a sound and a damaged one stand side by
side. The provider needs two calls, so that one activates while the other has a
lease, awaits it, or begins an activation of its own, and one bundle to move to
and back from (`Newest = 1`); the finding needs an update that comes while another
is being activated (`Newest = 2`). The updater needs an
enqueuer that dies, a worker that dies, and a survivor that is both; two jobs
show that one does not start before the other has ended. The log needs two
appends of one key with different bodies, an append to another workflow for the
registry, and both operations that repair; its run stops exploring behind a
robbery (the constraint `UntilRobbed`), where the properties promise nothing. A
stress run needs a good and a bad opponent, a representative that can change, a
retry, and a resume of an invocation that ended or died anywhere; the code's
limits of three attempts in the first invocation and five over all are 2 and 2
here, since only their exhaustion matters; the `lost` failure is the one that is
both retryable and global. What two resumes add is in the theorems, which have no
bound on the invocations.

`CHECK_DEADLOCK FALSE` is given where the system really stops: every delivery
has ended, every caller has died or left, the batch has its answer, the last
life of the agent has nothing to do, every process of the store or of the
updater has died, no invocation may resume. That holds of all components (of
the log, whose callers can always call again, it is not asked because its run
asks only what may never happen), so what must not get stuck is stated as
liveness instead (`AbandonedIsReclaimed`, `LeaseComesBack`,
`EveryRequestIsAnswered`, `SpoolEmpties`, `BatchEnds`, `CallsEnd`, `JobsEnd`,
`EndsUnlessBlocked`).

### Known divergences

What the models show the code to do although its comments, documents or purpose
say otherwise. Where a run and a property are named, TLC shows the case when the
property, or the constant given, takes the place of what the run has.

- *Lease overlap* (`cache.ts` 944): two callers read the same dead owner. One
  renames the directory away, makes its own and enters; the other, still acting
  on what it read, renames that one away too. The same happens to a caller that
  pauses for five seconds between `mkdir` and `owner.json`. Both are steps of the
  model (`Rename` by a `stale` caller); the robbed holder stays inside its section
  beside the next one. `lease_any` with the invariant that `robbed` is empty.
- *Early release* (`cache.ts` 2182): `reconcileMutationReceipt` returns the
  promise of its finalization without awaiting it inside `try`, so `finally`
  gives the lease back first. A delivery begins, and the reconciliation's second
  write (a warning that the reliability log refused) removes its pending
  attempt. `receipts_reconciled` with three runs and a failing reliability log:
  `NoDuplicateList`. So do two reconciliations that overlap: the second writes the
  receipt it read before the first one's outcome let a delivery begin.
- *Unmarked start* (`service.ts` 2085): a refused call leaves a failed document
  that still offers the website test, and a start is recorded only for an
  action-required document, so the test can be executed twice.
  `operation_calls` with `NoStress = {c1}`: `OneExecution`.
- *Request run again* (`agent/server.ts` 1809): a closing agent waits for the
  browser, not for the response to be written and the request to be removed; the
  next agent finds the request and runs it again. `OncePerLife` is therefore about
  each life by itself; in `spool` a request is run once in each of two.
- *Answered, yet run again* (`local-engine-task-pool.ts` 802): an error of the file
  system while a result is verified is not one of the pool's own errors, counts as
  a lost child, and has the task run again, although "process crashes may be
  retried" is meant. `VerdictIsFinal` is therefore about results that were judged,
  not about answers; `Breaks` in `pool_batch`.
- *Stranded lease* (`local/data-bundles/provider.ts` 131): the store's reference
  is given back before the process's own lease, without `finally`. When that
  throws, the lease of the process stays counted, and no update is activated in it
  again (`Release` in `provider`; calls still end).
- *Stale pending bundle* (`remote-data-bundle-provider.ts` 999): a bundle found
  pending while a lease was out is activated when the lease is released, also
  when the store's pointer has moved on, which is thereby moved back. `provider`
  with `UpdatesAreKept`.
- *Two activations* (`remote-data-bundle-provider.ts` 980): the promise is looked
  at, then the hold is read (an `await`), then the promise is set without
  another look. Two activations can run side by side; the first to end lets a
  lease be taken, and the second replaces the data under it, or puts it back when
  it fails. Run `provider_lease`, `LeaseKeepsItsData`; `OneSnapshot` of
  `provider` and its theorem say that nothing else does.
- *Failed, yet live* (`local-source-updater.ts` 2735): a job whose candidate is
  already active is marked failed, "The local update failed; the active snapshot
  was preserved.", when the state lock cannot be had in two seconds to finalize it
  (another process has it, or died with it within the minute), or when the
  previous snapshot cannot be restored after the candidate failed.
  `docs/data-bundles.md` line 23 says the same of failures. `updater` with
  `FailedLeavesSnapshot` as an invariant.
- *Recovery overtaken* (`local-source-updater.ts` 2021, 2440): a worker lock is
  judged abandoned and removed by two steps; a worker that acquires it in between
  loses it, a second one starts, and a job that has ended may be queued and run
  again. `updater` with `OneWorker` or the refinement without `overtaken`.
- *Lock age* (`reliability/store.ts` 717): a lock is reclaimed at 30 seconds of
  age whether or not its holder lives, and is looked at and moved away in two
  steps. Two appends then write the same number, the chain forks and every later
  append to that workflow is refused. `reliability` with `ChainIsSound` without
  `robbed`, and without the constraint.
- *Torn event* (`reliability/store.ts` 198): an event is written to its final name
  in place. A crash in the middle leaves a file that every later scan refuses, so
  that the workflow's log takes no further event and the registry cannot be
  rebuilt any more. It loses nothing that was acknowledged, and the theorems hold
  with it (`CutShort` in `reliability`).
- *Evidence without a file* (`companion.ts` 7875, `stress.ts` 6255): the report of
  an attempt whose files could not be written still says `complete` and counts in
  the integrity pass. A stage can be found verified, and representatives chosen,
  on matrices that are on no disk; the final status is then `inconclusive`, since
  the checksum is missing, and that is what `ReportIsBacked` relies on. The
  integrity part of the final report does say `verified` all the same.
- *Endless integrity pass* (`stress.ts` 6615): the loop that runs the stage again
  while a cell may be retried never reaches that cell when an earlier one has a
  global failure that is given up, which ends each pass. `stress` with
  `(pc # "idle") ~> (pc = "idle")` in place of `EndsUnlessBlocked`, whose
  `Blocked` names the case.
- Read in the same model, and kept in it as the code has them: a final report
  that is inconclusive while every cell is complete is taken, on resume, for a
  report of an older version, and all complete cells are captured again
  (`Reread`); a global failure marks the good evidence of later opponents
  incomplete (`Assess`), so that it is simulated again; without `--overwrite` the
  retry of an integrity failure in the first invocation is refused (`Refused`);
  and a crash between the two writes of a recapture (`Judge`, `Settle`) leaves an
  entry whose checksum is of the old report, which is later rejected for good
  unless the user forces it (`Reject`).

## Fairness

- Lease: a caller that has begun to acquire goes on (straight-line awaits), and
  time passes (`SF` of `Age`: a directory left alone reaches the grace period
  although callers poll it). Nobody need start, release or survive.
- Receipts: a caller that has begun goes on; requests in the agent are run or
  answered because the transport and the browser worker have time limits.
- Operation: none; its run asks only what may never happen.
- Spool: the agent scans every 100 ms and cleans every ten minutes; a browser
  worker is killed after five minutes; clients poll. launchd (KeepAlive) starts
  an agent that died, the installer (bootout, bootstrap) one it stopped. No
  fairness for a client's deadline, a failing write, a death or a stop.
- Pool: loops run, children start and tasks return. The pool itself has no time
  limit, so the last is an assumption about the worker function.
- Store and log: none; their runs ask only what may never happen.
- Provider: strong fairness of each call's own steps. What a call awaits is file
  I/O, which ends; strong, because a step that waits for another call's turn is
  enabled again and again. No fairness for a new call or an update.
- Updater: whoever has begun goes on; every command of the pipeline has a time
  limit. A worker that does not die is woken again and again (`SF` of `Wake`:
  it finds itself idle between its turns), and the lock of a dead owner reaches
  the age of a minute although workers look at it before (`SF` of `Judge`, and of
  `Recovery` for the state lock, whose two seconds' wait ends on it until then, or
  on a live owner, which keeps it for some writes only). The enqueuers and the
  deaths have none.
- Stress: an invocation goes on; deliveries and simulations have time limits. No
  fairness for a resume, a death or damage.

## What is proved

Every invariant, every safety action property and every refinement that a passing
run checks is a theorem. `<Module>_proofs.tla` holds the theorems of a module; two
of these modules also prove about a neighbour, which they take as an instance:
`DataBundleStore_proofs` about the lease that holds the store (`Lease`), and
`SourceUpdater_proofs` about the provider (`Provider`). An instance does not
bring the assumptions about its constants, so these theorems name them as
hypotheses (`Lease!LeaseAssumption`, `Provider!ProviderAssumption`).

The theorems hold for every set of processes, runs, calls, requests, tasks or
bundles and every portfolio. Each rests on an inductive invariant (`IInv`, in parts that are named) that TLC
checked on the instance of the module's run before it was proved, and on the
module's own assumptions about its constants. A condition that stands in front
of a theorem is one its section names; a theorem without one holds whatever is
slow, fails or dies. Where the code gives no guarantee after some event that it
cannot notice, the model has the event and a variable that remembers it (`robbed`
in the lease and the log, `overtaken` in the updater, `beside` in the provider):
the theorems say that nothing else breaks the promise, not that the event does
not happen.

- **DirectoryLease** (in `DataBundleStore_proofs`): for any callers and any
  timing, types, mutual exclusion but for the robbed, the owner on disk, and the
  refinement of `AbstractLease` up to `Robbery`. `MutualExclusion` alone is not
  inductive: `IInv` adds that a holder who was not robbed is the owner on disk
  (`OwnerOnDisk`), that an owner on disk holds or is dead (`DiskInv`), and that
  what a recoverer has read is still what the path holds unless it is `stale`
  (`FreshInv`), and that a recoverer goes on to the removal of an owner's directory
  only when that owner is dead (`JudgedInv`). So the removal by a recoverer that is not stale robs nobody.
- **MutationReceipts**: types; and under `Calm` at most one list per roster,
  nothing forgotten, truthful receipts, outcomes that are kept, and an inventory
  and answers that agree with the receipt. `Calm` is the condition of both runs:
  no reconciliation, which is how the program is deployed (no code calls one, only
  its exported API), and then anything may fail; or one call that reconciles,
  inspects what has settled, and has no write or log event refused. With two such
  calls, a refused log event or an early inspection TLC finds two lists
  ("Known divergences"). `WritersInv` ties the three places where the truth is
  held: the copy of a caller inside the lease equals the file, whoever has
  dispatched has an unresolved attempt in the file, and no other attempt can then
  begin. `ReconcileInv` is about a caller that reconciles and has given its lease
  back before it writes: the attempt it resolves is still unresolved, so that it
  blocks everyone, and its copy differs from the file in that attempt only; this
  needs that every run at work has its lease, which is where refused writes
  would hurt. `IndexInv` adds what a caller carries to the inventory: the entries
  it is about to index are in the receipt, its own outcome among them, because
  nothing rewrites an outcome.
- **OperationService**: whatever fails or dies, a document that is true of the
  upload, a lock that only a dead call keeps, execution of what the client has
  seen only, and growing revisions. `IInv` says who holds the
  lock (`LockInv`), which offers go with which mutation (`OfferInv`), and that
  a call which was accepted has the document of the file in memory and, once its
  upload is under way, the only execution (`CallInv`). With `NoStress = {}`
  further at most one execution and no doubtful offer: `StressInv` says that the
  offer is taken back before `Dispatch`. Without the condition an operation can
  be executed twice ("Known divergences").
- **AgentSpool**: for any requests, providers, stops, deaths and restarts: types;
  each life of the agent executes a request at most once (`OnceInEachLife`, from
  `LifeInv`); one request per browser, and queues within the limit, session
  controls not counted. Until the first restart further a client told "busy" was
  not served, and nothing runs for a client that has its answer (`RequestInv`).
  The step that needs the invariants is `Take`: a request file that is not being
  processed has not run in this life, which holds because `Clear` removes the
  file before it forgets the job. After a restart a file may be of a request that
  an earlier life has answered; the two last properties are false then.
- **TaskPool**: for any number of slots, tasks and attempts a batch that
  succeeds is complete, no task is tried again once its result was judged, no
  more children run than there are slots, none is started after a failure, and
  none is left when the caller has its answer. `IInv` has four parts: `TaskInv`
  (a task handed out is with one loop, has a result, or failed the batch, and was
  not judged while it may be tried again), `FreshInv` (an attempt that is still to
  start its child has none), `ChildInv` (`LoopInv`: the child a loop listens to is
  in its slot or was told to end; `PairInv`: no two loops share one; `LiveInv`: a
  live child is in a slot or was told to end) and `PoolInv`. A task may be run
  again after its child has *answered*, when the answer cannot be read.
- **DataBundleStore**: for any bundles, processes, readers and pins, whatever
  crashes, fails or is damaged: a valid state file, pointers that resolve, no
  wanted bundle pruned, and holds obeyed. The three invariants rest on
  each other and on `TaskInv`: only a live process that holds the store's lease
  is in the middle of something, and a retention's list of what to keep contains
  `Guarded` (the pointers, the history and what the references want) at every
  step until its last removal, because a new reference takes the same lease. The history is a function from bundles
  to places, so that the lemmas about lists (`Listing`, without and with a new
  head, cut at the limit) are first-order.
- **ReliabilityLog**: for any crash, event cut short, lost head or unreadable
  registry, any age of the lock and any pause, until a process at work is robbed
  of the lock: every log is a chain, what was acknowledged is kept, answers agree
  with chain, head and registry, and the store implements `ReliabilityJournal`.
  `IInv` is `LockInv` (one lock, and who is inside it), `ChainInv` (numbers
  without gap, keys without repetition, each event naming its predecessor),
  `TornInv` (a file cut short is one, and stands where the next event would),
  `AckedInv` (a readable registry covers what was answered), `CallInv` and
  `WorkInv` (what the holder has read and written at each stage). The refinement
  maps the set of event files to a sequence by their numbers (`KeyOf`); the lemmas
  `Longer` and `LastOfChain` say that one event more is one more at its end.
  `UnreadableAssumption` says that the unreadable registry is not a registry.
- **SourceUpdater**: types; and until a recovery is overtaken `OneWorker` and the
  refinement of `UpdateQueue`, whoever dies or times out on whatever lock.
  `OneWorker` is the part `Alone` of `IInv`: who works is alive
  and owns the worker lock, and who is about to remove that lock may, because
  no worker has acquired it since the look. The queue needs the rest: the
  state lock is kept from one write of the state to the next (`Locked`), a
  selected job is nobody else's until the state names it (`Selected`), a
  worker's job has not ended before the worker says so (`Running`), a job that
  somebody runs is the active one or has ended (`Known`), and a job that is about
  to be queued again is running and without a worker that has got further than
  its pipeline and not yet let go of it (`Requeued`). The last is where an
  interrupted job meets a worker that has just been woken: both may write
  "running" or "queued", but only while the job has not ended.
- **SnapshotProvider** (in `SourceUpdater_proofs`): for any calls and bundles,
  whatever fails and however the calls interleave: types, and `OneSnapshot`.
  `OneActivation` says that an activation that runs beside no other is the one
  the promise names and the only one, and that no lease is out while it lasts; a
  new lease has to wait for it (`Leased` is what an activation looks at before it
  begins, and every acquisition that finds a promise awaits it). The types need
  `Loaded`: a call that activates knows which bundle, and where the pointer was
  before.
- **StressRun**: types; over any number of invocations, any portfolio and any
  limits, each roster is delivered at most once and each cell is simulated no
  more often than its lifetime limit. Neither is inductive alone: `IInv` adds
  that the copy an invocation works on agrees with the file on deliveries and
  attempts (`CopyInv`), that a roster which was delivered is marked or has a
  receipt on disk (`SentInv`), and that a simulation is counted on disk before it
  begins (`RanInv`). Most steps count and deliver nothing, which
  `QuietStep` shows once for all of them. `ReportIsBacked` has an invariant of
  its own, `EvidenceInv`: a recorded checksum is of a report with a worth
  (`WorthInv`), a pass that counts a cell with a checksum counts what is in its
  file (`GotInv`), and a stage that passed the integrity check is backed where
  checksums are recorded, and left alone until the run is closed (`SoundInv`).
  The rest is `Outcome`: an analysis is called complete only when they all are.
  `NoneAssumption` says that "no manifest" is neither a manifest nor a kind of
  report.

### Only model-checked

- Liveness, all of it: the prover has no ENABLED (`AbandonedIsReclaimed`,
  `LeaseComesBack`, `EveryRequestIsAnswered`, `SpoolEmpties`, `BatchEnds`,
  `CallsEnd`, `JobsEnd`, `EndsUnlessBlocked`).
- That nothing stays stuck after a recovery of the updater was overtaken
  (`JobsEnd`), or a lease robbed (`AbandonedIsReclaimed`). What a condition or a
  history variable of a theorem leaves out is not claimed; where TLC refutes the
  property without it, "Known divergences" tells how.

## What is not modelled

Inside the modelled components:

- Lease: a pid that is reused; permission errors. Its copies in the data-bundle
  store and the source updater are modelled there, as far as they differ.
- Receipts: recovery artifacts kept beside the receipt, the repair of legacy
  receipts, the provisional store, and the branch of
  `recordNewRecruitReuseReceipt` that finds its own event again. With a
  reconciliation *and* failing writes a second, unlocked finalization can
  overwrite what was reconciled; that combination is not claimed to be safe and
  no run asks it.
- Operation: roster and artifact stores, `inspect`, the data synchronization
  action, and an `rmdir` of the action lock that fails (it is ignored by the
  code and leaves the operation claimed, like a death).
- Spool: the socket transport, sessions (a session's deliveries are requests
  like any other here), the detached Tessera workers, a spool directory removed
  under the agent by an uninstall. `Stale` is true as soon as a client is gone,
  earlier than the code's one hour; no client waits that long.
- Pool: sealing and hashing of task files (a result either verifies or not), the
  error event of a child that cannot be killed.
- Store: the signed channel with its cursor, manifests and deltas, the sessions
  of a pinned operation, the contents of a bundle (it verifies or it does not),
  and a snapshot reference that is renewed. That a reader whose reference has
  lapsed goes on with the data it has loaded is not excluded by the code.
- Provider: the signed channel's refresh, snapshots of an explicitly named
  bundle, the pins of durable operations. One process is modelled; the others
  are `Update`.
- Updater: whether an update is due, the back-off, the pipeline's stages and
  their files, the pruning of old jobs, a worker lock without an owner.
- Log: event bodies and hashes (an event names its predecessor by its key), the
  identity registry of `runtime.ts` and its lock, whose directory nobody
  reclaims after a crash (line 180; its callers then go on without the
  association).
- Stress: the strategy that runs every opponent in full at once, restart-from and
  expansion, profile policy, the migration of older
  manifests, the local engine (its pre-computation returns at once for that
  backend, line 5564, so that no pool runs inside a stress run), the contents of
  matrices and the ranking of representatives, and two invocations of one run at
  once, which nothing in the code excludes.

The other components are listed in `PROJECT.json` with the reason. Pure
functions (roster engine, simulation, reports), thin entry points (CLI, MCP,
scripts, native broker) and layout are outside; the rest is in the plan.

## How the modules fit together

`MutationReceipts` instantiates `AbstractLease` and so assumes of the lease
exactly what `DirectoryLease` is shown to implement, except where a holder is
robbed; `DataBundleStore` and the state lock of `SourceUpdater` assume the same. Its
`RemoteRuns` assumes that one dispatched request is executed once; `AgentSpool`
shows that for one life of the agent, and that it fails over a restart.
`OperationService.Dispatch` is one run of `MutationReceipts` (for an upload): a
call that repeats it is stopped by the receipt, not by the operation.
`StressRun.Deliver` is such a run too, and `DeliveredOnce` does not rely on the
receipt: the marker in the manifest stops the second. `SnapshotProvider.Publish`
and `SourceUpdater.Consume` are `DataBundleStore.Activate`, the former's `Update`
what the latter does; `HoldIsObeyed` is why neither moves the pointer of a held
bundle. The receipts' `RecordReliability` is an append of `ReliabilityLog`, which
may fail.

## Plan

Done, in this order: DirectoryLease, MutationReceipts, OperationService,
AgentSpool, TaskPool; then DataBundleStore, SnapshotProvider, SourceUpdater,
ReliabilityLog and StressRun.

The theorems: every invariant, safety action property and refinement of a run is
proved; liveness stays with TLC.

Next: the result cache (key locks and publication), browser sessions and
the socket transport of the agent, the identity registry, and the pure roster
operators (copy limits, repair) against a reference definition over small
rosters.
