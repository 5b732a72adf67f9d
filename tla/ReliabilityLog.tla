---------------------------- MODULE ReliabilityLog ----------------------------
(***************************************************************************)
(* The event store of local/reliability/store.ts.  Several processes, one  *)
(* lock directory for all workflows, and three files that must agree: the  *)
(* event files of a workflow (a hash chain), its head and the registry of  *)
(* all workflows.                                                          *)
(*                                                                         *)
(* A step is what a process does to one of these.  A process may die       *)
(* between two steps; a call it makes later is that of a new process.  The *)
(* lock is taken for abandoned by its age alone, whether its holder lives  *)
(* or not, and is removed at the end by whoever ends, whose it may be: a   *)
(* process at work may be robbed of it, and what the store promises then   *)
(* ends.  An event is written in place, the other files by a rename.       *)
(* Hashes are abstracted: an event names the event before it by its key.   *)
(***************************************************************************)
EXTENDS Naturals, FiniteSets

CONSTANTS
  Procs,
  Requests,      \* [kind |-> "append" | "reconcile" | "rebuild", on, key, body]
  Workflows, Keys, Bodies,
  Harm,          \* {"crash", "cut", "head", "registry"}: what may happen
  None, Unreadable

ASSUME LogAssumption ==
  /\ Requests \subseteq [kind : {"append", "reconcile", "rebuild"}, on : Workflows, key : Keys, body : Bodies]
  /\ Harm \subseteq {"crash", "cut", "head", "registry"}
  /\ None \notin Procs \cup Keys /\ "orphan" \notin Procs \cup {None}

VARIABLES
  events,    \* the event files of each workflow that can be read
  torn,      \* and the names of those that were left cut short
  head,      \* its head.json
  registry,  \* the registry's entries, or Unreadable
  lock,      \* who made the lock directory, None, or Orphan
  old,       \* the lock directory is older than staleLockMs
  robbed,    \* the directory of a process that was at work has been moved away
  pc, req,   \* of each process: where it is and what it was asked
  event,     \* the event it appends, or the last one it found
  fresh,     \* it appends that event
  read,      \* the registry it has read or collected
  todo,      \* the workflows its rebuild has not looked at
  acked      \* the events a caller was told of

files == <<events, torn, head, registry>>
locks == <<lock, old, robbed>>
local == <<req, event, fresh, read, todo>>
vars == <<files, locks, pc, local, acked>>

Orphan == "orphan"

\* What head.json and the registry say of a workflow.
NoEntry == [count |-> 0, last |-> None]
Summaries == [count : Nat, last : Keys \cup {None}]

ASSUME UnreadableAssumption == Unreadable \notin [Workflows -> Summaries]

Upto(e) == [count |-> e.seq, last |-> e.key]

FileNames == [seq : Nat, key : Keys]
Events == [seq : Nat, key : Keys, body : Bodies, prev : Keys \cup {None}]
NoEvent == [seq |-> 0, key |-> None]

Inside == {"scan", "write", "head", "registry", "entry", "rebuild", "seal",
           "reconcile", "fixhead", "fixregistry", "verify", "answer", "release"}

TypeOK ==
  /\ events \in [Workflows -> SUBSET Events]
  /\ torn \in [Workflows -> SUBSET FileNames]
  /\ head \in [Workflows -> Summaries]
  /\ registry \in [Workflows -> Summaries] \cup {Unreadable}
  /\ lock \in Procs \cup {None, Orphan}
  /\ old \in BOOLEAN /\ robbed \in BOOLEAN
  /\ pc \in [Procs -> {"idle", "lock", "judged"} \cup Inside]
  /\ req \in [Procs -> Requests \cup {None}]
  /\ event \in [Procs -> Events \cup {NoEvent}]
  /\ fresh \in [Procs -> BOOLEAN]
  /\ read \in [Procs -> [Workflows -> Summaries]]
  /\ todo \in [Procs -> SUBSET Workflows]
  /\ acked \subseteq Workflows \X Keys

Nothing == [w \in Workflows |-> NoEntry]

Init ==
  /\ events = [w \in Workflows |-> {}] /\ torn = [w \in Workflows |-> {}]
  /\ head = Nothing /\ registry = Nothing
  /\ lock = None /\ old = FALSE /\ robbed = FALSE
  /\ pc = [p \in Procs |-> "idle"]
  /\ req = [p \in Procs |-> None]
  /\ event = [p \in Procs |-> NoEvent] /\ fresh = [p \in Procs |-> FALSE]
  /\ read = [p \in Procs |-> Nothing] /\ todo = [p \in Procs |-> {}]
  /\ acked = {}

-----------------------------------------------------------------------------
(* scanEvents and expectedHead *)

\* The last of the events, in the order of their file names.
Last(es) == IF es = {} THEN NoEvent ELSE CHOOSE e \in es : \A f \in es : f.seq <= e.seq

\* Sequence numbers without gap or fork, each event bound to the one before.
Sound(es) ==
  /\ {e.seq : e \in es} = 1..Cardinality(es)
  /\ \A e, f \in es : f.seq + 1 = e.seq => e.prev = f.key
  /\ \A e \in es : e.seq = 1 => e.prev = None

\* No issue with the event files, one that was cut short being one.
Readable(w) == torn[w] = {} /\ Sound(events[w])

Expected(w) == Upto(Last(events[w]))

\* Mutant: the number of the next event is taken from the head.
NextByHead(w, r) ==
  [seq |-> head[w].count + 1, key |-> r.key, body |-> r.body, prev |-> head[w].last]

\* The event an append adds to what it has scanned.
NextEvent(w, r) ==
  [seq |-> Last(events[w]).seq + 1, key |-> r.key, body |-> r.body, prev |-> Last(events[w]).key]

\* Mutant: an event is known by its key and what is said of it.
RecordedSame(w, r) == {e \in events[w] : e.key = r.key /\ e.body = r.body}

\* The event that used the idempotency key of a request.
Recorded(w, r) == {e \in events[w] : e.key = r.key}

-----------------------------------------------------------------------------
(* withLock *)

At(p, stage) == pc[p] = stage
Goes(p, stage) == pc' = [pc EXCEPT ![p] = stage]

On(p) == req[p].on

\* A process forgets what it had read.
Fresh(p, r) ==
  /\ req' = [req EXCEPT ![p] = r]
  /\ event' = [event EXCEPT ![p] = NoEvent]
  /\ fresh' = [fresh EXCEPT ![p] = FALSE]
  /\ read' = [read EXCEPT ![p] = Nothing]
  /\ todo' = [todo EXCEPT ![p] = {}]

Call(p, r) ==
  /\ At(p, "idle")
  /\ Goes(p, "lock") /\ Fresh(p, r)
  /\ UNCHANGED <<files, locks, acked>>

First(r) == CASE r.kind = "append" -> "scan" [] r.kind = "reconcile" -> "reconcile" [] OTHER -> "rebuild"

Acquire(p) ==
  /\ At(p, "lock") /\ lock = None
  /\ lock' = p
  /\ Goes(p, First(req[p]))
  /\ todo' = [todo EXCEPT ![p] = IF req[p].kind = "rebuild" THEN Workflows ELSE {}]
  /\ UNCHANGED <<files, old, robbed, req, event, fresh, read, acked>>

\* Thirty seconds pass, since the holder died or is merely slow.
Ages ==
  /\ lock # None /\ ~old
  /\ old' = TRUE
  /\ UNCHANGED <<files, lock, robbed, pc, local, acked>>

\* The directory is found old ...
Judge(p) ==
  /\ At(p, "lock") /\ lock # None /\ old
  /\ Goes(p, "judged")
  /\ UNCHANGED <<files, locks, local, acked>>

\* ... and what is there by now is moved away and removed.
Claim(p) ==
  /\ At(p, "judged")
  /\ lock' = None /\ old' = FALSE
  /\ robbed' = (robbed \/ lock \in Procs)
  /\ Goes(p, "lock")
  /\ UNCHANGED <<files, local, acked>>

\* RELIABILITY_STORE_BUSY
GivesUp(p) ==
  /\ At(p, "lock") /\ lock # None /\ ~old
  /\ Goes(p, "idle") /\ Fresh(p, None)
  /\ UNCHANGED <<files, locks, acked>>

\* The finally clause: the lock directory goes, whoever made it.
Release(p) ==
  /\ At(p, "release")
  /\ lock' = None /\ old' = FALSE
  /\ Goes(p, "idle") /\ Fresh(p, None)
  /\ UNCHANGED <<files, robbed, acked>>

-----------------------------------------------------------------------------
(* append *)

\* The chain is invalid, or the key was used for something else.
Refuse(p) ==
  /\ At(p, "scan")
  /\ \/ ~Readable(On(p))
     \/ \E e \in Recorded(On(p), req[p]) : e.body # req[p].body
  /\ Goes(p, "release")
  /\ UNCHANGED <<files, locks, local, acked>>

\* Mutant: an event that exists is answered as it is.
FindAndAnswer(p) ==
  /\ At(p, "scan") /\ Readable(On(p))
  /\ \E e \in Recorded(On(p), req[p]) : e.body = req[p].body
  /\ Goes(p, "answer")
  /\ UNCHANGED <<files, locks, local, acked>>

\* The event exists: the head and the registry are looked after.
Find(p) ==
  /\ At(p, "scan") /\ Readable(On(p))
  /\ \E e \in Recorded(On(p), req[p]) : e.body = req[p].body
  /\ Goes(p, "reconcile")
  /\ UNCHANGED <<files, locks, local, acked>>

Draft(p) ==
  /\ At(p, "scan") /\ Readable(On(p)) /\ Recorded(On(p), req[p]) = {}
  /\ event' = [event EXCEPT ![p] = NextEvent(On(p), req[p])]
  /\ fresh' = [fresh EXCEPT ![p] = TRUE]
  /\ Goes(p, "write")
  /\ UNCHANGED <<files, locks, req, read, todo, acked>>

\* The file is named by its number and its key, and is never overwritten.
SameFile(p) == {e \in events[On(p)] \cup torn[On(p)] : e.seq = event[p].seq /\ e.key = event[p].key}

WriteEvent(p) ==
  /\ At(p, "write")
  /\ \/ /\ SameFile(p) = {}
        /\ events' = [events EXCEPT ![On(p)] = @ \cup {event[p]}]
        /\ Goes(p, "head")
     \/ /\ SameFile(p) # {}
        /\ Goes(p, "release")
        /\ UNCHANGED events
  /\ UNCHANGED <<torn, head, registry, locks, local, acked>>

\* It is written in place: a failing write, or the death of the process right
\* after, leaves its beginning under its name.
CutShort(p) ==
  /\ "cut" \in Harm /\ At(p, "write") /\ SameFile(p) = {}
  /\ torn' = [torn EXCEPT ![On(p)] = @ \cup {[seq |-> event[p].seq, key |-> event[p].key]}]
  /\ Goes(p, "release")
  /\ UNCHANGED <<events, head, registry, locks, local, acked>>

WriteHead(p) ==
  /\ At(p, "head")
  /\ head' = [head EXCEPT ![On(p)] = Upto(event[p])]
  /\ Goes(p, "registry")
  /\ UNCHANGED <<events, torn, registry, locks, local, acked>>

\* Mutant: a registry that cannot be read counts as empty.
ReadOrEmpty(p, next) ==
  /\ read' = [read EXCEPT ![p] = IF registry = Unreadable THEN Nothing ELSE registry]
  /\ Goes(p, next)
  /\ UNCHANGED todo

\* The registry as it is, or rebuilt from the events of all workflows.
ReadRegistry(p, next) ==
  \/ /\ registry # Unreadable
     /\ read' = [read EXCEPT ![p] = registry]
     /\ Goes(p, next)
     /\ UNCHANGED todo
  \/ /\ registry = Unreadable
     /\ read' = [read EXCEPT ![p] = Nothing]
     /\ todo' = [todo EXCEPT ![p] = Workflows]
     /\ Goes(p, "rebuild")

OpenRegistry(p) ==
  /\ At(p, "registry")
  /\ ReadRegistry(p, "entry")
  /\ UNCHANGED <<files, locks, req, event, fresh, acked>>

WriteEntry(p) ==
  /\ At(p, "entry")
  /\ registry' = [read[p] EXCEPT ![On(p)] = Upto(event[p])]
  /\ Goes(p, IF fresh[p] THEN "answer" ELSE "verify")
  /\ read' = [read EXCEPT ![p] = Nothing]
  /\ UNCHANGED <<events, torn, head, locks, req, event, fresh, todo, acked>>

\* The caller is told, by an append that made the event or that found it.
Answer(p) ==
  /\ At(p, "answer")
  /\ acked' = acked \cup {<<On(p), req[p].key>>}
  /\ Goes(p, "release")
  /\ UNCHANGED <<files, locks, local>>

-----------------------------------------------------------------------------
(* rebuildRegistryUnlocked *)

RebuildOne(p, w) ==
  /\ At(p, "rebuild") /\ w \in todo[p]
  /\ todo' = [todo EXCEPT ![p] = @ \ {w}]
  /\ \/ /\ events[w] = {} /\ torn[w] = {}
        /\ UNCHANGED <<pc, head, read>>
     \/ /\ ~Readable(w)
        /\ Goes(p, "release")
        /\ UNCHANGED <<head, read>>
     \/ /\ events[w] # {} /\ Readable(w)
        /\ head' = [head EXCEPT ![w] = Expected(w)]
        /\ read' = [read EXCEPT ![p][w] = Expected(w)]
        /\ UNCHANGED pc
  /\ UNCHANGED <<events, torn, registry, locks, req, event, fresh, acked>>

Seal(p) ==
  /\ At(p, "rebuild") /\ todo[p] = {}
  /\ registry' = read[p]
  /\ Goes(p, CASE req[p].kind = "rebuild" -> "release" [] fresh[p] -> "entry" [] OTHER -> "verify")
  /\ UNCHANGED <<events, torn, head, locks, local, acked>>

-----------------------------------------------------------------------------
(* reconcileUnlocked *)

Reconcile(p) ==
  /\ At(p, "reconcile")
  /\ \/ /\ Readable(On(p)) /\ events[On(p)] # {}
        /\ event' = [event EXCEPT ![p] = Last(events[On(p)])]
        /\ Goes(p, "fixhead")
     \/ /\ ~Readable(On(p)) \/ events[On(p)] = {}
        /\ Goes(p, "release")
        /\ UNCHANGED event
  /\ UNCHANGED <<files, locks, req, fresh, read, todo, acked>>

FixHead(p) ==
  /\ At(p, "fixhead")
  /\ head' = [head EXCEPT ![On(p)] = Upto(event[p])]
  /\ Goes(p, "fixregistry")
  /\ UNCHANGED <<events, torn, registry, locks, local, acked>>

\* An entry that is as expected is left alone.
FixRegistry(p) ==
  /\ At(p, "fixregistry")
  /\ IF registry # Unreadable /\ registry[On(p)] = Upto(event[p])
     THEN Goes(p, "verify") /\ UNCHANGED <<read, todo>>
     ELSE ReadRegistry(p, "entry")
  /\ UNCHANGED <<files, locks, req, event, fresh, acked>>

\* verification once more: what an append answers depends on it.
Verified(w) ==
  /\ Readable(w) /\ head[w] = Expected(w)
  /\ registry # Unreadable /\ registry[w] = Expected(w)

Verify(p) ==
  /\ At(p, "verify")
  /\ Goes(p, IF req[p].kind = "append" /\ Verified(On(p)) THEN "answer" ELSE "release")
  /\ UNCHANGED <<files, locks, local, acked>>

-----------------------------------------------------------------------------
(* Faults *)

\* A process dies and leaves the lock, if it was its own.
Crash(p) ==
  /\ "crash" \in Harm /\ pc[p] \notin {"idle", "lock"}
  /\ lock' = IF lock = p THEN Orphan ELSE lock
  /\ Goes(p, "idle") /\ Fresh(p, None)
  /\ UNCHANGED <<files, old, robbed, acked>>

\* A file that can be made again is lost or damaged while nobody works.
Damage ==
  /\ lock = None
  /\ \/ "head" \in Harm /\ \E w \in Workflows : head[w] # NoEntry /\ head' = [head EXCEPT ![w] = NoEntry]
        /\ UNCHANGED registry
     \/ "registry" \in Harm /\ registry # Unreadable /\ registry' = Unreadable
        /\ UNCHANGED head
  /\ UNCHANGED <<events, torn, locks, pc, local, acked>>

-----------------------------------------------------------------------------
Step(p) ==
  \/ \E r \in Requests : Call(p, r)
  \/ Acquire(p) \/ Judge(p) \/ Claim(p) \/ GivesUp(p) \/ Release(p)
  \/ Refuse(p) \/ Find(p) \/ Draft(p) \/ WriteEvent(p) \/ CutShort(p) \/ WriteHead(p)
  \/ OpenRegistry(p) \/ WriteEntry(p) \/ Answer(p)
  \/ Reconcile(p) \/ FixHead(p) \/ FixRegistry(p) \/ Verify(p)
  \/ \E w \in Workflows : RebuildOne(p, w)
  \/ Seal(p) \/ Crash(p)

Next == Ages \/ Damage \/ \E p \in Procs : Step(p)

Spec == Init /\ [][Next]_vars

-----------------------------------------------------------------------------
(* Properties *)

\* Until a process at work is robbed of the lock, whatever died or failed between
\* the event, its head and the registry: the events of a workflow are one chain,
\* and a file that was cut short is one, and the next after the last of them
\* (local/reliability/store.ts, scanEvents, writeImmutableJson and append).
ChainIsSound ==
  robbed \/ \A w \in Workflows :
    /\ Sound(events[w])
    /\ \A f, g \in torn[w] : f = g /\ f.seq = Cardinality(events[w]) + 1

\* What a caller was told is in the log and, as long as the registry can be read,
\* in the registry, in spite of the appends of others, which write the whole
\* registry, and of its being rebuilt.
AckedIsKept ==
  robbed \/ \A w \in Workflows, k \in Keys : <<w, k>> \in acked =>
    \E e \in events[w] :
      /\ e.key = k
      /\ registry # Unreadable => registry[w].count >= e.seq

\* A caller is told only when the event, the head and the registry agree, also
\* when the event was left by a process that died before it wrote the other two.
AnswersAgree ==
  [][\A p \in Procs : pc[p] = "answer" /\ pc'[p] = "release" => robbed \/ Verified(On(p))]_vars

\* The keys of a workflow in the order of their events.
Log == [w \in Workflows |-> [i \in 1..Cardinality(events[w]) |->
          LET numbered == {e \in events[w] : e.seq = i}
          IN IF numbered = {} THEN None ELSE (CHOOSE e \in numbered : TRUE).key]]

Journal == INSTANCE ReliabilityJournal WITH log <- Log

\* The store is a journal until a process at work is robbed of the lock: it grows
\* at its end, each key once, for a request that is repeated, by the same process
\* or by another after a crash, too.
ImplementsJournal == Journal!Init /\ [][Journal!Next \/ robbed]_<<Log, acked>>
=============================================================================
