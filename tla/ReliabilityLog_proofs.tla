------------------------- MODULE ReliabilityLog_proofs -------------------------
(***************************************************************************)
(* ReliabilityLog for any processes, workflows, keys and requests: the     *)
(* chain of every workflow, what a caller is told, and the journal the     *)
(* store is, until a process at work is robbed of the lock.  Of crashes,   *)
(* failing writes and the loss of a head or of the registry nothing is     *)
(* assumed.                                                                *)
(***************************************************************************)
EXTENDS ReliabilityLog, Sequences, FiniteSetTheorems, TLAPS

LEMMA Names ==
  /\ None \notin Procs /\ None \notin Keys /\ Orphan \notin Procs /\ Orphan # None
  /\ \A r \in Requests : /\ r.kind \in {"append", "reconcile", "rebuild"} /\ r.on \in Workflows
                         /\ r.key \in Keys /\ r.body \in Bodies
BY LogAssumption DEF Orphan

-----------------------------------------------------------------------------
(* Chains *)

\* The log of a workflow is a chain in which no number and no key comes twice.
Chain(es) ==
  /\ IsFiniteSet(es) /\ Sound(es)
  /\ \A e, f \in es : e.seq = f.seq \/ e.key = f.key => e = f

LEMMA EventType ==
  ASSUME NEW e \in Events
  PROVE  e.seq \in Nat /\ e.key \in Keys /\ e.body \in Bodies /\ e.prev \in Keys \cup {None}
BY DEF Events

\* The last event is the one that bears the number of the events.
LEMMA LastOfChain ==
  ASSUME NEW es \in SUBSET Events, Chain(es), es # {}
  PROVE  /\ Last(es) \in es /\ Last(es).seq = Cardinality(es)
         /\ \A e \in es : e.seq <= Last(es).seq
<1> DEFINE n == Cardinality(es)
<1>1. IsFiniteSet(es) /\ {e.seq : e \in es} = 1..n
  BY DEF Chain, Sound
<1>2. n \in Nat
  BY <1>1, FS_CardinalityType
<1>3. n # 0
  BY <1>1, FS_EmptySet
<1> HIDE DEF n
<1>4. \A e \in es : e.seq \in 1..n
  BY <1>1
<1>5. n \in {e.seq : e \in es}
  BY <1>1, <1>2, <1>3
<1>6. PICK top \in es : top.seq = n
  BY <1>5
<1>7. top \in es /\ \A e \in es : e.seq <= top.seq
  BY <1>2, <1>4, <1>6
<1>8. Last(es) = CHOOSE e \in es : \A f \in es : f.seq <= e.seq
  BY DEF Last
<1>9. Last(es) \in es /\ \A e \in es : e.seq <= Last(es).seq
  BY <1>7, <1>8
<1>10. Last(es).seq = n
  BY <1>2, <1>4, <1>6, <1>9
<1> QED BY <1>9, <1>10 DEF n

LEMMA LastOfNone == Last({}) = NoEvent /\ Chain({})
<1>1. Sound({})
  <2>1. Cardinality({}) = 0 /\ 1..0 = {}
    BY FS_EmptySet
  <2> QED BY <2>1 DEF Sound
<1> QED BY <1>1, FS_EmptySet DEF Last, Chain

LEMMA LastType ==
  ASSUME NEW es \in SUBSET Events, Chain(es)
  PROVE  /\ Last(es) \in Events \cup {NoEvent}
         /\ Last(es).seq \in Nat /\ Last(es).key \in Keys \cup {None}
         /\ Upto(Last(es)) \in Summaries /\ Upto(Last(es)).count = Last(es).seq
         /\ Last(es).seq = Cardinality(es)
         /\ \A e \in es : e.seq \in Nat /\ e.seq <= Last(es).seq
<1>1. CASE es = {}
  <2>1. Last(es).seq = 0 /\ Last(es).key = None /\ Last(es) = NoEvent
    BY <1>1, LastOfNone DEF NoEvent
  <2> QED BY <1>1, <2>1, FS_EmptySet DEF Upto, Summaries
<1>2. CASE es # {}
  <2>1. Last(es) \in Events
    BY <1>2, LastOfChain
  <2>2. Last(es).seq \in Nat /\ Last(es).key \in Keys
    BY <2>1, EventType
  <2>3. Upto(Last(es)) \in Summaries /\ Upto(Last(es)).count = Last(es).seq
    BY <2>2 DEF Upto, Summaries
  <2>4. \A e \in es : e.seq \in Nat
    BY EventType
  <2> QED BY <1>2, <2>1, <2>2, <2>3, <2>4, LastOfChain
<1> QED BY <1>1, <1>2

\* A chain that gets one more event at its end is a chain.
LEMMA Longer ==
  ASSUME NEW es \in SUBSET Events, Chain(es), NEW e \in Events,
         e.seq = Last(es).seq + 1, e.prev = Last(es).key,
         \A f \in es : f.key # e.key
  PROVE  /\ Chain(es \cup {e}) /\ Last(es \cup {e}) = e
         /\ Cardinality(es \cup {e}) = Cardinality(es) + 1
<1> DEFINE n == Cardinality(es)
           more == es \cup {e}
<1>1. /\ n \in Nat /\ Last(es).seq = n /\ e.seq = n + 1
      /\ \A f \in es : f.seq \in Nat /\ f.seq <= n
  BY LastType
<1>2. e \notin es
  OBVIOUS
<1>3. IsFiniteSet(es) /\ Sound(es) /\ \A f, g \in es : f.seq = g.seq \/ f.key = g.key => f = g
  BY DEF Chain
<1>4. IsFiniteSet(more) /\ Cardinality(more) = n + 1
  BY <1>2, <1>3, FS_AddElement
<1>5. {f.seq : f \in es} = 1..n
  BY <1>3 DEF Sound
<1> HIDE DEF n
<1>6. {f.seq : f \in more} = 1..(n + 1)
  <2>1. {f.seq : f \in more} = {f.seq : f \in es} \cup {e.seq}
    OBVIOUS
  <2>2. 1..(n + 1) = (1..n) \cup {n + 1}
    BY <1>1
  <2> QED BY <1>1, <1>5, <2>1, <2>2
<1>7. \A f, g \in more : f.seq = g.seq \/ f.key = g.key => f = g
  BY <1>1, <1>3
<1>8. \A f, g \in more : g.seq + 1 = f.seq => f.prev = g.key
  <2> SUFFICES ASSUME NEW f \in more, NEW g \in more, g.seq + 1 = f.seq PROVE f.prev = g.key
    OBVIOUS
  <2>1. g \in es
    BY <1>1
  <2>2. CASE f \in es
    BY <1>3, <2>1, <2>2 DEF Sound
  <2>3. CASE f = e
    <3>1. g.seq = n
      BY <1>1, <2>1, <2>3
    <3>2. Last(es) \in es
      BY <2>1, LastOfChain
    <3>3. g = Last(es)
      BY <1>1, <1>3, <2>1, <3>1, <3>2
    <3> QED BY <2>3, <3>3
  <2> QED BY <2>2, <2>3
<1>9. \A f \in more : f.seq = 1 => f.prev = None
  <2>1. ASSUME e.seq = 1 PROVE e.prev = None
    <3>1. n = 0
      BY <1>1, <2>1
    <3>2. es = {}
      BY <1>3, <3>1, FS_EmptySet DEF n
    <3> QED BY <3>2, LastOfNone DEF NoEvent
  <2> QED BY <1>3, <2>1 DEF Sound
<1>10. Chain(more)
  BY <1>4, <1>6, <1>7, <1>8, <1>9 DEF Chain, Sound
<1>11. Last(more) = e
  <2>1. more \in SUBSET Events /\ more # {}
    OBVIOUS
  <2>2. Last(more) \in more /\ Last(more).seq = n + 1
    BY <1>4, <1>10, <2>1, LastOfChain
  <2> QED BY <1>1, <2>2
<1> QED BY <1>4, <1>10, <1>11 DEF n

-----------------------------------------------------------------------------
(* The inductive invariant *)

\* Who works has the lock.
LockInv == \A p \in Procs : pc[p] \in Inside => lock = p

\* What a process was asked, and what it cannot have yet.
CallInv ==
  /\ \A p \in Procs : pc[p] # "idle" => req[p] \in Requests
  /\ \A p \in Procs : pc[p] \in {"idle", "lock", "judged"} => ~fresh[p]

ChainInv == \A w \in Workflows : Chain(events[w])

\* A file that was cut short is the one after the last of its workflow.
TornInv == \A w \in Workflows : \A f, g \in torn[w] : f = g /\ f.seq = Cardinality(events[w]) + 1

\* What the caller of an event was told, and a registry that knows of it.
Covers(r) ==
  \A w \in Workflows, k \in Keys : <<w, k>> \in acked =>
    \E e \in events[w] : e.key = k /\ r[w].count >= e.seq

AckedInv ==
  /\ \A w \in Workflows, k \in Keys : <<w, k>> \in acked => \E e \in events[w] : e.key = k
  /\ registry # Unreadable => Covers(registry)

\* p has the last event of its workflow in hand.
HasLast(p) ==
  \/ pc[p] \in {"head", "registry", "entry", "fixhead", "fixregistry"}
  \/ pc[p] = "rebuild" /\ req[p].kind # "rebuild"

\* p has written the head of its workflow.
HasHead(p) == HasLast(p) /\ pc[p] \notin {"head", "fixhead"}

\* What p, which has the lock, has found and done so far.
Work(p) ==
  /\ fresh[p] \/ pc[p] \in {"scan", "write", "head", "registry", "answer"} => req[p].kind = "append"
  /\ pc[p] = "write" => event[p] = NextEvent(On(p), req[p]) /\ Recorded(On(p), req[p]) = {}
  /\ pc[p] = "write" \/ HasLast(p) => torn[On(p)] = {}
  /\ HasLast(p) => event[p] = Last(events[On(p)])
  /\ HasHead(p) => head[On(p)] = Upto(event[p])
  /\ pc[p] = "entry" => Covers(read[p])
  /\ pc[p] = "rebuild" =>
       \A w \in Workflows \ todo[p] : events[w] # {} => read[p][w] = Expected(w)
  /\ pc[p] \notin {"scan", "write", "release"} /\ req[p].kind = "append" => Recorded(On(p), req[p]) # {}
  /\ pc[p] = "answer" => Verified(On(p))

WorkInv == \A p \in Procs : pc[p] \in Inside => Work(p)

IInv == TypeOK /\ LockInv /\ CallInv /\ ChainInv /\ TornInv /\ AckedInv /\ WorkInv

\* All of it until a process is robbed.
Safe == robbed \/ IInv

-----------------------------------------------------------------------------
(* Types *)

LEMMA UptoType ==
  ASSUME NEW e \in Events \cup {NoEvent}
  PROVE  Upto(e) \in Summaries
BY DEF Upto, Summaries, Events, NoEvent

LEMMA NothingType == NoEntry \in Summaries /\ Nothing \in [Workflows -> Summaries]
BY DEF NoEntry, Summaries, Nothing

\* What a process that works was asked, and the log it works on.
LEMMA Asked ==
  ASSUME TypeOK, CallInv, ChainInv, NEW p \in Procs, pc[p] # "idle"
  PROVE  /\ req[p] \in Requests /\ On(p) \in Workflows /\ On(p) = req[p].on
         /\ req[p].key \in Keys /\ req[p].body \in Bodies
         /\ req[p].kind \in {"append", "reconcile", "rebuild"}
         /\ events[On(p)] \in SUBSET Events /\ Chain(events[On(p)])
BY Names DEF TypeOK, CallInv, ChainInv, On

LEMMA NextEventType ==
  ASSUME TypeOK, CallInv, ChainInv, NEW p \in Procs, pc[p] # "idle"
  PROVE  /\ NextEvent(On(p), req[p]) \in Events
         /\ NextEvent(On(p), req[p]).seq = Last(events[On(p)]).seq + 1
         /\ NextEvent(On(p), req[p]).prev = Last(events[On(p)]).key
         /\ NextEvent(On(p), req[p]).key = req[p].key
         /\ NextEvent(On(p), req[p]).body = req[p].body
<1>1. Last(events[On(p)]).seq \in Nat /\ Last(events[On(p)]).key \in Keys \cup {None}
  BY Asked, LastType
<1> QED BY <1>1, Asked DEF NextEvent, Events

LEMMA InitType == Init => TypeOK
<1> SUFFICES ASSUME Init PROVE TypeOK
  OBVIOUS
<1>1. /\ events \in [Workflows -> SUBSET Events] /\ head \in [Workflows -> Summaries]
      /\ torn \in [Workflows -> SUBSET FileNames] /\ robbed \in BOOLEAN
  BY NothingType DEF Init
<1>2. registry \in [Workflows -> Summaries] \cup {Unreadable}
  BY NothingType DEF Init
<1>3. read \in [Procs -> [Workflows -> Summaries]] /\ todo \in [Procs -> SUBSET Workflows]
  BY NothingType DEF Init
<1>4. /\ pc \in [Procs -> {"idle", "lock", "judged"} \cup Inside]
      /\ req \in [Procs -> Requests \cup {None}] /\ event \in [Procs -> Events \cup {NoEvent}]
      /\ fresh \in [Procs -> BOOLEAN] /\ acked \subseteq Workflows \X Keys
  BY DEF Init
<1>5. lock \in Procs \cup {None, Orphan} /\ old \in BOOLEAN
  BY DEF Init
<1> QED BY <1>1, <1>2, <1>3, <1>4, <1>5 DEF TypeOK

LEMMA FreshType ==
  ASSUME TypeOK, NEW p \in Procs, NEW r \in Requests \cup {None}, Fresh(p, r)
  PROVE  /\ req' \in [Procs -> Requests \cup {None}] /\ event' \in [Procs -> Events \cup {NoEvent}]
         /\ fresh' \in [Procs -> BOOLEAN] /\ read' \in [Procs -> [Workflows -> Summaries]]
         /\ todo' \in [Procs -> SUBSET Workflows]
BY NothingType DEF TypeOK, Fresh

LEMMA GoesType ==
  ASSUME TypeOK, NEW p, NEW s \in {"idle", "lock", "judged"} \cup Inside, Goes(p, s)
  PROVE  pc' \in [Procs -> {"idle", "lock", "judged"} \cup Inside]
BY DEF TypeOK, Goes

\* The calls, the lock and the faults.
LEMMA LockType ==
  ASSUME TypeOK, CallInv,
         \/ Ages \/ Damage
         \/ \E p \in Procs :
              \/ \E r \in Requests : Call(p, r)
              \/ Acquire(p) \/ Judge(p) \/ Claim(p) \/ GivesUp(p) \/ Release(p) \/ Crash(p)
  PROVE  TypeOK'
<1>1. CASE Ages
  BY <1>1 DEF Ages, TypeOK, files, local
<1>2. CASE Damage
  <2>1. /\ head' \in [Workflows -> Summaries]
        /\ registry' \in [Workflows -> Summaries] \cup {Unreadable}
    BY <1>2, NothingType DEF Damage, TypeOK
  <2> QED BY <1>2, <2>1 DEF Damage, TypeOK, locks, local
<1>3. ASSUME NEW p \in Procs, NEW r \in Requests, Call(p, r) PROVE TypeOK'
  <2>1. pc' \in [Procs -> {"idle", "lock", "judged"} \cup Inside]
    BY <1>3, GoesType DEF Call
  <2> QED BY <1>3, <2>1, FreshType DEF Call, TypeOK, files, locks
<1>4. ASSUME NEW p \in Procs, GivesUp(p) \/ Release(p) \/ Crash(p) PROVE TypeOK'
  <2>1. pc' \in [Procs -> {"idle", "lock", "judged"} \cup Inside] /\ Fresh(p, None)
    BY <1>4, GoesType DEF GivesUp, Release, Crash
  <2>2. /\ lock' \in Procs \cup {None, Orphan} /\ old' \in BOOLEAN
        /\ UNCHANGED <<events, torn, head, registry, robbed, acked>>
    BY <1>4 DEF GivesUp, Release, Crash, TypeOK, files, locks
  <2> QED BY <2>1, <2>2, FreshType DEF TypeOK
<1>5. ASSUME NEW p \in Procs, Judge(p) \/ Claim(p) PROVE TypeOK'
  <2>1. pc' \in [Procs -> {"idle", "lock", "judged"} \cup Inside]
    BY <1>5, GoesType DEF Judge, Claim
  <2> QED BY <1>5, <2>1 DEF Judge, Claim, TypeOK, files, locks, local
<1>6. ASSUME NEW p \in Procs, Acquire(p) PROVE TypeOK'
  <2>1. First(req[p]) \in Inside
    BY DEF First, Inside
  <2>2. pc' \in [Procs -> {"idle", "lock", "judged"} \cup Inside]
    BY <1>6, <2>1, GoesType DEF Acquire
  <2>3. todo' \in [Procs -> SUBSET Workflows]
    BY <1>6 DEF Acquire, TypeOK
  <2> QED BY <1>6, <2>2, <2>3 DEF Acquire, TypeOK, files
<1> QED BY <1>1, <1>2, <1>3, <1>4, <1>5, <1>6

\* What the holder of the lock does.
Works(p) ==
  \/ Refuse(p) \/ Find(p) \/ Draft(p) \/ WriteEvent(p) \/ CutShort(p) \/ WriteHead(p)
  \/ OpenRegistry(p) \/ WriteEntry(p) \/ Answer(p)
  \/ Reconcile(p) \/ FixHead(p) \/ FixRegistry(p) \/ Verify(p)
  \/ \E w \in Workflows : RebuildOne(p, w)
  \/ Seal(p)

LEMMA ReadType ==
  ASSUME TypeOK, NEW p \in Procs, ReadRegistry(p, "entry")
  PROVE  /\ read' \in [Procs -> [Workflows -> Summaries]] /\ todo' \in [Procs -> SUBSET Workflows]
         /\ Goes(p, "entry") \/ Goes(p, "rebuild")
BY NothingType DEF ReadRegistry, TypeOK

\* Such a step keeps the lock and the request, and stays in the call.
LEMMA WorksInside ==
  ASSUME NEW p \in Procs, Works(p)
  PROVE  /\ pc[p] \in Inside /\ UNCHANGED <<locks, req>>
         /\ \E s \in Inside : Goes(p, s) \/ pc' = pc
<1>1. CASE \E w \in Workflows : RebuildOne(p, w)
  BY <1>1 DEF RebuildOne, Inside, At
<1>2. CASE Seal(p)
  BY <1>2 DEF Seal, Inside, At, local
<1>3. CASE OpenRegistry(p) \/ FixRegistry(p)
  <2>1. pc[p] \in Inside /\ UNCHANGED <<locks, req>>
    BY <1>3 DEF OpenRegistry, FixRegistry, At, Inside
  <2>2. \E s \in {"entry", "rebuild", "verify"} : Goes(p, s)
    BY <1>3 DEF OpenRegistry, FixRegistry, ReadRegistry
  <2> QED BY <2>1, <2>2 DEF Inside
<1>4. CASE WriteEntry(p) \/ Verify(p)
  BY <1>4 DEF WriteEntry, Verify, Inside, At, local
<1>5. CASE Refuse(p) \/ Find(p) \/ Draft(p) \/ WriteEvent(p) \/ CutShort(p)
           \/ WriteHead(p) \/ Answer(p) \/ Reconcile(p) \/ FixHead(p)
  BY <1>5 DEF Refuse, Find, Draft, WriteEvent, CutShort, WriteHead, Answer, Reconcile, FixHead, Inside, At, local
<1> QED BY <1>1, <1>2, <1>3, <1>4, <1>5 DEF Works

LEMMA WorksType ==
  ASSUME TypeOK, CallInv, ChainInv, WorkInv, NEW p \in Procs, Works(p)
  PROVE  TypeOK'
<1>1. /\ pc[p] # "idle" /\ UNCHANGED <<lock, old, robbed, req>>
      /\ pc' \in [Procs -> {"idle", "lock", "judged"} \cup Inside]
  BY WorksInside, GoesType DEF TypeOK, Inside, locks
<1>2. /\ On(p) \in Workflows /\ req[p].key \in Keys
      /\ Upto(event[p]) \in Summaries
  BY <1>1, Asked, UptoType DEF TypeOK
<1> DEFINE Files == /\ events' \in [Workflows -> SUBSET Events]
                    /\ torn' \in [Workflows -> SUBSET FileNames] /\ head' \in [Workflows -> Summaries]
                    /\ registry' \in [Workflows -> Summaries] \cup {Unreadable}
           Known == /\ event' \in [Procs -> Events \cup {NoEvent}] /\ fresh' \in [Procs -> BOOLEAN]
                    /\ read' \in [Procs -> [Workflows -> Summaries]] /\ todo' \in [Procs -> SUBSET Workflows]
<1>3. ASSUME Files, Known, acked' = acked PROVE TypeOK'
  BY <1>1, <1>3 DEF TypeOK
<1>4. UNCHANGED files => Files
  BY DEF TypeOK, files
<1>5. UNCHANGED <<event, fresh, read, todo>> => Known
  BY DEF TypeOK
<1>6. CASE Refuse(p) \/ Find(p) \/ Verify(p)
  <2>1. UNCHANGED files /\ UNCHANGED <<event, fresh, read, todo>> /\ acked' = acked
    BY <1>6 DEF Refuse, Find, Verify, local
  <2> QED BY <1>3, <1>4, <1>5, <2>1
<1>7. CASE Draft(p)
  <2>1. /\ NextEvent(On(p), req[p]) \in Events
        /\ event' = [event EXCEPT ![p] = NextEvent(On(p), req[p])] /\ fresh' = [fresh EXCEPT ![p] = TRUE]
        /\ UNCHANGED files /\ UNCHANGED <<read, todo, acked>>
    BY <1>1, <1>7, NextEventType DEF Draft
  <2>2. Known
    BY <2>1 DEF TypeOK
  <2> QED BY <1>3, <1>4, <2>1, <2>2
<1>8. CASE WriteEvent(p)
  <2>1. UNCHANGED <<torn, head, registry, acked>> /\ UNCHANGED <<event, fresh, read, todo>>
    BY <1>8 DEF WriteEvent, local
  <2>2. events' \in [Workflows -> SUBSET Events]
    <3>1. CASE events' = events
      BY <3>1 DEF TypeOK
    <3>2. CASE SameFile(p) = {} /\ events' = [events EXCEPT ![On(p)] = @ \cup {event[p]}]
      <4>1. pc[p] = "write" /\ pc[p] \in Inside
        BY <1>8, WorksInside DEF WriteEvent, At
      <4>2. event[p] = NextEvent(On(p), req[p])
        BY <4>1 DEF WorkInv, Work
      <4>3. event[p] \in Events
        BY <1>1, <4>2, NextEventType
      <4> QED BY <1>2, <3>2, <4>3 DEF TypeOK
    <3> QED BY <1>8, <3>1, <3>2 DEF WriteEvent
  <2>3. Files
    BY <2>1, <2>2 DEF TypeOK
  <2> QED BY <1>3, <1>5, <2>1, <2>3
<1>16. CASE CutShort(p)
  <2>1. /\ pc[p] = "write" /\ pc[p] \in Inside /\ UNCHANGED <<events, head, registry, acked>>
        /\ UNCHANGED <<event, fresh, read, todo>>
        /\ torn' = [torn EXCEPT ![On(p)] = @ \cup {[seq |-> event[p].seq, key |-> event[p].key]}]
    BY <1>16 DEF CutShort, At, Inside, local
  <2>2. event[p] \in Events
    BY <1>1, <2>1, NextEventType DEF WorkInv, Work
  <2>3. [seq |-> event[p].seq, key |-> event[p].key] \in FileNames
    BY <2>2, EventType DEF FileNames
  <2>4. Files
    BY <1>2, <2>1, <2>3 DEF TypeOK
  <2> QED BY <1>3, <1>5, <2>1, <2>4
<1>9. CASE WriteHead(p) \/ FixHead(p)
  <2>1. /\ head' = [head EXCEPT ![On(p)] = Upto(event[p])]
        /\ UNCHANGED <<events, torn, registry, acked>> /\ UNCHANGED <<event, fresh, read, todo>>
    BY <1>9 DEF WriteHead, FixHead, local
  <2>2. Files
    BY <1>2, <2>1 DEF TypeOK
  <2> QED BY <1>3, <1>5, <2>1, <2>2
<1>10. CASE OpenRegistry(p) \/ FixRegistry(p)
  <2>1. /\ UNCHANGED files /\ UNCHANGED <<event, fresh, acked>>
        /\ ReadRegistry(p, "entry") \/ UNCHANGED <<read, todo>>
    BY <1>10 DEF OpenRegistry, FixRegistry
  <2>2. Known
    BY <2>1, ReadType DEF TypeOK
  <2> QED BY <1>3, <1>4, <2>1, <2>2
<1>11. CASE WriteEntry(p)
  <2>1. /\ registry' = [read[p] EXCEPT ![On(p)] = Upto(event[p])]
        /\ read' = [read EXCEPT ![p] = Nothing]
        /\ UNCHANGED <<events, torn, head, event, fresh, todo, acked>>
    BY <1>11 DEF WriteEntry
  <2>2. Files
    BY <1>2, <2>1 DEF TypeOK
  <2>3. Known
    BY <2>1, NothingType DEF TypeOK
  <2> QED BY <1>3, <2>1, <2>2, <2>3
<1>12. CASE Answer(p)
  <2>1. acked' \subseteq Workflows \X Keys
    BY <1>2, <1>12 DEF Answer, TypeOK
  <2>2. UNCHANGED files /\ UNCHANGED <<event, fresh, read, todo>>
    BY <1>12 DEF Answer, local
  <2> QED BY <1>1, <1>4, <1>5, <2>1, <2>2 DEF TypeOK
<1>13. CASE Reconcile(p)
  <2>1. Last(events[On(p)]) \in Events \cup {NoEvent}
    BY <1>1, Asked, LastType
  <2>2. /\ event' = [event EXCEPT ![p] = Last(events[On(p)])] \/ event' = event
        /\ UNCHANGED files /\ UNCHANGED <<fresh, read, todo, acked>>
    BY <1>13 DEF Reconcile
  <2>3. Known
    BY <2>1, <2>2 DEF TypeOK
  <2> QED BY <1>3, <1>4, <2>2, <2>3
<1>14. ASSUME NEW w \in Workflows, RebuildOne(p, w) PROVE TypeOK'
  <2>1. Expected(w) \in Summaries
    BY LastType DEF Expected, TypeOK, ChainInv
  <2>2. /\ todo' = [todo EXCEPT ![p] = @ \ {w}]
        /\ head' = head \/ head' = [head EXCEPT ![w] = Expected(w)]
        /\ read' = read \/ read' = [read EXCEPT ![p][w] = Expected(w)]
        /\ UNCHANGED <<events, torn, registry, event, fresh, acked>>
    BY <1>14 DEF RebuildOne
  <2>3. Files
    BY <2>1, <2>2 DEF TypeOK
  <2>4. read' \in [Procs -> [Workflows -> Summaries]]
    <3>1. [read[p] EXCEPT ![w] = Expected(w)] \in [Workflows -> Summaries]
      BY <2>1 DEF TypeOK
    <3> QED BY <2>2, <3>1 DEF TypeOK
  <2>5. Known
    BY <2>2, <2>4 DEF TypeOK
  <2> QED BY <1>3, <2>2, <2>3, <2>5
<1>15. CASE Seal(p)
  <2>1. registry' = read[p] /\ UNCHANGED <<events, torn, head, event, fresh, read, todo, acked>>
    BY <1>15 DEF Seal, local
  <2>2. Files
    BY <2>1 DEF TypeOK
  <2> QED BY <1>3, <1>5, <2>1, <2>2
<1> QED BY <1>6, <1>7, <1>8, <1>9, <1>10, <1>11, <1>12, <1>13, <1>14, <1>15, <1>16 DEF Works

-----------------------------------------------------------------------------
(* The lock *)

LEMMA LockStep ==
  ASSUME TypeOK, LockInv, Next, ~robbed'
  PROVE  LockInv'
<1>1. /\ pc \in [Procs -> {"idle", "lock", "judged"} \cup Inside]
      /\ "idle" \notin Inside /\ "lock" \notin Inside /\ "judged" \notin Inside
  BY DEF TypeOK, Inside
<1>2. CASE Ages \/ Damage
  BY <1>2 DEF Ages, Damage, LockInv, locks
<1>3. ASSUME NEW p \in Procs, \E r \in Requests : Call(p, r) PROVE LockInv'
  BY <1>1, <1>3 DEF Call, At, Goes, LockInv, locks
<1>4. ASSUME NEW p \in Procs, Acquire(p) PROVE LockInv'
  <2>1. \A q \in Procs : pc[q] \notin Inside
    BY <1>4, Names DEF Acquire, LockInv
  <2> QED BY <1>1, <1>4, <2>1 DEF Acquire, LockInv, Goes
<1>5. ASSUME NEW p \in Procs, Judge(p) PROVE LockInv'
  BY <1>1, <1>5 DEF Judge, Goes, LockInv, locks
<1>6. ASSUME NEW p \in Procs, Claim(p) PROVE LockInv'
  <2>1. lock \notin Procs
    BY <1>6 DEF Claim
  <2>2. \A q \in Procs : pc[q] \notin Inside
    BY <2>1 DEF LockInv
  <2> QED BY <1>1, <1>6, <2>2 DEF Claim, Goes, LockInv
<1>7. ASSUME NEW p \in Procs, GivesUp(p) PROVE LockInv'
  BY <1>1, <1>7 DEF GivesUp, Goes, LockInv, locks
<1>8. ASSUME NEW p \in Procs, Release(p) PROVE LockInv'
  <2>1. lock = p
    BY <1>8 DEF Release, At, LockInv, Inside
  <2>2. \A q \in Procs \ {p} : pc[q] \notin Inside
    BY <2>1 DEF LockInv
  <2> QED BY <1>1, <1>8, <2>2 DEF Release, Goes, LockInv
<1>9. ASSUME NEW p \in Procs, Crash(p) PROVE LockInv'
  BY <1>1, <1>9 DEF Crash, Goes, LockInv
<1>10. ASSUME NEW p \in Procs, Works(p) PROVE LockInv'
  <2>1. lock = p /\ UNCHANGED locks /\ pc[p] \in Inside /\ \E s \in Inside : Goes(p, s) \/ pc' = pc
    BY <1>10, WorksInside DEF LockInv
  <2>2. \A q \in Procs : pc'[q] \in Inside => pc[q] \in Inside
    BY <1>1, <2>1 DEF Goes
  <2> QED BY <2>1, <2>2 DEF LockInv, locks
<1> QED BY <1>2, <1>3, <1>4, <1>5, <1>6, <1>7, <1>8, <1>9, <1>10 DEF Next, Step, Works

LEMMA CallStep ==
  ASSUME TypeOK, CallInv, Next
  PROVE  CallInv'
<1>1. /\ pc \in [Procs -> {"idle", "lock", "judged"} \cup Inside]
      /\ req \in [Procs -> Requests \cup {None}] /\ fresh \in [Procs -> BOOLEAN]
      /\ "idle" \notin Inside /\ "lock" \notin Inside /\ "judged" \notin Inside
  BY DEF TypeOK, Inside
<1>2. CASE Ages \/ Damage
  BY <1>2 DEF Ages, Damage, CallInv, local
<1>3. ASSUME NEW p \in Procs, NEW r \in Requests, Call(p, r) PROVE CallInv'
  BY <1>1, <1>3 DEF Call, Goes, Fresh, CallInv
<1>4. ASSUME NEW p \in Procs, Acquire(p) PROVE CallInv'
  BY <1>1, <1>4 DEF Acquire, At, Goes, CallInv
<1>5. ASSUME NEW p \in Procs, Judge(p) \/ Claim(p) PROVE CallInv'
  BY <1>1, <1>5 DEF Judge, Claim, At, Goes, CallInv, local
<1>6. ASSUME NEW p \in Procs, GivesUp(p) \/ Release(p) \/ Crash(p) PROVE CallInv'
  BY <1>1, <1>6 DEF GivesUp, Release, Crash, Goes, Fresh, CallInv
<1>7. ASSUME NEW p \in Procs, Works(p) PROVE CallInv'
  <2>1. UNCHANGED req /\ pc[p] \in Inside /\ \E s \in Inside : Goes(p, s) \/ pc' = pc
    BY <1>7, WorksInside
  <2>2. fresh' = fresh \/ fresh' = [fresh EXCEPT ![p] = TRUE]
    BY <1>7 DEF Works, Refuse, Find, Draft, WriteEvent, CutShort, WriteHead, OpenRegistry, WriteEntry, Answer,
                Reconcile, FixHead, FixRegistry, Verify, RebuildOne, Seal, local
  <2>3. \A q \in Procs : q # p => pc'[q] = pc[q] /\ fresh'[q] = fresh[q]
    BY <1>1, <2>1, <2>2 DEF Goes
  <2>4. pc'[p] \in Inside
    BY <1>1, <2>1 DEF Goes
  <2> QED BY <1>1, <2>1, <2>3, <2>4 DEF CallInv
<1> QED BY <1>2, <1>3, <1>4, <1>5, <1>6, <1>7 DEF Next, Step, Works

-----------------------------------------------------------------------------
(* The log, and what the callers were told *)

LEMMA ChainStep ==
  ASSUME TypeOK, CallInv, ChainInv, WorkInv, Next
  PROVE  ChainInv' /\ \A w \in Workflows : events[w] \subseteq events'[w]
<1>1. ASSUME NEW p \in Procs, WriteEvent(p)
      PROVE  ChainInv' /\ \A w \in Workflows : events[w] \subseteq events'[w]
  <2>1. CASE events' = events
    BY <2>1 DEF ChainInv
  <2>2. CASE events' = [events EXCEPT ![On(p)] = @ \cup {event[p]}]
    <3>1. pc[p] = "write" /\ pc[p] \in Inside /\ pc[p] # "idle"
      BY <1>1 DEF WriteEvent, At, Inside
    <3>2. event[p] = NextEvent(On(p), req[p]) /\ Recorded(On(p), req[p]) = {}
      BY <3>1 DEF WorkInv, Work
    <3>3. /\ events[On(p)] \in SUBSET Events /\ Chain(events[On(p)]) /\ On(p) \in Workflows
          /\ event[p] \in Events
          /\ event[p].seq = Last(events[On(p)]).seq + 1 /\ event[p].prev = Last(events[On(p)]).key
          /\ \A f \in events[On(p)] : f.key # event[p].key
      BY <3>1, <3>2, Asked, NextEventType DEF Recorded
    <3>4. Chain(events[On(p)] \cup {event[p]})
      BY <3>3, Longer
    <3>5. \A w \in Workflows :
            events'[w] = IF w = On(p) THEN events[w] \cup {event[p]} ELSE events[w]
      BY <2>2, <3>3 DEF TypeOK
    <3> QED BY <3>4, <3>5 DEF ChainInv
  <2> QED BY <1>1, <2>1, <2>2 DEF WriteEvent
<1>2. ASSUME UNCHANGED events PROVE ChainInv' /\ \A w \in Workflows : events[w] \subseteq events'[w]
  BY <1>2 DEF ChainInv
<1> QED BY <1>1, <1>2
        DEF Next, Step, Ages, Damage, Call, Acquire, Judge, Claim, GivesUp, Release, Refuse, Find, Draft,
            CutShort, WriteHead, OpenRegistry, WriteEntry, Answer, Reconcile, FixHead, FixRegistry,
            Verify, RebuildOne, Seal, Crash, files

LEMMA TornStep ==
  ASSUME TypeOK, CallInv, ChainInv, TornInv, WorkInv, Next
  PROVE  TornInv'
<1>1. ASSUME NEW p \in Procs, pc[p] = "write"
      PROVE  /\ torn[On(p)] = {} /\ On(p) \in Workflows
             /\ event[p].seq = Cardinality(events[On(p)]) + 1
  <2>1. pc[p] \in Inside /\ pc[p] # "idle"
    BY <1>1 DEF Inside
  <2>2. event[p] = NextEvent(On(p), req[p]) /\ torn[On(p)] = {}
    BY <1>1, <2>1 DEF WorkInv, Work
  <2>3. event[p].seq = Last(events[On(p)]).seq + 1
    BY <2>1, <2>2, NextEventType
  <2>4. /\ On(p) \in Workflows
        /\ Last(events[On(p)]).seq = Cardinality(events[On(p)])
    BY <2>1, Asked, LastType
  <2> QED BY <2>2, <2>3, <2>4
<1>2. ASSUME NEW p \in Procs, WriteEvent(p) PROVE TornInv'
  <2>1. pc[p] = "write" /\ torn' = torn
    BY <1>2 DEF WriteEvent, At
  <2>2. \A w \in Workflows : torn[w] # {} => events'[w] = events[w]
    BY <1>1, <1>2, <2>1 DEF WriteEvent, TypeOK
  <2> QED BY <2>1, <2>2 DEF TornInv
<1>3. ASSUME NEW p \in Procs, CutShort(p) PROVE TornInv'
  <2> DEFINE f == [seq |-> event[p].seq, key |-> event[p].key]
  <2>1. /\ pc[p] = "write" /\ events' = events
        /\ torn' = [torn EXCEPT ![On(p)] = @ \cup {f}]
    BY <1>3 DEF CutShort, At
  <2>2. f.seq = Cardinality(events[On(p)]) + 1 /\ torn[On(p)] = {} /\ On(p) \in Workflows
    BY <1>1, <2>1
  <2>3. \A w \in Workflows : torn'[w] = IF w = On(p) THEN {f} ELSE torn[w]
    BY <2>1, <2>2 DEF TypeOK
  <2> QED BY <2>1, <2>2, <2>3 DEF TornInv
<1>4. ASSUME UNCHANGED <<events, torn>> PROVE TornInv'
  BY <1>4 DEF TornInv
<1> QED BY <1>2, <1>3, <1>4
        DEF Next, Step, Ages, Damage, Call, Acquire, Judge, Claim, GivesUp, Release, Refuse, Find, Draft,
            WriteHead, OpenRegistry, WriteEntry, Answer, Reconcile, FixHead, FixRegistry, Verify,
            RebuildOne, Seal, Crash, files

\* The last event of a workflow is as far as any caller was told.
LEMMA LastCovers ==
  ASSUME TypeOK, ChainInv, AckedInv, NEW w \in Workflows, NEW k \in Keys, <<w, k>> \in acked
  PROVE  /\ events[w] # {}
         /\ \E e \in events[w] : e.key = k /\ Upto(Last(events[w])).count >= e.seq
<1>1. events[w] \in SUBSET Events /\ Chain(events[w])
  BY DEF TypeOK, ChainInv
<1> QED BY <1>1, LastType DEF AckedInv

\* A rebuild that has looked at every workflow has all of it.
LEMMA RebuiltCovers ==
  ASSUME TypeOK, ChainInv, AckedInv, WorkInv, NEW p \in Procs, pc[p] = "rebuild", todo[p] = {}
  PROVE  Covers(read[p])
<1>1. \A w \in Workflows : events[w] # {} => read[p][w] = Upto(Last(events[w]))
  BY DEF WorkInv, Work, Inside, Expected
<1> QED BY <1>1, LastCovers DEF Covers

\* An entry is written for the last event, over a registry that covers the rest.
LEMMA EntryCovers ==
  ASSUME TypeOK, CallInv, ChainInv, AckedInv, WorkInv, NEW p \in Procs, WriteEntry(p)
  PROVE  Covers(registry')
<1>1. /\ pc[p] = "entry" /\ pc[p] \in Inside /\ pc[p] # "idle"
      /\ registry' = [read[p] EXCEPT ![On(p)] = Upto(event[p])]
  BY DEF WriteEntry, At, Inside
<1>2. Covers(read[p]) /\ event[p] = Last(events[On(p)])
  BY <1>1 DEF WorkInv, Work, HasLast
<1>3. On(p) \in Workflows /\ read[p] \in [Workflows -> Summaries]
  BY <1>1, Asked DEF TypeOK
<1>4. \A w \in Workflows : registry'[w] = IF w = On(p) THEN Upto(Last(events[w])) ELSE read[p][w]
  BY <1>1, <1>2, <1>3
<1> QED BY <1>2, <1>4, LastCovers DEF Covers

LEMMA AckedStep ==
  ASSUME TypeOK, CallInv, ChainInv, AckedInv, WorkInv, Next
  PROVE  AckedInv'
<1>1. \A w \in Workflows : events[w] \subseteq events'[w]
  BY ChainStep
<1>2. ASSUME UNCHANGED acked, registry' = registry \/ registry' = Unreadable \/ Covers(registry')
      PROVE  AckedInv'
  <2>2. CASE registry' = registry
    BY <1>1, <1>2, <2>2 DEF AckedInv, Covers
  <2>3. CASE registry' = Unreadable
    BY <1>1, <1>2, <2>3 DEF AckedInv
  <2>4. CASE Covers(registry')
    BY <1>1, <1>2, <2>4 DEF AckedInv, Covers
  <2> QED BY <1>2, <2>2, <2>3, <2>4
<1>3. ASSUME NEW p \in Procs, Answer(p) PROVE AckedInv'
  <2>1. pc[p] = "answer" /\ pc[p] \in Inside /\ pc[p] # "idle"
    BY <1>3 DEF Answer, At, Inside
  <2>2. UNCHANGED <<events, registry>> /\ acked' = acked \cup {<<On(p), req[p].key>>}
    BY <1>3 DEF Answer, files
  <2>3. On(p) \in Workflows /\ events[On(p)] \in SUBSET Events /\ Chain(events[On(p)])
    BY <2>1, Asked
  <2>4. /\ Recorded(On(p), req[p]) # {} /\ registry # Unreadable
        /\ registry[On(p)] = Upto(Last(events[On(p)]))
    BY <2>1 DEF WorkInv, Work, Verified, Expected
  <2>5. \E e \in events[On(p)] : e.key = req[p].key /\ registry[On(p)].count >= e.seq
    BY <2>3, <2>4, LastType DEF Recorded
  <2>6. \A w \in Workflows, k \in Keys : <<w, k>> \in acked' =>
          \E e \in events[w] : e.key = k /\ registry[w].count >= e.seq
    BY <2>2, <2>4, <2>5 DEF AckedInv, Covers
  <2> QED BY <2>2, <2>6 DEF AckedInv, Covers
<1>4. ASSUME NEW p \in Procs, WriteEntry(p) PROVE AckedInv'
  BY <1>2, <1>4, EntryCovers DEF WriteEntry
<1>5. ASSUME NEW p \in Procs, Seal(p) PROVE AckedInv'
  BY <1>2, <1>5, RebuiltCovers DEF Seal, At
<1> QED BY <1>2, <1>3, <1>4, <1>5
        DEF Next, Step, Ages, Damage, Call, Acquire, Judge, Claim, GivesUp, Release, Refuse, Find, Draft,
            WriteEvent, CutShort, WriteHead, OpenRegistry, Reconcile, FixHead, FixRegistry, Verify,
            RebuildOne, Crash, files

-----------------------------------------------------------------------------
(* What the holder of the lock has in hand *)

LEMMA WorkSame ==
  ASSUME NEW p, Work(p), UNCHANGED <<files, acked>>, pc'[p] = pc[p], req'[p] = req[p],
         event'[p] = event[p], fresh'[p] = fresh[p], read'[p] = read[p], todo'[p] = todo[p]
  PROVE  Work(p)'
BY DEF Work, HasLast, HasHead, On, Expected, Verified, Readable, Recorded, NextEvent, Covers, files

LEMMA LockWork ==
  ASSUME TypeOK, LockInv, CallInv, WorkInv,
         \/ Ages \/ Damage
         \/ \E p \in Procs :
              \/ \E r \in Requests : Call(p, r)
              \/ Acquire(p) \/ Judge(p) \/ Claim(p) \/ GivesUp(p) \/ Release(p) \/ Crash(p)
  PROVE  WorkInv'
<1>1. /\ pc \in [Procs -> {"idle", "lock", "judged"} \cup Inside]
      /\ "idle" \notin Inside /\ "lock" \notin Inside /\ "judged" \notin Inside
  BY DEF TypeOK, Inside
<1>2. CASE Ages
  BY <1>2, WorkSame DEF Ages, WorkInv, local, files
<1>3. CASE Damage
  BY <1>3, Names DEF Damage, LockInv, WorkInv
<1>4. ASSUME NEW p \in Procs, pc'[p] \notin Inside, UNCHANGED <<files, acked>>,
             \A q \in Procs \ {p} :
               /\ pc'[q] = pc[q] /\ req'[q] = req[q] /\ event'[q] = event[q]
               /\ fresh'[q] = fresh[q] /\ read'[q] = read[q] /\ todo'[q] = todo[q]
      PROVE  WorkInv'
  BY <1>4, WorkSame DEF WorkInv
<1>5. ASSUME NEW p \in Procs, NEW r \in Requests, Call(p, r) PROVE WorkInv'
  BY <1>1, <1>4, <1>5 DEF Call, Goes, Fresh, TypeOK
<1>6. ASSUME NEW p \in Procs, Judge(p) \/ Claim(p) PROVE WorkInv'
  BY <1>1, <1>4, <1>6 DEF Judge, Claim, Goes, local
<1>7. ASSUME NEW p \in Procs, GivesUp(p) \/ Release(p) \/ Crash(p) PROVE WorkInv'
  BY <1>1, <1>4, <1>7 DEF GivesUp, Release, Crash, Goes, Fresh, TypeOK
<1>8. ASSUME NEW p \in Procs, Acquire(p) PROVE WorkInv'
  <2>1. \A q \in Procs : pc[q] \notin Inside
    BY <1>8, Names DEF Acquire, LockInv
  <2>2. /\ pc'[p] = First(req[p]) /\ req' = req /\ fresh' = fresh /\ ~fresh[p] /\ req[p] \in Requests
        /\ todo'[p] = IF req[p].kind = "rebuild" THEN Workflows ELSE {}
        /\ \A q \in Procs \ {p} : pc'[q] = pc[q]
    BY <1>1, <1>8 DEF Acquire, At, Goes, CallInv, TypeOK
  <2>3. \/ pc'[p] = "scan" /\ req[p].kind = "append"
        \/ pc'[p] = "reconcile" /\ req[p].kind = "reconcile"
        \/ pc'[p] = "rebuild" /\ req[p].kind = "rebuild" /\ todo'[p] = Workflows
    BY <2>2, Names DEF First
  <2>4. Work(p)'
    BY <2>2, <2>3 DEF Work, HasLast, HasHead
  <2> QED BY <2>1, <2>2, <2>4 DEF WorkInv
<1> QED BY <1>2, <1>3, <1>5, <1>6, <1>7, <1>8

\* Nobody works beside the holder, so that its step is all there is to see.
LEMMA Alone ==
  ASSUME TypeOK, LockInv, NEW p \in Procs, Works(p), pc'[p] \in Inside => Work(p)'
  PROVE  WorkInv'
<1>1. pc[p] \in Inside /\ \E s \in Inside : Goes(p, s) \/ pc' = pc
  BY WorksInside
<1>2. \A q \in Procs \ {p} : pc[q] \notin Inside /\ pc'[q] = pc[q]
  BY <1>1 DEF LockInv, TypeOK, Goes
<1> QED BY <1>2 DEF WorkInv

\* The steps of an append, up to the registry.
LEMMA AppendWork ==
  ASSUME TypeOK, CallInv, ChainInv, NEW p \in Procs, Work(p), pc[p] # "idle",
         Refuse(p) \/ Find(p) \/ Draft(p) \/ WriteEvent(p) \/ CutShort(p) \/ WriteHead(p)
  PROVE  Work(p)'
<1>1. /\ pc \in [Procs -> {"idle", "lock", "judged"} \cup Inside]
      /\ event \in [Procs -> Events \cup {NoEvent}] /\ fresh \in [Procs -> BOOLEAN]
      /\ events \in [Workflows -> SUBSET Events] /\ head \in [Workflows -> Summaries]
  BY DEF TypeOK
<1>2. On(p) \in Workflows /\ events[On(p)] \in SUBSET Events /\ Chain(events[On(p)])
  BY Asked
<1>3. CASE Refuse(p)
  <2>1. pc'[p] = "release" /\ UNCHANGED <<req, fresh>>
    BY <1>1, <1>3 DEF Refuse, Goes, local
  <2> QED BY <2>1 DEF Work, HasLast, HasHead
<1>4. CASE Find(p)
  <2>1. /\ pc[p] = "scan" /\ pc'[p] = "reconcile" /\ UNCHANGED <<events, req, fresh>>
        /\ Recorded(On(p), req[p]) # {}
    BY <1>1, <1>4 DEF Find, At, Goes, local, files
  <2> QED BY <2>1 DEF Work, HasLast, HasHead, On, Recorded
<1>5. CASE Draft(p)
  <2>1. /\ pc[p] = "scan" /\ pc'[p] = "write" /\ UNCHANGED <<events, torn, req>>
        /\ event'[p] = NextEvent(On(p), req[p]) /\ Recorded(On(p), req[p]) = {}
        /\ torn[On(p)] = {}
    BY <1>1, <1>5 DEF Draft, At, Goes, files, Readable
  <2> QED BY <2>1 DEF Work, HasLast, HasHead, On, Recorded, NextEvent
<1>6. CASE WriteEvent(p)
  <2>1. /\ pc[p] = "write" /\ UNCHANGED <<torn, req, fresh, event>> /\ torn[On(p)] = {}
        /\ event[p] = NextEvent(On(p), req[p]) /\ Recorded(On(p), req[p]) = {}
        /\ req[p].kind = "append"
    BY <1>6 DEF WriteEvent, At, local, Work
  <2>2. CASE events' = [events EXCEPT ![On(p)] = @ \cup {event[p]}] /\ Goes(p, "head")
    <3>1. /\ event[p] \in Events /\ event[p].key = req[p].key
          /\ event[p].seq = Last(events[On(p)]).seq + 1 /\ event[p].prev = Last(events[On(p)]).key
          /\ \A f \in events[On(p)] : f.key # event[p].key
      BY <2>1, NextEventType DEF Recorded
    <3>2. events'[On(p)] = events[On(p)] \cup {event[p]} /\ pc'[p] = "head"
      BY <1>1, <1>2, <2>2 DEF Goes
    <3>3. Last(events'[On(p)]) = event[p]
      BY <1>2, <3>1, <3>2, Longer
    <3>4. event[p] \in events'[On(p)] /\ On(p)' = On(p)
      BY <2>1, <3>2 DEF On
    <3> QED BY <2>1, <3>1, <3>2, <3>3, <3>4 DEF Work, HasLast, HasHead, Recorded
  <2>3. CASE Goes(p, "release")
    <3>1. pc'[p] = "release"
      BY <1>1, <2>3 DEF Goes
    <3> QED BY <2>1, <3>1 DEF Work, HasLast, HasHead
  <2> QED BY <1>6, <2>2, <2>3 DEF WriteEvent
<1>7. CASE WriteHead(p)
  <2>1. /\ pc[p] = "head" /\ pc'[p] = "registry" /\ UNCHANGED <<events, torn, req, fresh, event>>
        /\ head'[On(p)] = Upto(event[p])
    BY <1>1, <1>2, <1>7 DEF WriteHead, At, Goes, local
  <2> QED BY <2>1 DEF Work, HasLast, HasHead, On, Recorded
<1>8. CASE CutShort(p)
  <2>1. pc'[p] = "release" /\ pc[p] = "write" /\ UNCHANGED <<req, fresh>>
    BY <1>1, <1>8 DEF CutShort, At, Goes, local
  <2> QED BY <2>1 DEF Work, HasLast, HasHead
<1> QED BY <1>3, <1>4, <1>5, <1>6, <1>7, <1>8

\* The registry is read, or has to be rebuilt.
LEMMA ReadWork ==
  ASSUME TypeOK, CallInv, ChainInv, AckedInv, NEW p \in Procs, Work(p), pc[p] # "idle",
         OpenRegistry(p) \/ FixRegistry(p)
  PROVE  Work(p)'
<1>1. /\ pc \in [Procs -> {"idle", "lock", "judged"} \cup Inside]
      /\ read \in [Procs -> [Workflows -> Summaries]] /\ todo \in [Procs -> SUBSET Workflows]
  BY DEF TypeOK
<1>2. /\ pc[p] \in {"registry", "fixregistry"} /\ UNCHANGED <<events, torn, head, acked, req, fresh, event>>
      /\ ReadRegistry(p, "entry") \/ Goes(p, "verify")
  BY DEF OpenRegistry, FixRegistry, At, files
<1>3. /\ event[p] = Last(events[On(p)]) /\ head[On(p)] = Upto(event[p]) /\ torn[On(p)] = {}
      /\ req[p].kind = "append" => Recorded(On(p), req[p]) # {}
      /\ fresh[p] => req[p].kind = "append"
  BY <1>2 DEF Work, HasLast, HasHead
<1>4. CASE Goes(p, "verify")
  <2>1. pc'[p] = "verify"
    BY <1>1, <1>4 DEF Goes
  <2> QED BY <1>2, <1>3, <2>1 DEF Work, HasLast, HasHead, On, Recorded
<1>5. CASE registry # Unreadable /\ read' = [read EXCEPT ![p] = registry] /\ Goes(p, "entry")
  <2>1. pc'[p] = "entry" /\ read'[p] = registry
    BY <1>1, <1>5 DEF Goes
  <2>2. Covers(read[p])'
    BY <1>2, <1>5, <2>1 DEF AckedInv, Covers
  <2> QED BY <1>2, <1>3, <2>1, <2>2 DEF Work, HasLast, HasHead, On, Recorded
<1>6. CASE todo' = [todo EXCEPT ![p] = Workflows] /\ Goes(p, "rebuild")
  <2>1. pc'[p] = "rebuild" /\ todo'[p] = Workflows
    BY <1>1, <1>6 DEF Goes
  <2> QED BY <1>2, <1>3, <2>1 DEF Work, HasLast, HasHead, On, Recorded
<1> QED BY <1>2, <1>4, <1>5, <1>6 DEF ReadRegistry

\* The registry is written.
LEMMA WriteWork ==
  ASSUME TypeOK, CallInv, ChainInv, AckedInv, WorkInv, NEW p \in Procs,
         WriteEntry(p) \/ Seal(p)
  PROVE  Work(p)'
<1>1. /\ pc \in [Procs -> {"idle", "lock", "judged"} \cup Inside]
      /\ read \in [Procs -> [Workflows -> Summaries]]
  BY DEF TypeOK
<1>2. /\ Work(p) /\ pc[p] # "idle" /\ UNCHANGED <<events, torn, head, acked, req, fresh, event, todo>>
  BY DEF WriteEntry, Seal, At, Inside, WorkInv, local
<1>3. On(p) \in Workflows /\ events[On(p)] \in SUBSET Events /\ Chain(events[On(p)]) /\ On(p)' = On(p)
  BY <1>2, Asked DEF On
<1>4. CASE WriteEntry(p)
  <2>1. /\ pc[p] = "entry" /\ registry' = [read[p] EXCEPT ![On(p)] = Upto(event[p])]
        /\ pc'[p] = IF fresh[p] THEN "answer" ELSE "verify"
    BY <1>1, <1>4 DEF WriteEntry, At, Goes
  <2>2. /\ event[p] = Last(events[On(p)]) /\ head[On(p)] = Upto(event[p]) /\ torn[On(p)] = {}
        /\ req[p].kind = "append" => Recorded(On(p), req[p]) # {}
        /\ fresh[p] => req[p].kind = "append"
    BY <1>2, <2>1 DEF Work, HasLast, HasHead
  <2>3. registry'[On(p)] = Upto(event[p]) /\ registry' # Unreadable
    <3>1. registry' \in [Workflows -> Summaries]
      BY <1>1, <1>3, <2>1, <2>2, LastType
    <3> QED BY <1>1, <1>3, <2>1, <3>1, UnreadableAssumption
  <2>4. Verified(On(p))'
    BY <1>2, <1>3, <2>2, <2>3 DEF Verified, Readable, Expected, Chain
  <2> QED BY <1>2, <1>3, <2>1, <2>2, <2>4 DEF Work, HasLast, HasHead, Recorded
<1>5. CASE Seal(p)
  <2>1. /\ pc[p] = "rebuild" /\ todo[p] = {} /\ read' = read
        /\ Goes(p, CASE req[p].kind = "rebuild" -> "release" [] fresh[p] -> "entry" [] OTHER -> "verify")
    BY <1>5 DEF Seal, At, local
  <2>2. Covers(read[p])'
    BY <1>2, <2>1, RebuiltCovers DEF Covers
  <2>3. fresh[p] => req[p].kind = "append"
    BY <1>2 DEF Work
  <2>4. \/ pc'[p] = "release"
        \/ pc'[p] = "entry" /\ req[p].kind # "rebuild"
        \/ pc'[p] = "verify" /\ req[p].kind # "rebuild"
    BY <1>1, <2>1, <2>3 DEF Goes
  <2>5. /\ req[p].kind # "rebuild" => /\ event[p] = Last(events[On(p)])
                                     /\ head[On(p)] = Upto(event[p]) /\ torn[On(p)] = {}
        /\ req[p].kind = "append" => Recorded(On(p), req[p]) # {}
    BY <1>2, <2>1 DEF Work, HasLast, HasHead
  <2> QED BY <1>2, <1>3, <2>2, <2>3, <2>4, <2>5 DEF Work, HasLast, HasHead, Recorded
<1> QED BY <1>4, <1>5

\* One workflow more is rebuilt.
LEMMA RebuildWork ==
  ASSUME TypeOK, CallInv, ChainInv, NEW p \in Procs, Work(p), pc[p] # "idle",
         NEW w \in Workflows, RebuildOne(p, w)
  PROVE  Work(p)'
<1>1. /\ pc \in [Procs -> {"idle", "lock", "judged"} \cup Inside]
      /\ read \in [Procs -> [Workflows -> Summaries]] /\ todo \in [Procs -> SUBSET Workflows]
      /\ head \in [Workflows -> Summaries]
  BY DEF TypeOK
<1>2. /\ pc[p] = "rebuild" /\ todo'[p] = todo[p] \ {w}
      /\ UNCHANGED <<events, torn, req, event, fresh>>
  BY <1>1 DEF RebuildOne, At
<1>3. On(p)' = On(p) /\ On(p) \in Workflows
  BY <1>2, Asked DEF On
<1>4. /\ req[p].kind # "rebuild" => /\ event[p] = Last(events[On(p)])
                                   /\ head[On(p)] = Upto(event[p]) /\ torn[On(p)] = {}
      /\ req[p].kind = "append" => Recorded(On(p), req[p]) # {}
      /\ fresh[p] => req[p].kind = "append"
      /\ \A v \in Workflows \ todo[p] : events[v] # {} => read[p][v] = Expected(v)
  BY <1>2 DEF Work, HasLast, HasHead
<1>5. CASE Goes(p, "release")
  <2>1. pc'[p] = "release"
    BY <1>1, <1>5 DEF Goes
  <2> QED BY <1>2, <1>4, <2>1 DEF Work, HasLast, HasHead
<1>6. CASE events[w] = {} /\ UNCHANGED <<pc, head, read>>
  <2>1. \A v \in Workflows \ todo'[p] : events[v] # {} => read[p][v] = Expected(v)
    BY <1>2, <1>4, <1>6
  <2> QED BY <1>2, <1>3, <1>4, <1>6, <2>1 DEF Work, HasLast, HasHead, Recorded, Expected
<1>7. CASE /\ head' = [head EXCEPT ![w] = Expected(w)]
           /\ read' = [read EXCEPT ![p][w] = Expected(w)]
           /\ UNCHANGED pc
  <2>1. \A v \in Workflows : head'[v] = IF v = w THEN Expected(v) ELSE head[v]
    BY <1>1, <1>7
  <2>2. \A v \in Workflows : read'[p][v] = IF v = w THEN Expected(v) ELSE read[p][v]
    BY <1>1, <1>7
  <2>3. \A v \in Workflows \ todo'[p] : events[v] # {} => read'[p][v] = Expected(v)
    BY <1>2, <1>4, <2>2
  <2>4. req[p].kind # "rebuild" => head'[On(p)] = Upto(event[p])
    BY <1>3, <1>4, <2>1 DEF Expected
  <2> QED BY <1>2, <1>3, <1>4, <1>7, <2>3, <2>4 DEF Work, HasLast, HasHead, Recorded, Expected
<1> QED BY <1>5, <1>6, <1>7 DEF RebuildOne

\* An event that was there: the head and the registry are looked after.
LEMMA ReconcileWork ==
  ASSUME TypeOK, CallInv, ChainInv, NEW p \in Procs, Work(p), pc[p] # "idle",
         Reconcile(p) \/ FixHead(p) \/ Verify(p) \/ Answer(p)
  PROVE  Work(p)'
<1>1. /\ pc \in [Procs -> {"idle", "lock", "judged"} \cup Inside]
      /\ event \in [Procs -> Events \cup {NoEvent}] /\ head \in [Workflows -> Summaries]
  BY DEF TypeOK
<1>2. On(p) \in Workflows /\ UNCHANGED <<events, torn, req, fresh>> /\ On(p)' = On(p)
  BY Asked DEF Reconcile, FixHead, Verify, Answer, On, files, local
<1>3. CASE Answer(p)
  <2>1. pc'[p] = "release"
    BY <1>1, <1>3 DEF Answer, Goes
  <2> QED BY <1>2, <2>1 DEF Work, HasLast, HasHead
<1>4. CASE Verify(p)
  <2>1. /\ pc[p] = "verify" /\ UNCHANGED <<head, registry>>
        /\ pc'[p] = IF req[p].kind = "append" /\ Verified(On(p)) THEN "answer" ELSE "release"
    BY <1>1, <1>4 DEF Verify, At, Goes, files
  <2> QED BY <1>2, <2>1 DEF Work, HasLast, HasHead, Recorded, Verified, Readable, Expected
<1>5. CASE Reconcile(p)
  <2>1. /\ pc[p] = "reconcile"
        /\ \/ pc'[p] = "fixhead" /\ event'[p] = Last(events[On(p)]) /\ torn[On(p)] = {}
           \/ pc'[p] = "release"
    BY <1>1, <1>5 DEF Reconcile, At, Goes, Readable
  <2> QED BY <1>2, <2>1 DEF Work, HasLast, HasHead, Recorded
<1>6. CASE FixHead(p)
  <2>1. /\ pc[p] = "fixhead" /\ pc'[p] = "fixregistry" /\ event' = event
        /\ head'[On(p)] = Upto(event[p])
    BY <1>1, <1>2, <1>6 DEF FixHead, At, Goes, local
  <2> QED BY <1>2, <2>1 DEF Work, HasLast, HasHead, Recorded
<1> QED BY <1>3, <1>4, <1>5, <1>6

LEMMA NextIInv ==
  ASSUME IInv, Next, ~robbed'
  PROVE  IInv'
<1>1. TypeOK /\ LockInv /\ CallInv /\ ChainInv /\ TornInv /\ AckedInv /\ WorkInv
  BY DEF IInv
<1>2. LockInv' /\ CallInv' /\ ChainInv' /\ TornInv' /\ AckedInv'
  BY <1>1, LockStep, CallStep, ChainStep, TornStep, AckedStep
<1>3. ASSUME NEW p \in Procs, Works(p) PROVE TypeOK' /\ WorkInv'
  <2>1. pc[p] \in Inside /\ pc[p] # "idle" /\ Work(p)
    BY <1>1, <1>3, WorksInside DEF WorkInv, Inside
  <2>2. Work(p)'
    BY <1>1, <1>3, <2>1, AppendWork, ReadWork, WriteWork, RebuildWork, ReconcileWork DEF Works
  <2> QED BY <1>1, <1>3, <2>2, WorksType, Alone
<1>4. \/ (\E p \in Procs : Works(p))
      \/ Ages \/ Damage
      \/ \E p \in Procs :
           \/ \E r \in Requests : Call(p, r)
           \/ Acquire(p) \/ Judge(p) \/ Claim(p) \/ GivesUp(p) \/ Release(p) \/ Crash(p)
  BY DEF Next, Step, Works
<1>5. TypeOK' /\ WorkInv'
  BY <1>1, <1>3, <1>4, LockType, LockWork
<1> QED BY <1>2, <1>5 DEF IInv

LEMMA InitIInv == Init => IInv
<1> SUFFICES ASSUME Init PROVE IInv
  OBVIOUS
<1>1. LockInv /\ CallInv /\ WorkInv
  BY DEF Init, LockInv, CallInv, WorkInv, Inside
<1>2. ChainInv /\ TornInv /\ AckedInv
  BY LastOfNone DEF Init, ChainInv, TornInv, AckedInv, Covers
<1> QED BY <1>1, <1>2, InitType DEF IInv

LEMMA StutterIInv == IInv /\ UNCHANGED vars => IInv'
<1> SUFFICES ASSUME IInv, UNCHANGED vars PROVE IInv'
  OBVIOUS
<1>1. TypeOK' /\ LockInv' /\ CallInv' /\ ChainInv' /\ TornInv' /\ AckedInv'
  BY DEF IInv, vars, files, locks, local, TypeOK, LockInv, CallInv, ChainInv, TornInv, AckedInv, Covers
<1>2. WorkInv'
  BY WorkSame DEF IInv, vars, files, locks, local, WorkInv
<1> QED BY <1>1, <1>2 DEF IInv

LEMMA SafeStep == Safe /\ [Next]_vars => Safe'
<1>1. ASSUME IInv, Next PROVE Safe'
  BY <1>1, NextIInv DEF Safe
<1>2. robbed /\ [Next]_vars => robbed'
  BY DEF Next, Step, Ages, Damage, Call, Acquire, Judge, Claim, GivesUp, Release, Refuse, Find, Draft,
         WriteEvent, CutShort, WriteHead, OpenRegistry, WriteEntry, Answer, Reconcile, FixHead,
         FixRegistry, Verify, RebuildOne, Seal, Crash, files, locks, vars
<1> QED BY <1>1, <1>2, StutterIInv DEF Safe

\* Until a process is robbed of the lock it is one, the log of every workflow a
\* chain, the registry covers what was answered, and the holder of the lock knows
\* what it believes it knows.
THEOREM Invariance == Spec => []Safe
<1>1. Init => Safe
  BY InitIInv DEF Safe
<1> QED BY <1>1, SafeStep, PTL DEF Spec

\* Until then, whatever dies or fails between an event, its head and the registry,
\* the events of a workflow are one chain, cut short at most behind the last.
THEOREM LogIsAChain == Spec => []ChainIsSound
<1>1. Safe => ChainIsSound
  BY DEF Safe, IInv, ChainInv, TornInv, Chain, ChainIsSound
<1> QED BY <1>1, Invariance, PTL

\* Until then, what a caller was told stays in the log, and in every registry that
\* can be read, in spite of the whole registries others write and rebuild.
THEOREM NothingAckedIsLost == Spec => []AckedIsKept
<1>1. ASSUME IInv, NEW w \in Workflows, NEW k \in Keys, <<w, k>> \in acked
      PROVE  \E e \in events[w] : e.key = k /\ (registry # Unreadable => registry[w].count >= e.seq)
  <2>1. CASE registry = Unreadable
    BY <1>1, <2>1 DEF IInv, AckedInv
  <2>2. CASE registry # Unreadable
    BY <1>1, <2>2 DEF IInv, AckedInv, Covers
  <2> QED BY <2>1, <2>2
<1>2. Safe => AckedIsKept
  BY <1>1 DEF AckedIsKept, Safe
<1> QED BY <1>2, Invariance, PTL

\* Until then, a caller is told when the chain, the head and the registry agree.
THEOREM AnswersAreTrue == Spec => AnswersAgree
<1>1. Safe /\ [Next]_vars =>
        [\A p \in Procs : pc[p] = "answer" /\ pc'[p] = "release" => robbed \/ Verified(On(p))]_vars
  BY DEF Safe, IInv, WorkInv, Work, Inside
<1> QED BY <1>1, Invariance, PTL DEF Spec, AnswersAgree

-----------------------------------------------------------------------------
(* The journal *)

\* The key of the event with a number.
KeyOf(es, i) ==
  LET numbered == {e \in es : e.seq = i}
  IN IF numbered = {} THEN None ELSE (CHOOSE e \in numbered : TRUE).key

LEMMA KeyOfEvent ==
  ASSUME NEW es, Chain(es), NEW e \in es
  PROVE  KeyOf(es, e.seq) = e.key
<1>1. {f \in es : f.seq = e.seq} = {e}
  BY DEF Chain
<1> QED BY <1>1 DEF KeyOf

\* Each number up to the last is that of an event.
LEMMA Numbered ==
  ASSUME NEW es, Chain(es)
  PROVE  \A i \in 1..Cardinality(es) : \E e \in es : e.seq = i
<1>1. {e.seq : e \in es} = 1..Cardinality(es)
  BY DEF Chain, Sound
<1> QED BY <1>1

LEMMA LogIs ==
  ASSUME NEW w \in Workflows
  PROVE  Log[w] = [i \in 1..Cardinality(events[w]) |-> KeyOf(events[w], i)]
BY DEF Log, KeyOf

LEMMA HoldsRecorded ==
  ASSUME TypeOK, ChainInv, NEW w \in Workflows, NEW k \in Keys
  PROVE  Journal!Holds(w, k) <=> \E e \in events[w] : e.key = k
<1>1. Chain(events[w]) /\ events[w] \in SUBSET Events
  BY DEF ChainInv, TypeOK
<1>2. /\ Log[w] = [i \in 1..Cardinality(events[w]) |-> KeyOf(events[w], i)]
      /\ DOMAIN Log[w] = 1..Cardinality(events[w])
  BY LogIs
<1>3. ASSUME NEW e \in events[w] PROVE e.seq \in DOMAIN Log[w] /\ Log[w][e.seq] = e.key
  <2>1. e.seq \in 1..Cardinality(events[w])
    BY <1>1 DEF Chain, Sound
  <2> QED BY <1>1, <1>2, <2>1, KeyOfEvent
<1>4. ASSUME NEW i \in DOMAIN Log[w] PROVE \E e \in events[w] : e.key = Log[w][i]
  <2>1. PICK e \in events[w] : e.seq = i
    BY <1>1, <1>2, <1>4, Numbered
  <2> QED BY <1>3, <2>1
<1> QED BY <1>3, <1>4 DEF Journal!Holds

\* The event a process writes is the next entry of its journal.
LEMMA WritesRecord ==
  ASSUME IInv, NEW p \in Procs, WriteEvent(p)
  PROVE  UNCHANGED <<Log, acked>> \/ Journal!Record(On(p), req[p].key)
<1>1. TypeOK /\ CallInv /\ ChainInv /\ pc[p] = "write" /\ pc[p] # "idle" /\ UNCHANGED acked
  BY DEF IInv, WriteEvent, At
<1>2. event[p] = NextEvent(On(p), req[p]) /\ Recorded(On(p), req[p]) = {}
  BY <1>1 DEF IInv, WorkInv, Work, Inside
<1> DEFINE w == On(p)
           es == events[On(p)]
           e == event[p]
           n == Cardinality(events[On(p)])
<1>3. /\ w \in Workflows /\ es \in SUBSET Events /\ Chain(es) /\ req[p].key \in Keys
  BY <1>1, Asked
<1>4. /\ e \in Events /\ e.key = req[p].key /\ e.seq = Last(es).seq + 1 /\ e.prev = Last(es).key
      /\ \A f \in es : f.key # e.key
  BY <1>1, <1>2, NextEventType DEF Recorded
<1>5. CASE events' = events
  BY <1>1, <1>5 DEF Log
<1>6. CASE events' = [events EXCEPT ![On(p)] = @ \cup {event[p]}]
  <2>1. \A v \in Workflows : events'[v] = IF v = w THEN es \cup {e} ELSE events[v]
    BY <1>1, <1>3, <1>6 DEF TypeOK
  <2>2. n \in Nat /\ Last(es).seq = n /\ \A f \in es : f.seq \in Nat /\ f.seq <= n
    BY <1>3, LastType
  <2>3. Chain(es \cup {e}) /\ Cardinality(es \cup {e}) = n + 1
    BY <1>3, <1>4, Longer
  <2>4. Log' = [v \in Workflows |-> [i \in 1..Cardinality(events'[v]) |-> KeyOf(events'[v], i)]]
    BY DEF Log, KeyOf
  <2>5. /\ Log = [v \in Workflows |-> [i \in 1..Cardinality(events[v]) |-> KeyOf(events[v], i)]]
        /\ Log[w] = [i \in 1..n |-> KeyOf(es, i)]
        /\ \A i \in 1..n : Log[w][i] = KeyOf(es, i)
    BY <1>3 DEF Log, KeyOf
  <2> HIDE DEF w, es, e, n
  <2>6. Log'[w] = [i \in 1..(n + 1) |-> KeyOf(es \cup {e}, i)]
    BY <1>3, <2>1, <2>3, <2>4
  <2>7. \A i \in 1..n : KeyOf(es \cup {e}, i) = KeyOf(es, i)
    <3> SUFFICES ASSUME NEW i \in 1..n PROVE KeyOf(es \cup {e}, i) = KeyOf(es, i)
      OBVIOUS
    <3>1. PICK f \in es : f.seq = i
      BY <1>3, Numbered DEF n, es
    <3>2. KeyOf(es, f.seq) = f.key
      BY <1>3, KeyOfEvent
    <3>3. KeyOf(es \cup {e}, f.seq) = f.key
      BY <2>3, KeyOfEvent
    <3> QED BY <3>1, <3>2, <3>3
  <2>8. KeyOf(es \cup {e}, n + 1) = e.key
    BY <1>4, <2>2, <2>3, KeyOfEvent
  <2>9. Log'[w] = Append(Log[w], e.key)
    <3>1. Log[w] \in Seq(Keys \cup {None}) /\ Len(Log[w]) = n
      <4>1. \A i \in 1..n : KeyOf(es, i) \in Keys \cup {None}
        BY <1>3, Numbered, KeyOfEvent, EventType DEF n, es
      <4>2. Log[w] \in [1..n -> Keys \cup {None}]
        BY <2>5, <4>1
      <4> QED BY <2>2, <4>2
    <3>2. Append(Log[w], e.key) = [i \in 1..(n + 1) |-> IF i = n + 1 THEN e.key ELSE Log[w][i]]
      BY <2>2, <3>1
    <3>3. \A i \in 1..(n + 1) : KeyOf(es \cup {e}, i) = IF i = n + 1 THEN e.key ELSE Log[w][i]
      <4> SUFFICES ASSUME NEW i \in 1..(n + 1)
                   PROVE  KeyOf(es \cup {e}, i) = IF i = n + 1 THEN e.key ELSE Log[w][i]
        OBVIOUS
      <4>1. CASE i = n + 1
        BY <2>8, <4>1
      <4>2. CASE i # n + 1
        <5>1. i \in 1..n
          BY <2>2, <4>2
        <5>2. KeyOf(es \cup {e}, i) = KeyOf(es, i) /\ Log[w][i] = KeyOf(es, i)
          BY <2>5, <2>7, <5>1
        <5> QED BY <4>2, <5>2
      <4> QED BY <4>1, <4>2
    <3> QED BY <2>6, <3>2, <3>3
  <2>10. \A v \in Workflows \ {w} : Log'[v] = Log[v]
    BY <2>1, <2>4, <2>5
  <2>11. Log' = [Log EXCEPT ![w] = Append(@, e.key)]
    BY <1>3, <2>4, <2>5, <2>9, <2>10
  <2>12. ~Journal!Holds(w, e.key)
    BY <1>1, <1>3, <1>4, HoldsRecorded DEF w, es
  <2> QED BY <1>1, <1>4, <2>11, <2>12 DEF Journal!Record, w
<1> QED BY <1>5, <1>6 DEF WriteEvent

LEMMA JournalStep == IInv /\ [Next]_vars => [Journal!Next]_<<Log, acked>>
<1> SUFFICES ASSUME IInv, [Next]_vars PROVE [Journal!Next]_<<Log, acked>>
  OBVIOUS
<1>1. ASSUME UNCHANGED <<events, acked>> PROVE UNCHANGED <<Log, acked>>
  BY <1>1 DEF Log
<1>2. ASSUME NEW p \in Procs, WriteEvent(p) PROVE [Journal!Next]_<<Log, acked>>
  <2>1. On(p) \in Workflows /\ req[p].key \in Keys
    BY <1>2, Asked DEF IInv, WriteEvent, At
  <2> QED BY <1>2, <2>1, WritesRecord DEF Journal!Next
<1>3. ASSUME NEW p \in Procs, Answer(p) PROVE Journal!Next
  <2>1. pc[p] = "answer" /\ UNCHANGED events /\ acked' = acked \cup {<<On(p), req[p].key>>}
    BY <1>3 DEF Answer, At, files
  <2>2. On(p) \in Workflows /\ req[p].key \in Keys
    BY <2>1, Asked DEF IInv
  <2>3. Recorded(On(p), req[p]) # {}
    BY <2>1 DEF IInv, WorkInv, Work, Inside
  <2>4. Journal!Holds(On(p), req[p].key)
    BY <2>2, <2>3, HoldsRecorded DEF IInv, Recorded
  <2>5. UNCHANGED Log
    BY <2>1 DEF Log
  <2> QED BY <2>1, <2>2, <2>4, <2>5 DEF Journal!Next, Journal!Answer
<1> QED BY <1>1, <1>2, <1>3
        DEF Next, Step, Ages, Damage, Call, Acquire, Judge, Claim, GivesUp, Release, Refuse, Find, Draft,
            CutShort, WriteHead, OpenRegistry, WriteEntry, Reconcile, FixHead, FixRegistry, Verify,
            RebuildOne, Seal, Crash, files, vars

\* Until a process is robbed of the lock, the event files of the workflows, read in
\* the order of their numbers, are a journal: it grows at its end, no key comes
\* twice, and an answer is given only for what is in it, across any crashes and
\* repeated requests.
THEOREM Refinement == Spec => ImplementsJournal
<1>1. Init => Journal!Init
  <2> SUFFICES ASSUME Init PROVE Journal!Init
    OBVIOUS
  <2>1. Log = [w \in Workflows |-> [i \in 1..Cardinality({}) |-> KeyOf({}, i)]]
    BY DEF Init, Log, KeyOf
  <2>2. 1..Cardinality({}) = {}
    BY FS_EmptySet
  <2>3. [i \in 1..Cardinality({}) |-> KeyOf({}, i)] = <<>>
    BY <2>2
  <2> QED BY <2>1, <2>3 DEF Init, Journal!Init
<1>2. Safe /\ [Next]_vars => [Journal!Next \/ robbed]_<<Log, acked>>
  BY JournalStep DEF Safe
<1> QED BY <1>1, <1>2, Invariance, PTL DEF Spec, ImplementsJournal

=============================================================================
