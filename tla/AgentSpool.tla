----------------------------- MODULE AgentSpool -----------------------------
(***************************************************************************)
(* The file transport between RosterPilot processes and the local browser  *)
(* agent (local/agent/client.ts, local/agent/server.ts).  A client that    *)
(* may not open the agent's socket leaves a request file and polls for a   *)
(* response file; the agent scans for requests, queues each one for the    *)
(* browser of its provider, writes the response and then removes the       *)
(* request.  Only the files survive the agent, which launchd starts again. *)
(***************************************************************************)
EXTENDS Naturals, Sequences, FiniteSets

CONSTANTS
  Requests,       \* the requests sent, each by a client of its own
  Providers,      \* the remote applications, one browser queue each
  ProviderOf,     \* the provider of a request
  Control,        \* session controls, which the queue limit does not apply to
  MaxQueued,      \* maximumQueuedJobs
  MayShutDown,    \* TRUE: the agent may be asked to stop
  MayDie,         \* TRUE: the agent may die
  WritesFail,     \* the requests whose response may fail to be written
  MaxLives        \* bound: the agent's last life, which does not end

ASSUME SpoolAssumption ==
  /\ ProviderOf \in [Requests -> Providers]
  /\ Control \subseteq Requests
  /\ MaxQueued \in Nat \ {0}
  /\ WritesFail \subseteq Requests
  /\ {MayShutDown, MayDie} \subseteq BOOLEAN
  /\ MaxLives \in Nat \ {0}

VARIABLES
  client,     \* what each client is doing
  request,    \* requests whose file is in the spool
  response,   \* the response file of each request
  agent,      \* the agent process
  lives,      \* times the agent was started
  awaited,    \* what a closing agent found in its browser queues
  listed,     \* requests a scan has listed and not yet looked at
  job,        \* what the agent is doing with each request, in its memory
  answer,     \* the answer the agent holds for each request
  queue,      \* the requests waiting for each provider's browser
  ran         \* times each request was executed in a browser, in each life

vars == <<client, request, response, agent, lives, awaited, listed, job, answer, queue, ran>>
files == <<request, response>>
agency == <<agent, lives, awaited>>
memory == <<listed, job, answer, queue>>

Answers == {"done", "busy", "error"}
Jobs    == {"none", "accepted", "queued", "running", "answering", "clearing"}

TypeOK ==
  /\ client \in [Requests -> {"idle", "waiting", "answered", "timed out"}]
  /\ request \subseteq Requests
  /\ response \in [Requests -> Answers \cup {"none"}]
  /\ agent \in {"up", "closing", "down"}
  /\ lives \in 1..MaxLives /\ (agent # "up" => lives < MaxLives)
  /\ awaited \subseteq Requests
  /\ listed \subseteq Requests
  /\ job \in [Requests -> Jobs]
  /\ answer \in [Requests -> Answers \cup {"none"}]
  /\ queue \in [Providers -> Seq(Requests)]
  /\ ran \in [Requests -> [1..MaxLives -> Nat]]

\* What the agent knows is gone with its process.
ForgetsJobs ==
  /\ listed' = {}
  /\ job' = [r \in Requests |-> "none"]
  /\ answer' = [r \in Requests |-> "none"]
  /\ queue' = [p \in Providers |-> <<>>]

Init ==
  /\ client = [r \in Requests |-> "idle"]
  /\ request = {}
  /\ response = [r \in Requests |-> "none"]
  /\ agent = "up" /\ lives = 1 /\ awaited = {}
  /\ listed = {}
  /\ job = [r \in Requests |-> "none"]
  /\ answer = [r \in Requests |-> "none"]
  /\ queue = [p \in Providers |-> <<>>]
  /\ ran = [r \in Requests |-> [l \in 1..MaxLives |-> 0]]

-----------------------------------------------------------------------------
(* The client *)

\* spoolRequest: the request is renamed into place whole.
ClientSends(r) ==
  /\ client[r] = "idle" /\ client' = [client EXCEPT ![r] = "waiting"]
  /\ request' = request \cup {r}
  /\ UNCHANGED <<response, agency, memory, ran>>

\* The response is there: the client takes it and removes both files.
ClientReads(r) ==
  /\ client[r] = "waiting" /\ client' = [client EXCEPT ![r] = "answered"]
  /\ response[r] # "none" /\ response' = [response EXCEPT ![r] = "none"]
  /\ request' = request \ {r}
  /\ UNCHANGED <<agency, memory, ran>>

\* LOCAL_AGENT_TIMEOUT: nothing is removed, the request may still be executed.
ClientTimesOut(r) ==
  /\ client[r] = "waiting" /\ client' = [client EXCEPT ![r] = "timed out"]
  /\ UNCHANGED <<files, agency, memory, ran>>

-----------------------------------------------------------------------------
(* The agent: scanning *)

\* scanSpool reads the directory; what it listed is looked at one by one later.
Scan ==
  /\ agent = "up"
  /\ request \ listed # {} /\ listed' = listed \cup request
  /\ UNCHANGED <<client, files, agency, job, answer, queue, ran>>

Look(r) ==
  /\ agent # "down"
  /\ r \in listed /\ listed' = listed \ {r}
  /\ UNCHANGED <<client, files, agency, answer, queue, ran>>

\* Mutant: the scan does not know which files are being processed.
SkipsOnlyMissing(r) == agent = "closing" \/ r \notin request

\* A file being processed, a file that has gone, an agent that is closing.
Skips(r) == agent = "closing" \/ job[r] # "none" \/ r \notin request
Skip(r) == Skips(r) /\ Look(r) /\ UNCHANGED job

Take(r) == ~Skips(r) /\ Look(r) /\ job' = [job EXCEPT ![r] = "accepted"]

-----------------------------------------------------------------------------
(* The agent: executing.  A closing agent goes on with what it has taken. *)

Step(r, from, to) ==
  /\ agent # "down"
  /\ job[r] = from /\ job' = [job EXCEPT ![r] = to]
  /\ UNCHANGED <<client, agency, listed>>

Answer(r, a) == answer' = [answer EXCEPT ![r] = a]

\* The request cannot be read or parsed, or no data snapshot can be leased.
HandleThrows(r) ==
  /\ Step(r, "accepted", "answering") /\ Answer(r, "error")
  /\ UNCHANGED <<files, queue, ran>>

Queued == {r \in Requests : job[r] = "queued"}

\* Mutant: one more than the limit.
FullOneLater == Cardinality(Queued) > MaxQueued

Full == Cardinality(Queued) >= MaxQueued

\* BROWSER_PROFILE_BUSY
EnqueueRefused(r) ==
  /\ r \notin Control /\ Full
  /\ Step(r, "accepted", "answering") /\ Answer(r, "busy")
  /\ UNCHANGED <<files, queue, ran>>

\* enqueueBrowserOperation: behind whatever the provider's queue ends with.
Enqueue(r) ==
  /\ r \in Control \/ ~Full
  /\ Step(r, "accepted", "queued")
  /\ queue' = [queue EXCEPT ![ProviderOf[r]] = Append(@, r)]
  /\ UNCHANGED <<files, answer, ran>>

Running(p) == {r \in Requests : job[r] = "running" /\ ProviderOf[r] = p}

Start(r) ==
  /\ queue[ProviderOf[r]] # <<>> /\ Head(queue[ProviderOf[r]]) = r
  /\ Running(ProviderOf[r]) = {}
  /\ Step(r, "queued", "running")
  /\ queue' = [queue EXCEPT ![ProviderOf[r]] = Tail(@)]
  /\ ran' = [ran EXCEPT ![r][lives] = @ + 1]
  /\ UNCHANGED <<files, answer>>

\* The browser worker answered, failed or was killed at its own time limit.
Finish(r) ==
  /\ Step(r, "running", "answering")
  /\ \E a \in {"done", "error"} : Answer(r, a)
  /\ UNCHANGED <<files, queue, ran>>

-----------------------------------------------------------------------------
(* The agent: answering *)

\* Mutant: the request is forgotten as soon as its response is written, and
\* its file removed by the cleanup.
RespondAndForget(r) ==
  /\ Step(r, "answering", "none")
  /\ response' = [response EXCEPT ![r] = answer[r]]
  /\ Answer(r, "none")
  /\ UNCHANGED <<request, queue, ran>>

\* writeSpoolResponse
Respond(r) ==
  /\ Step(r, "answering", "clearing")
  /\ response' = [response EXCEPT ![r] = answer[r]]
  /\ Answer(r, "none")
  /\ UNCHANGED <<request, queue, ran>>

\* The response cannot be written: the request is removed without an answer.
RespondThrows(r) ==
  /\ r \in WritesFail
  /\ Step(r, "answering", "clearing") /\ Answer(r, "none")
  /\ UNCHANGED <<files, queue, ran>>

\* The request is removed before it leaves the set of files being processed.
Clear(r) ==
  /\ Step(r, "clearing", "none")
  /\ request' = request \ {r}
  /\ UNCHANGED <<response, answer, queue, ran>>

-----------------------------------------------------------------------------
(* The agent: cleaning, stopping, starting *)

\* Mutant: only requests are cleaned.
StaleRequest(r) == client[r] \in {"answered", "timed out"} /\ r \in request

\* cleanStaleSpool removes files an hour old; no client waits that long.
Stale(r) == client[r] \in {"answered", "timed out"} /\ (r \in request \/ response[r] # "none")

Clean(r) ==
  /\ agent = "up" /\ Stale(r)
  /\ request' = request \ {r}
  /\ response' = [response EXCEPT ![r] = "none"]
  /\ UNCHANGED <<client, agency, memory, ran>>

InBrowser(r) == job[r] \in {"queued", "running"}

\* SIGTERM: close waits for what is in the browser queues now.
Close ==
  /\ MayShutDown /\ lives < MaxLives
  /\ agent = "up" /\ agent' = "closing"
  /\ awaited' = {r \in Requests : InBrowser(r)}
  /\ UNCHANGED <<client, files, lives, memory, ran>>

\* It does not wait for responses, nor for what was queued since.
Exit ==
  /\ agent = "closing" /\ agent' = "down"
  /\ \A r \in awaited : ~InBrowser(r)
  /\ awaited' = {}
  /\ ForgetsJobs
  /\ UNCHANGED <<client, files, lives, ran>>

Die ==
  /\ MayDie /\ lives < MaxLives
  /\ agent # "down" /\ agent' = "down"
  /\ awaited' = {}
  /\ ForgetsJobs
  /\ UNCHANGED <<client, files, lives, ran>>

\* Mutant: the spool is emptied at every start, not only of stale files.
RestartWipes ==
  /\ agent = "down" /\ agent' = "up"
  /\ lives' = lives + 1
  /\ request' = {}
  /\ UNCHANGED <<client, response, awaited, memory, ran>>

\* launchd starts an agent that died again, and the installer one that it
\* asked to stop.
Restart ==
  /\ agent = "down" /\ agent' = "up"
  /\ lives' = lives + 1
  /\ UNCHANGED <<client, files, awaited, memory, ran>>

-----------------------------------------------------------------------------
Work(r) ==
  \/ HandleThrows(r) \/ EnqueueRefused(r) \/ Enqueue(r) \/ Start(r) \/ Finish(r)
  \/ Respond(r) \/ RespondThrows(r) \/ Clear(r)

Next ==
  \/ \E r \in Requests :
       \/ ClientSends(r) \/ ClientReads(r) \/ ClientTimesOut(r)
       \/ Skip(r) \/ Take(r) \/ Work(r) \/ Clean(r)
  \/ Scan \/ Close \/ Exit \/ Die \/ Restart

Spec == Init /\ [][Next]_vars

\* The agent scans every 100 ms and cleans up every ten minutes, its browser
\* workers are killed at their own time limit, and clients poll; nothing is
\* assumed of a client's deadline, nor of a write that fails.
FairSpec ==
  /\ Spec
  /\ WF_vars(Scan) /\ WF_vars(Exit) /\ WF_vars(Restart)
  /\ \A r \in Requests :
       /\ WF_vars(Skip(r)) /\ WF_vars(Take(r)) /\ WF_vars(Work(r))
       /\ WF_vars(ClientReads(r)) /\ WF_vars(Clean(r))

-----------------------------------------------------------------------------
(* Properties *)

\* Times this life has executed a request.
Ran(r) == ran[r][lives]

\* While one agent lives: what its files and its memory say of a request.
RequestInv(r) ==
  /\ Ran(r) <= 1
  /\ client[r] = "idle" => r \notin request /\ job[r] = "none"
  /\ job[r] = "none" /\ (r \in request \/ client[r] = "idle") =>
       Ran(r) = 0 /\ response[r] = "none"
  /\ job[r] \in {"accepted", "queued"} => Ran(r) = 0
  /\ job[r] \notin {"none", "clearing"} => response[r] = "none" /\ client[r] # "answered"
  /\ client[r] = "answered" => r \notin request
  /\ "busy" \in {answer[r], response[r]} => Ran(r) = 0
  /\ answer[r] # "none" => job[r] = "answering"

\* Over its restarts: what this life has not taken it has not executed.
LifeInv(r) ==
  /\ \A l \in 1..MaxLives : ran[r][l] <= 1 /\ (l > lives => ran[r][l] = 0)
  /\ client[r] = "idle" => r \notin request /\ job[r] = "none" /\ Ran(r) = 0
  /\ agent = "down" => job[r] = "none"
  /\ agent # "down" /\ job[r] = "none" /\ r \in request => Ran(r) = 0
  /\ job[r] \in {"accepted", "queued"} => Ran(r) = 0

\* The first agent is still there, perhaps closing: no earlier one has left
\* requests behind that it had executed or answered.
FirstLife == lives = 1 /\ agent # "down"

IInv == TypeOK /\ (FirstLife => \A r \in Requests : RequestInv(r))

\* Each life of the agent executes a request at most once, although the
\* directory is scanned again and again while it is being processed.  A life
\* that ends before the request is removed leaves it to the next one.
OncePerLife == \A r \in Requests, l \in 1..MaxLives : ran[r][l] <= 1

\* A client told that the browser queue is full may send its request again:
\* the one it sent has not been and, by this agent, will not be executed.
BusyWasNotRun ==
  FirstLife => \A r \in Requests : response[r] = "busy" => Ran(r) = 0 /\ ~InBrowser(r)

\* Nothing is executed for a client that already has its answer, unless an
\* earlier life of the agent wrote it and ended before the request was removed.
NothingRunsAfterItsAnswer ==
  [][\A r \in Requests : FirstLife /\ ran'[r] # ran[r] => client[r] # "answered"]_vars

\* The two browsers never serve two requests of one provider at once: the
\* agent's own check for a third operation never fires.
OnePerProvider ==
  \A r, q \in Requests :
    job[r] = "running" /\ job[q] = "running" /\ ProviderOf[r] = ProviderOf[q] => r = q

\* Deliveries and analyses waiting for a browser stay within the limit,
\* however many session controls wait with them.
LimitHolds == Cardinality(Queued \ Control) <= MaxQueued

\* A client that waits is answered in the end, whatever happens to the agent,
\* if the response to it can be written.
EveryRequestIsAnswered ==
  \A r \in Requests \ WritesFail : client[r] = "waiting" ~> client[r] # "waiting"

\* No file stays in the spool for ever, nor comes back for ever, whether its
\* client read the answer, gave up, or never got one.
SpoolEmpties == \A r \in Requests : <>[](r \notin request /\ response[r] = "none")

=============================================================================
