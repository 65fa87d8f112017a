------------------------------- MODULE WorkerPool -------------------------------
(***************************************************************************)
(* CustomerServer.startPolling and startWebhook: the loop that moves       *)
(* updates from the Telegram library's channel to the channel of jobs, the *)
(* workers that handle them, and the shutdown.  Channels are buffered, a   *)
(* select with several ready cases takes any of them, and a closed channel *)
(* still yields what it holds.                                             *)
(*                                                                         *)
(* Updates are numbered in the order Telegram made them.  The library is   *)
(* external: when polling, one goroutine gets updates in order and blocks  *)
(* on the channel with one in hand; with a webhook, each update is held by *)
(* an HTTP handler of its own, which blocks on the channel.                *)
(***************************************************************************)
EXTENDS Naturals, Sequences, FiniteSets, Functions

CONSTANTS
    Workers,        \* WorkerPoolSize goroutines
    Modes,          \* the configured modes a run looks at
    JobsCap,        \* buffer of the jobs channel (100 in the code)
    UpdatesCap,     \* buffer of the library's channel (100 in the library)
    MaxUpdates      \* bound: updates that Telegram has for the bot

ASSUME ModesAssumption == Modes \subseteq {"polling", "webhook"}
ASSUME CapsAssumption == JobsCap \in Nat \ {0} /\ UpdatesCap \in Nat \ {0}
ASSUME MaxUpdatesAssumption == MaxUpdates \in Nat
ASSUME WorkersAssumption == IsFiniteSet(Workers)

Updates == 1..MaxUpdates
None == 0

VARIABLES
    mode,           \* "polling" or "webhook", read from the configuration once
    cancelled,      \* ctx is done
    fetched,        \* how many updates have left Telegram
    incoming,       \* updates the library holds, blocked on its channel
    updates,        \* the library's channel
    loop,           \* where the loop is
    held,           \* the update the loop is about to send, or None
    jobs, closed,   \* the jobs channel
    workers,        \* where each worker is
    doing,          \* the update each worker is handling, or None
    handled         \* history: updates whose handler has returned

sourceVars == <<fetched, incoming, updates>>
loopVars == <<loop, held, closed>>
workerVars == <<workers, doing, handled>>
vars == <<mode, cancelled, sourceVars, loopVars, jobs, workerVars>>

LoopPlaces == {"select", "send", "closed", "draining", "wait", "returned"}

TypeOK ==
    /\ mode \in Modes
    /\ cancelled \in BOOLEAN /\ closed \in BOOLEAN
    /\ fetched \in 0..MaxUpdates
    /\ incoming \subseteq Updates
    /\ updates \in Seq(Updates) /\ Len(updates) <= UpdatesCap
    /\ jobs \in Seq(Updates) /\ Len(jobs) <= JobsCap
    /\ loop \in LoopPlaces
    /\ held \in Updates \cup {None}
    /\ workers \in [Workers -> {"select", "busy", "done"}]
    /\ doing \in [Workers -> Updates \cup {None}]
    /\ handled \subseteq Updates

Init ==
    /\ mode \in Modes
    /\ cancelled = FALSE /\ closed = FALSE
    /\ fetched = 0 /\ incoming = {} /\ updates = <<>>
    /\ loop = "select" /\ held = None
    /\ jobs = <<>>
    /\ workers = [w \in Workers |-> "select"]
    /\ doing = [w \in Workers |-> None]
    /\ handled = {}

-----------------------------------------------------------------------------
(* SIGINT or SIGTERM.                                                      *)
Cancel ==
    /\ ~cancelled
    /\ cancelled' = TRUE
    /\ UNCHANGED <<mode, sourceVars, loopVars, jobs, workerVars>>

(* The library.  A polling goroutine notices StopReceivingUpdates only     *)
(* after the request under way, so it may fetch more; Shutdown closes the  *)
(* listener of the webhook at once.                                        *)
Fetch ==
    /\ fetched < MaxUpdates
    /\ mode = "polling" => incoming = {}
    /\ mode = "webhook" => loop \in {"select", "send", "closed"}
    /\ fetched' = fetched + 1
    /\ incoming' = incoming \cup {fetched'}
    /\ UNCHANGED <<mode, cancelled, updates, loopVars, jobs, workerVars>>

Offer(u) ==
    /\ u \in incoming
    /\ Len(updates) < UpdatesCap
    /\ updates' = Append(updates, u)
    /\ incoming' = incoming \ {u}
    /\ UNCHANGED <<mode, cancelled, fetched, loopVars, jobs, workerVars>>

-----------------------------------------------------------------------------
(* The loop.                                                               *)
TakeUpdate ==
    /\ loop = "select"
    /\ updates # <<>>
    /\ held' = Head(updates)
    /\ updates' = Tail(updates)
    /\ loop' = "send"
    /\ UNCHANGED <<mode, cancelled, fetched, incoming, closed, jobs, workerVars>>

\* Mutant: a full buffer is taken for room.
SendJobUnbounded ==
    /\ loop = "send"
    /\ jobs' = Append(jobs, held)
    /\ held' = None
    /\ loop' = "select"
    /\ UNCHANGED <<mode, cancelled, sourceVars, closed, workerVars>>

\* Mutant: a send that gives the update up when the buffer is full.
SendJobOrDrop ==
    /\ loop = "send"
    /\ jobs' = IF Len(jobs) < JobsCap THEN Append(jobs, held) ELSE jobs
    /\ held' = None
    /\ loop' = "select"
    /\ UNCHANGED <<mode, cancelled, sourceVars, closed, workerVars>>

\* The send has no case for the context: only room in the buffer ends it.
SendJob ==
    /\ loop = "send"
    /\ Len(jobs) < JobsCap
    /\ jobs' = Append(jobs, held)
    /\ held' = None
    /\ loop' = "select"
    /\ UNCHANGED <<mode, cancelled, sourceVars, closed, workerVars>>

CloseJobs ==
    /\ loop = "select"
    /\ cancelled
    /\ closed' = TRUE
    /\ loop' = "closed"
    /\ UNCHANGED <<mode, cancelled, sourceVars, held, jobs, workerVars>>

\* StopReceivingUpdates returns at once; Shutdown first closes the listener
\* and then waits for the HTTP handlers that are still running.
StopSource ==
    /\ loop = "closed"
    /\ loop' = IF mode = "polling" THEN "wait" ELSE "draining"
    /\ UNCHANGED <<mode, cancelled, sourceVars, held, closed, jobs, workerVars>>

HandlersAreGone ==
    /\ loop = "draining"
    /\ incoming = {}
    /\ loop' = "wait"
    /\ UNCHANGED <<mode, cancelled, sourceVars, held, closed, jobs, workerVars>>

\* Mutant: the loop does not wait for its workers.
ReturnAtOnce ==
    /\ loop = "wait"
    /\ loop' = "returned"
    /\ UNCHANGED <<mode, cancelled, sourceVars, held, closed, jobs, workerVars>>

Return ==
    /\ loop = "wait"
    /\ \A w \in Workers : workers[w] = "done"
    /\ loop' = "returned"
    /\ UNCHANGED <<mode, cancelled, sourceVars, held, closed, jobs, workerVars>>

-----------------------------------------------------------------------------
(* A worker.                                                               *)
\* Mutant: the newest job first.
TakeLastJob(w) ==
    /\ workers[w] = "select"
    /\ jobs # <<>>
    /\ doing' = [doing EXCEPT ![w] = jobs[Len(jobs)]]
    /\ jobs' = SubSeq(jobs, 1, Len(jobs) - 1)
    /\ workers' = [workers EXCEPT ![w] = "busy"]
    /\ UNCHANGED <<mode, cancelled, sourceVars, loopVars, handled>>

TakeJob(w) ==
    /\ workers[w] = "select"
    /\ jobs # <<>>
    /\ doing' = [doing EXCEPT ![w] = Head(jobs)]
    /\ jobs' = Tail(jobs)
    /\ workers' = [workers EXCEPT ![w] = "busy"]
    /\ UNCHANGED <<mode, cancelled, sourceVars, loopVars, handled>>

\* HandleUpdate returns.  It runs under a context of its own.
FinishJob(w) ==
    /\ workers[w] = "busy"
    /\ handled' = handled \cup {doing[w]}
    /\ doing' = [doing EXCEPT ![w] = None]
    /\ workers' = [workers EXCEPT ![w] = "select"]
    /\ UNCHANGED <<mode, cancelled, sourceVars, loopVars, jobs>>

\* Mutant: the return on a done context skips wg.Done.
StopWithoutDone(w) ==
    /\ workers[w] = "select"
    /\ cancelled \/ (closed /\ jobs = <<>>)
    /\ workers' = [workers EXCEPT ![w] = IF cancelled THEN "gone" ELSE "done"]
    /\ UNCHANGED <<mode, cancelled, sourceVars, loopVars, jobs, doing, handled>>

StopWorker(w) ==
    /\ workers[w] = "select"
    /\ cancelled \/ (closed /\ jobs = <<>>)
    /\ workers' = [workers EXCEPT ![w] = "done"]
    /\ UNCHANGED <<mode, cancelled, sourceVars, loopVars, jobs, doing, handled>>

-----------------------------------------------------------------------------
LoopStep == \/ TakeUpdate \/ SendJob \/ CloseJobs \/ StopSource
            \/ HandlersAreGone \/ Return

WorkerStep(w) == TakeJob(w) \/ FinishJob(w) \/ StopWorker(w)

Next ==
    \/ Cancel
    \/ Fetch
    \/ \E u \in incoming : Offer(u)
    \/ LoopStep
    \/ \E w \in Workers : WorkerStep(w)

Spec == Init /\ [][Next]_vars

(* Goroutines that can run do run, and handlers return.  Telegram and the  *)
(* one who sends the signal owe nothing.                                   *)
Fairness ==
    /\ WF_vars(LoopStep)
    /\ \A u \in Updates : WF_vars(Offer(u))
    /\ \A w \in Workers : WF_vars(WorkerStep(w))

FairSpec == Spec /\ Fairness

-----------------------------------------------------------------------------
(* The loop and its workers do what JobRunner promises: an update that got *)
(* past the library is somewhere on its way, in the hands of one worker,   *)
(* or handled, never twice; when polling, workers take updates in order;   *)
(* and startPolling returns only when no handler runs.                     *)
Waiting == incoming \cup Range(updates) \cup ({held} \ {None}) \cup Range(jobs)
Running == {doing[w] : w \in Workers} \ {None}
Phase == IF loop = "returned" THEN "returned"
         ELSE IF cancelled THEN "closing" ELSE "open"

Runner == INSTANCE JobRunner
          WITH Jobs <- Updates, Size <- Cardinality(Workers),
               inOrder <- (mode = "polling"), waiting <- Waiting,
               running <- Running, handled <- handled, phase <- Phase

ImplementsJobRunner == Runner!Spec

(* Shutdown ends, save for two ways to hang, which are for ever: the loop  *)
(* sends to a full buffer all workers have left, or Shutdown waits for an  *)
(* HTTP handler that sends to a full channel nobody reads any more.        *)
SendsToNobody ==
    /\ loop = "send" /\ Len(jobs) = JobsCap
    /\ \A w \in Workers : workers[w] = "done"

WaitsForHandler ==
    /\ loop = "draining" /\ incoming # {} /\ Len(updates) = UpdatesCap

StopsUnlessStuck ==
    cancelled ~> (loop = "returned" \/ SendsToNobody \/ WaitsForHandler)

(* No update is forgotten in a channel while the bot runs.                 *)
UpdatesAreHandled ==
    \A u \in Updates : u \in Waiting ~> (u \in handled \/ cancelled)

-----------------------------------------------------------------------------
(* What the repository says of the program and the runs find not to hold:  *)
(* server.go:43 and :46, startPolling and startWebhook "will block until   *)
(* the context is cancelled", and no longer.                               *)
BlocksUntilCancelled == cancelled ~> loop = "returned"
=============================================================================
