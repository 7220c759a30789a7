---------------------------- MODULE CaptureWriter ----------------------------
(***************************************************************************)
(* capture_writer.py: one daemon thread draining a bounded FIFO of write   *)
(* jobs, seen by three kinds of thread:                                    *)
(*   - the forward pass, which submits jobs and joins;                     *)
(*   - the writer thread itself (_run);                                    *)
(*   - the closers: the connector's shutdown and the atexit hook, both of  *)
(*     which call close.                                                   *)
(* Every step that touches shared state on its own is an action of its     *)
(* own, so the windows between _ensure_thread and put, between task_done   *)
(* and the _stopping test, and inside _abandon_queued are all visible.     *)
(***************************************************************************)
EXTENDS Integers, Sequences

CONSTANTS
  NumJobs,        \* bound: how many jobs the forward pass submits
  MaxQueueDepth,  \* capture_write_queue_depth
  Closers         \* the threads that may call close

ASSUME NumJobsAssumption == NumJobs \in Nat
ASSUME DepthAssumption == MaxQueueDepth \in Int

Jobs == 1 .. NumJobs

\* The None that close puts in the queue.
Sentinel == 0

\* queue.Queue(maxsize=max(1, int(max_queue_depth)))
Capacity == IF MaxQueueDepth < 1 THEN 1 ELSE MaxQueueDepth

VARIABLES
  queue,       \* the items of queue.Queue
  unfinished,  \* its unfinished_tasks counter
  closed,      \* _closed
  stopping,    \* _stopping
  thread,      \* where the writer thread is in _run; "none" before it starts
  held,        \* the item the writer thread took from the queue
  forward,     \* where the forward pass is in submit or join
  timed,       \* the submit in progress has a timeout
  next,        \* the job submitted next, or being submitted
  closer,      \* where each closer is in close
  taken,       \* the job _abandon_queued took and has not yet reported
  outcome,     \* what became of each job
  store        \* the donor store: a wedged store never returns from a write

forwardVars == <<forward, timed, next>>
writerVars  == <<thread, held>>
closerVars  == <<closer, taken>>
vars == <<queue, unfinished, closed, stopping, writerVars, forwardVars,
          closerVars, outcome, store>>

TypeOK ==
  /\ queue \in Seq(Jobs \cup {Sentinel})
  /\ unfinished \in Nat
  /\ closed \in BOOLEAN
  /\ stopping \in BOOLEAN
  /\ thread \in {"none", "get", "write", "report", "task_done", "check",
                 "exited"}
  /\ held \in Jobs \cup {Sentinel}
  /\ forward \in {"idle", "ensured", "full", "waiting"}
  /\ timed \in BOOLEAN
  /\ next \in 1 .. NumJobs + 1
  /\ closer \in [Closers -> {"idle", "sentinel", "abandon", "report", "join",
                             "returned"}]
  /\ taken \in Jobs \cup {Sentinel}
  /\ outcome \in [Jobs -> {"new", "queued", "written", "failed", "refused"}]
  /\ store \in {"healthy", "wedged"}

Init ==
  /\ queue = << >>
  /\ unfinished = 0
  /\ closed = FALSE
  /\ stopping = FALSE
  /\ thread = "none"
  /\ held = Sentinel
  /\ forward = "idle"
  /\ timed = FALSE
  /\ next = 1
  /\ closer = [c \in Closers |-> "idle"]
  /\ taken = Sentinel
  /\ outcome = [j \in Jobs |-> "new"]
  /\ store = "healthy"

-----------------------------------------------------------------------------
(* queue.Queue: put adds an item and counts it, task_done uncounts one.    *)

Full == Len(queue) >= Capacity

Put(item) ==
  /\ queue' = Append(queue, item)
  /\ unfinished' = unfinished + 1

TaskDone == unfinished' = unfinished - 1

Settle(j, result) == outcome' = [outcome EXCEPT ![j] = result]

-----------------------------------------------------------------------------
(* The forward pass: submit and join. *)

\* Mutant: submit does not look at _closed.
EnsureAnyway(hasTimeout) ==
  /\ forward = "idle"
  /\ next \in Jobs
  /\ forward' = "ensured"
  /\ timed' = hasTimeout
  /\ thread' = IF thread = "none" THEN "get" ELSE thread
  /\ UNCHANGED <<queue, unfinished, closed, stopping, held, next, closerVars,
                 outcome, store>>

\* submit enters _ensure_thread: under the lock it finds the writer open and
\* starts the thread if there is none.
EnsureThread(hasTimeout) ==
  /\ forward = "idle"
  /\ next \in Jobs
  /\ ~closed
  /\ forward' = "ensured"
  /\ timed' = hasTimeout
  /\ thread' = IF thread = "none" THEN "get" ELSE thread
  /\ UNCHANGED <<queue, unfinished, closed, stopping, held, next, closerVars,
                 outcome, store>>

\* submit enters _ensure_thread on a closed writer: RuntimeError.
SubmitClosed ==
  /\ forward = "idle"
  /\ next \in Jobs
  /\ closed
  /\ Settle(next, "refused")
  /\ next' = next + 1
  /\ UNCHANGED <<queue, unfinished, closed, stopping, writerVars, forward,
                 timed, closerVars, store>>

\* put_nowait, or the blocking put, finds room. The lock is long released:
\* nothing here looks at _closed again.
SubmitPut ==
  /\ forward \in {"ensured", "full"}
  /\ ~Full
  /\ Put(next)
  /\ Settle(next, "queued")
  /\ next' = next + 1
  /\ forward' = "idle"
  /\ UNCHANGED <<closed, stopping, writerVars, timed, closerVars, store>>

\* put_nowait raises queue.Full; the put that follows blocks.
SubmitBlocks ==
  /\ forward = "ensured"
  /\ Full
  /\ forward' = "full"
  /\ UNCHANGED <<queue, unfinished, closed, stopping, writerVars, timed, next,
                 closerVars, outcome, store>>

\* The bounded put of teardown gives up: queue.Full reaches the caller.
SubmitTimesOut ==
  /\ forward = "full"
  /\ timed
  /\ Full
  /\ Settle(next, "refused")
  /\ next' = next + 1
  /\ forward' = "idle"
  /\ UNCHANGED <<queue, unfinished, closed, stopping, writerVars, timed,
                 closerVars, store>>

\* join on a writer with a thread that is not closed waits on the counter;
\* otherwise join returns at once, which changes nothing.
JoinBegin ==
  /\ forward = "idle"
  /\ thread # "none"
  /\ ~closed
  /\ forward' = "waiting"
  /\ UNCHANGED <<queue, unfinished, closed, stopping, writerVars, timed, next,
                 closerVars, outcome, store>>

JoinReturn ==
  /\ forward = "waiting"
  /\ unfinished = 0
  /\ forward' = "idle"
  /\ UNCHANGED <<queue, unfinished, closed, stopping, writerVars, timed, next,
                 closerVars, outcome, store>>

-----------------------------------------------------------------------------
(* The writer thread: _run. *)

\* Mutant: a LIFO queue in place of the FIFO one.
GetNewest ==
  /\ thread = "get"
  /\ queue # << >>
  /\ held' = queue[Len(queue)]
  /\ queue' = SubSeq(queue, 1, Len(queue) - 1)
  /\ thread' = IF queue[Len(queue)] = Sentinel THEN "task_done" ELSE "write"
  /\ UNCHANGED <<unfinished, closed, stopping, forwardVars, closerVars,
                 outcome, store>>

\* get() returns the head. The sentinel goes straight to the finally clause.
Get ==
  /\ thread = "get"
  /\ queue # << >>
  /\ held' = Head(queue)
  /\ queue' = Tail(queue)
  /\ thread' = IF Head(queue) = Sentinel THEN "task_done" ELSE "write"
  /\ UNCHANGED <<unfinished, closed, stopping, forwardVars, closerVars,
                 outcome, store>>

WriteLands ==
  /\ thread = "write"
  /\ store = "healthy"
  /\ Settle(held, "written")
  /\ thread' = "task_done"
  /\ UNCHANGED <<queue, unfinished, closed, stopping, held, forwardVars,
                 closerVars, store>>

\* Mutant: the job is marked done before its error is reported.
RaiseDoneFirst ==
  /\ thread = "write"
  /\ store = "healthy"
  /\ TaskDone
  /\ thread' = "report"
  /\ UNCHANGED <<queue, closed, stopping, held, forwardVars, closerVars,
                 outcome, store>>

\* Mutant: one bad job stops the writer.
RaiseKillsThread ==
  /\ thread = "write"
  /\ store = "healthy"
  /\ thread' = "exited"
  /\ UNCHANGED <<queue, unfinished, closed, stopping, held, forwardVars,
                 closerVars, outcome, store>>

WriteRaises ==
  /\ thread = "write"
  /\ store = "healthy"
  /\ thread' = "report"
  /\ UNCHANGED <<queue, unfinished, closed, stopping, held, forwardVars,
                 closerVars, outcome, store>>

\* except Exception: on_error(job, exc).
ReportError ==
  /\ thread = "report"
  /\ Settle(held, "failed")
  /\ thread' = "task_done"
  /\ UNCHANGED <<queue, unfinished, closed, stopping, held, forwardVars,
                 closerVars, store>>

\* finally: task_done(); after the sentinel the thread returns.
WriterTaskDone ==
  /\ thread = "task_done"
  /\ TaskDone
  /\ thread' = IF held = Sentinel THEN "exited" ELSE "check"
  /\ held' = Sentinel
  /\ UNCHANGED <<queue, closed, stopping, forwardVars, closerVars, outcome,
                 store>>

\* if self._stopping: return.
CheckStopping ==
  /\ thread = "check"
  /\ thread' = IF stopping THEN "exited" ELSE "get"
  /\ UNCHANGED <<queue, unfinished, closed, stopping, held, forwardVars,
                 closerVars, outcome, store>>

-----------------------------------------------------------------------------
(* The closers: close, from shutdown or from the atexit hook. *)

\* Under the lock: the second close returns, and so does the close of a
\* writer that never started a thread.
CloseBegin(c) ==
  /\ closer[c] = "idle"
  /\ closed' = TRUE
  /\ closer' = [closer EXCEPT ![c] =
                  IF closed \/ thread = "none" THEN "returned" ELSE "sentinel"]
  /\ UNCHANGED <<queue, unfinished, stopping, writerVars, forwardVars, taken,
                 outcome, store>>

ClosePut(c) ==
  /\ closer[c] = "sentinel"
  /\ ~Full
  /\ Put(Sentinel)
  /\ closer' = [closer EXCEPT ![c] = "join"]
  /\ UNCHANGED <<closed, stopping, writerVars, forwardVars, taken, outcome,
                 store>>

\* Mutant: the sentinel is put without a timeout.
NeverGivesUp(c) == FALSE /\ CloseBegin(c)

\* except queue.Full: the deadline passed with the queue full.
CloseGivesUp(c) ==
  /\ closer[c] = "sentinel"
  /\ Full
  /\ stopping' = TRUE
  /\ closer' = [closer EXCEPT ![c] = "abandon"]
  /\ UNCHANGED <<queue, unfinished, closed, writerVars, forwardVars, taken,
                 outcome, store>>

\* _abandon_queued: get_nowait.
AbandonTake(c) ==
  /\ closer[c] = "abandon"
  /\ queue # << >>
  /\ taken' = Head(queue)
  /\ queue' = Tail(queue)
  /\ closer' = [closer EXCEPT ![c] = "report"]
  /\ UNCHANGED <<unfinished, closed, stopping, writerVars, forwardVars,
                 outcome, store>>

\* Mutant: an abandoned job is reported but not marked done.
AbandonNotDone(c) ==
  /\ closer[c] = "report"
  /\ IF taken = Sentinel THEN UNCHANGED outcome ELSE Settle(taken, "failed")
  /\ taken' = Sentinel
  /\ closer' = [closer EXCEPT ![c] = "abandon"]
  /\ UNCHANGED <<queue, unfinished, closed, stopping, writerVars, forwardVars,
                 store>>

\* Mutant: task_done both after on_error and in the finally clause.
AbandonDoneTwice(c) ==
  /\ closer[c] = "report"
  /\ IF taken = Sentinel THEN UNCHANGED outcome ELSE Settle(taken, "failed")
  /\ unfinished' = unfinished - 2
  /\ taken' = Sentinel
  /\ closer' = [closer EXCEPT ![c] = "abandon"]
  /\ UNCHANGED <<queue, closed, stopping, writerVars, forwardVars, store>>

\* _abandon_queued: on_error for the job, then task_done.
AbandonReport(c) ==
  /\ closer[c] = "report"
  /\ IF taken = Sentinel THEN UNCHANGED outcome ELSE Settle(taken, "failed")
  /\ TaskDone
  /\ taken' = Sentinel
  /\ closer' = [closer EXCEPT ![c] = "abandon"]
  /\ UNCHANGED <<queue, closed, stopping, writerVars, forwardVars, store>>

\* _abandon_queued: queue.Empty.
AbandonEnds(c) ==
  /\ closer[c] = "abandon"
  /\ queue = << >>
  /\ closer' = [closer EXCEPT ![c] = "join"]
  /\ UNCHANGED <<queue, unfinished, closed, stopping, writerVars, forwardVars,
                 taken, outcome, store>>

\* thread.join(timeout): the thread is gone, or the deadline passed. Either
\* way close returns.
CloseReturn(c) ==
  /\ closer[c] = "join"
  /\ closer' = [closer EXCEPT ![c] = "returned"]
  /\ UNCHANGED <<queue, unfinished, closed, stopping, writerVars, forwardVars,
                 taken, outcome, store>>

-----------------------------------------------------------------------------
(* The store may stop answering for a while, or for good. *)

Wedge ==
  /\ store = "healthy"
  /\ store' = "wedged"
  /\ UNCHANGED <<queue, unfinished, closed, stopping, writerVars, forwardVars,
                 closerVars, outcome>>

Recover ==
  /\ store = "wedged"
  /\ store' = "healthy"
  /\ UNCHANGED <<queue, unfinished, closed, stopping, writerVars, forwardVars,
                 closerVars, outcome>>

-----------------------------------------------------------------------------

ForwardStep == SubmitPut \/ SubmitBlocks \/ SubmitTimesOut \/ JoinReturn

Forward ==
  \/ \E hasTimeout \in BOOLEAN : EnsureThread(hasTimeout)
  \/ SubmitClosed
  \/ JoinBegin
  \/ ForwardStep

Writer ==
  Get \/ WriteLands \/ WriteRaises \/ ReportError \/ WriterTaskDone
    \/ CheckStopping

CloseStep(c) ==
  ClosePut(c) \/ CloseGivesUp(c) \/ AbandonTake(c) \/ AbandonReport(c)
    \/ AbandonEnds(c) \/ CloseReturn(c)

Next ==
  \/ Forward
  \/ Writer
  \/ \E c \in Closers : CloseBegin(c) \/ CloseStep(c)
  \/ Wedge
  \/ Recover

Spec == Init /\ [][Next]_vars

\* A thread that has something to run is eventually scheduled, and every
\* bounded wait ends. Nothing obliges anyone to submit, join or close, and
\* nothing obliges the store to recover.
Fairness ==
  /\ WF_vars(ForwardStep)
  /\ WF_vars(Writer)
  /\ \A c \in Closers : WF_vars(CloseStep(c))

FairSpec == Spec /\ Fairness

-----------------------------------------------------------------------------
(* Properties. *)

Active(c) == closer[c] \notin {"idle", "returned"}

WriterHolds == thread \in {"write", "report", "task_done"}

CloserHolds == \E c \in Closers : closer[c] = "report"

\* The queue's own counter is exactly the work nobody has finished: what is
\* queued, what the writer thread is running, and what _abandon_queued has
\* taken. An abandoned job that was not marked done would strand a join
\* ("no later join waits on it", capture_writer.py, module docstring).
UnfinishedIsOutstanding ==
  unfinished = Len(queue) + (IF WriterHolds THEN 1 ELSE 0)
                          + (IF CloserHolds THEN 1 ELSE 0)

\* Where a job is until it is settled: queued, in the writer thread's hands
\* (up to the end of the write or of on_error), or taken by _abandon_queued.
Queued(j) == \E i \in 1 .. Len(queue) : queue[i] = j
Held(j) == thread \in {"write", "report"} /\ held = j
Taken(j) == CloserHolds /\ taken = j

\* No job is lost and none is in two hands: what was accepted and is not yet
\* settled is in exactly one of the three places, for which _run and a
\* concurrent _abandon_queued compete.
EachInOnePlace ==
  \A j \in Jobs :
    /\ outcome[j] = "queued" <=> Queued(j) \/ Held(j) \/ Taken(j)
    /\ ~(Queued(j) /\ Held(j)) /\ ~(Queued(j) /\ Taken(j))
    /\ ~(Held(j) /\ Taken(j))

\* The queue is in submission order, behind what the writer thread holds,
\* which is behind everything that has landed.
JobsInOrder ==
  /\ \A a, b \in 1 .. Len(queue) :
       a < b /\ queue[a] # Sentinel /\ queue[b] # Sentinel
         => queue[a] < queue[b]
  /\ \A a \in 1 .. Len(queue) : queue[a] < next
  /\ \A j, k \in Jobs :
       /\ Held(j) /\ Queued(k) => j < k
       /\ Taken(j) /\ Queued(k) => j < k
       /\ outcome[j] = "written" /\ (Held(k) \/ Queued(k)) => j < k

\* A join that waited returns only when every job submitted before it has
\* been written or reported: _flush_captures decides which donors may be
\* published on the strength of it.
JoinMeansSettled ==
  [][forward = "waiting" /\ forward' # "waiting"
       => \A j \in Jobs : j < next => outcome[j] # "queued"]_vars

\* close races a submit that has already passed _ensure_thread. When close
\* has returned and the thread is gone, that one job is the only one that
\* can be left in the queue: every later submit is refused.
StrandedAtMostOne ==
  (thread = "exited" /\ \A c \in Closers : ~Active(c)) => Len(queue) <= 1

Ledger == INSTANCE JobLedger WITH status <- outcome

\* The threads implement the ledger: each job is settled at most once, a
\* refused job is never written, and what lands, lands in submission order.
ImplementsLedger == Ledger!Spec

StoreComesBack == <>[](store = "healthy")

\* Teardown is bounded, even on a store that never answers again: every
\* close that began returns.
CloseReturns ==
  \A c \in Closers : Active(c) ~> closer[c] = "returned"

\* On a store that comes back, a blocked submit gets its slot or its
\* queue.Full, whoever closes the writer meanwhile.
SubmitReturns ==
  StoreComesBack => (forward = "full" ~> forward = "idle")

\* On a store that comes back, wait_for_save's join returns, also when
\* close abandons the queue under it.
JoinReturns ==
  StoreComesBack => (forward = "waiting" ~> forward = "idle")
==============================================================================
