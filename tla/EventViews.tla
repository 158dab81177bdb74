----------------------------- MODULE EventViews -----------------------------
(***************************************************************************)
(* EventViewsConsolidator: each server process counts the views of events  *)
(* in memory and adds them to the table event_views, many at a time.       *)
(*                                                                         *)
(* A process has three actors on one event loop: the requests, which       *)
(* submit views without waiting; the worker, _run, which drains the queue   *)
(* into the batch and flushes it; and the lifespan, which starts and stops  *)
(* the worker.                                                             *)
(* Processes meet in Postgres, where a flush locks the keys it counts one   *)
(* after the other.                                                        *)
(***************************************************************************)
EXTENDS Integers, Sequences, FiniteSets, Functions

CONSTANTS
    Processes,            \* server processes, each with its consolidator
    Events,               \* ids of events
    QUEUE_MAXSIZE,        \* VIEWS_QUEUE_MAXSIZE
    BATCH_SIZE,           \* VIEWS_FLUSH_BATCH_SIZE
    FLUSH_INTERVAL,       \* VIEWS_FLUSH_INTERVAL_SECONDS, in ticks
    SHUTDOWN_TIMEOUT,     \* VIEWS_SHUTDOWN_TIMEOUT_SECONDS, in ticks
    MaxViews,             \* the bound of the views a process accepts
    MaxFailures,          \* the bound of the failures of the database
    MayCrash,             \* the processes that may die
    None                  \* the signal to the worker

ASSUME EventViewsAssumption ==
    /\ IsFiniteSet(Processes)
    /\ IsFiniteSet(Events) /\ Events \subseteq Nat
    /\ None \notin Events \cup Processes
    /\ MayCrash \subseteq Processes
    /\ {QUEUE_MAXSIZE, BATCH_SIZE, FLUSH_INTERVAL} \subseteq Nat \ {0}
    /\ {SHUTDOWN_TIMEOUT, MaxViews, MaxFailures} \subseteq Nat

VARIABLES
    event_views,          \* the table: views_count by event_id
    key_lock,             \* the process whose transaction holds the key, or None
    queue,                \* _queue of each process
    batch,                \* _batch: views by event, 0 where there is no entry
    pending,              \* _pending
    worker,               \* where _run stands
    last,                 \* whether it has taken None from the queue
    to_lock,              \* keys its statement has still to lock
    deadline,             \* ticks left to its deadline
    app,                  \* where the lifespan stands
    stop_deadline,        \* ticks left to the time-out of stop
    accepted,             \* views put into the queue
    repeated,             \* views stored by a commit that was reported as failed
    failures              \* failures so far

table == <<event_views, key_lock>>
memory == <<queue, batch, pending>>
run == <<worker, last, to_lock, deadline>>
lifespan == <<app, stop_deadline>>
counts == <<accepted, repeated, failures>>
vars == <<table, memory, run, lifespan, counts>>

NoViews == [e \in Events |-> 0]
Plus(f, g) == [e \in Events |-> f[e] + g[e]]
Viewed(views) == {e \in Events : views[e] > 0}
Total(views) == SumFunction(views)

-----------------------------------------------------------------------------
Init ==
    /\ event_views = NoViews
    /\ key_lock = [e \in Events |-> None]
    /\ queue = [p \in Processes |-> <<>>]
    /\ batch = [p \in Processes |-> NoViews]
    /\ pending = [p \in Processes |-> 0]
    /\ worker = [p \in Processes |-> "none"]
    /\ last = [p \in Processes |-> FALSE]
    /\ to_lock = [p \in Processes |-> {}]
    /\ deadline = [p \in Processes |-> 0]
    /\ app = [p \in Processes |-> "starting"]
    /\ stop_deadline = [p \in Processes |-> 0]
    /\ accepted = [p \in Processes |-> NoViews]
    /\ repeated = [p \in Processes |-> NoViews]
    /\ failures = 0

\* start: the worker computes its first deadline and waits for views.
start(p) ==
    /\ app[p] = "starting"
    /\ app' = [app EXCEPT ![p] = "serving"]
    /\ worker' = [worker EXCEPT ![p] = "getting"]
    /\ deadline' = [deadline EXCEPT ![p] = FLUSH_INTERVAL]
    /\ UNCHANGED <<table, memory, last, to_lock, stop_deadline, counts>>

\* submit.  A view that finds the queue full changes nothing.
submit(p, e) ==
    /\ app[p] = "serving"
    /\ Total(accepted[p]) < MaxViews
    /\ Len(queue[p]) < QUEUE_MAXSIZE
    /\ queue' = [queue EXCEPT ![p] = Append(@, e)]
    /\ accepted' = [accepted EXCEPT ![p][e] = @ + 1]
    /\ UNCHANGED <<table, batch, pending, run, lifespan, repeated, failures>>

-----------------------------------------------------------------------------
(***************************************************************************)
(* The worker.                                                             *)
(***************************************************************************)
\* _flush begins, unless there is nothing to write.
BeginFlush(p) ==
    /\ worker' = [worker EXCEPT ![p] = "flushing"]
    /\ to_lock' = [to_lock EXCEPT ![p] = Viewed(batch'[p])]

\* Past a flush, or what was none: return after the signal, else wait for views
\* with a new deadline.
AfterFlush(p) ==
    /\ worker' = [worker EXCEPT ![p] = IF last'[p] THEN "returned" ELSE "getting"]
    /\ deadline' = [deadline EXCEPT ![p] = FLUSH_INTERVAL]

\* Mutant: only the views of the same event count towards the next flush.
CountView_OfOneEvent(p, e) ==
    /\ batch' = [batch EXCEPT ![p][e] = @ + 1]
    /\ pending' = [pending EXCEPT ![p] = batch'[p][e]]

CountView(p, e) ==
    /\ batch' = [batch EXCEPT ![p][e] = @ + 1]
    /\ pending' = [pending EXCEPT ![p] = @ + 1]

\* queue.get returns a view; it does so even past the deadline, as long as it
\* need not wait.
GetView(p) ==
    /\ worker[p] = "getting"
    /\ queue[p] # <<>> /\ Head(queue[p]) # None
    /\ queue' = [queue EXCEPT ![p] = Tail(@)]
    /\ CountView(p, Head(queue[p]))
    /\ IF pending'[p] >= BATCH_SIZE THEN BeginFlush(p) ELSE UNCHANGED <<worker, to_lock>>
    /\ UNCHANGED <<table, last, deadline, lifespan, counts>>

\* Mutant: the worker returns at once when it is told to stop.
GetNone_NoFlush(p) ==
    /\ worker[p] = "getting"
    /\ queue[p] # <<>> /\ Head(queue[p]) = None
    /\ queue' = [queue EXCEPT ![p] = Tail(@)]
    /\ last' = [last EXCEPT ![p] = TRUE]
    /\ AfterFlush(p)
    /\ UNCHANGED <<table, batch, pending, to_lock, lifespan, counts>>

\* queue.get returns None: flush what is left and return.
GetNone(p) ==
    /\ worker[p] = "getting"
    /\ queue[p] # <<>> /\ Head(queue[p]) = None
    /\ queue' = [queue EXCEPT ![p] = Tail(@)]
    /\ last' = [last EXCEPT ![p] = TRUE]
    /\ UNCHANGED <<batch, pending>>
    /\ IF Viewed(batch[p]) = {}
       THEN AfterFlush(p) /\ UNCHANGED to_lock
       ELSE BeginFlush(p) /\ UNCHANGED deadline
    /\ UNCHANGED <<table, lifespan, counts>>

\* Mutant: only a full batch is written.
DeadlinePasses_NoFlush(p) ==
    /\ worker[p] = "getting"
    /\ deadline[p] = 0
    /\ deadline' = [deadline EXCEPT ![p] = FLUSH_INTERVAL]
    /\ UNCHANGED <<table, memory, worker, last, to_lock, lifespan, counts>>

\* The deadline passes while queue.get is waiting.
DeadlinePasses(p) ==
    /\ worker[p] = "getting"
    /\ deadline[p] = 0
    /\ UNCHANGED <<memory, last>>
    /\ IF Viewed(batch[p]) = {}
       THEN AfterFlush(p) /\ UNCHANGED to_lock
       ELSE BeginFlush(p) /\ UNCHANGED deadline
    /\ UNCHANGED <<table, lifespan, counts>>

\* Mutant: the statement without sorted().
NextKey_AnyOrder(p, e) == e \in to_lock[p]

\* The key the INSERT ... ON CONFLICT DO UPDATE statement is at: sorted(views.items()).
NextKey(p, e) == e \in to_lock[p] /\ \A f \in to_lock[p] : e <= f

\* It waits for a key that another transaction has inserted or updated.
LockKey(p) ==
    /\ worker[p] = "flushing"
    /\ \E e \in Events :
         /\ NextKey(p, e)
         /\ key_lock[e] = None
         /\ key_lock' = [key_lock EXCEPT ![e] = p]
         /\ to_lock' = [to_lock EXCEPT ![p] = @ \ {e}]
    /\ UNCHANGED <<event_views, memory, worker, last, deadline, lifespan, counts>>

\* Commit and rollback both give the keys back.
EndTransaction(p) ==
    /\ key_lock' = [e \in Events |-> IF key_lock[e] = p THEN None ELSE key_lock[e]]
    /\ to_lock' = [to_lock EXCEPT ![p] = {}]

\* A worker that is cancelled in a flush stays in its transaction until it has
\* rolled back.
InTransaction(p) == worker[p] \in {"flushing", "cancelling"}

\* The statement is through: only the commit is left.
KeysLocked(p) == InTransaction(p) /\ to_lock[p] = {}

\* Mutant: the batch is written twice.
CommitFlush_KeepBatch(p) ==
    /\ worker[p] = "flushing" /\ KeysLocked(p)
    /\ event_views' = Plus(event_views, batch[p])
    /\ pending' = [pending EXCEPT ![p] = 0]
    /\ EndTransaction(p)
    /\ UNCHANGED <<queue, batch, last>>
    /\ AfterFlush(p)
    /\ UNCHANGED <<lifespan, counts>>

\* The commit is acknowledged; the batch and its count start anew.
CommitFlush(p) ==
    /\ worker[p] = "flushing" /\ KeysLocked(p)
    /\ event_views' = Plus(event_views, batch[p])
    /\ batch' = [batch EXCEPT ![p] = NoViews]
    /\ pending' = [pending EXCEPT ![p] = 0]
    /\ EndTransaction(p)
    /\ UNCHANGED <<queue, last>>
    /\ AfterFlush(p)
    /\ UNCHANGED <<lifespan, counts>>

\* A transaction ends without an acknowledged commit; the lost COMMIT may have
\* taken effect.
Unacknowledged(p) ==
    /\ EndTransaction(p)
    /\ \/ UNCHANGED <<event_views, repeated>>
       \/ /\ KeysLocked(p)
          /\ event_views' = Plus(event_views, batch[p])
          /\ repeated' = [repeated EXCEPT ![p] = Plus(@, batch[p])]

\* _flush logs the exception and keeps the batch.
FlushFails(p) ==
    /\ worker[p] = "flushing"
    /\ failures < MaxFailures
    /\ failures' = failures + 1
    /\ Unacknowledged(p)
    /\ UNCHANGED <<memory, last>>
    /\ AfterFlush(p)
    /\ UNCHANGED <<lifespan, accepted>>

-----------------------------------------------------------------------------
(***************************************************************************)
(* The lifespan.  The server calls stop when its requests are over.        *)
(***************************************************************************)
BeginStop(p) ==
    /\ app[p] = "serving"
    /\ app' = [app EXCEPT ![p] = "signalling"]
    /\ stop_deadline' = [stop_deadline EXCEPT ![p] = SHUTDOWN_TIMEOUT]
    /\ UNCHANGED <<table, memory, run, counts>>

\* queue.put(None), which waits while the queue is full.
PutNone(p) ==
    /\ app[p] = "signalling"
    /\ Len(queue[p]) < QUEUE_MAXSIZE
    /\ queue' = [queue EXCEPT ![p] = Append(@, None)]
    /\ app' = [app EXCEPT ![p] = "joining"]
    /\ UNCHANGED <<table, batch, pending, run, stop_deadline, counts>>

\* stop awaits the worker, however it ends.
Join(p) ==
    /\ app[p] \in {"joining", "awaiting"}
    /\ worker[p] \in {"returned", "cancelled"}
    /\ app' = [app EXCEPT ![p] = "stopped"]
    /\ UNCHANGED <<table, memory, run, stop_deadline, counts>>

\* Mutant: the worker is waited for without a time-out.
StopTimesOut_Never(p) == FALSE /\ UNCHANGED vars

\* The time-out of stop: the worker is cancelled and awaited, now without limit.
\* It ends at once where it waits for a view; in a flush it must first get out of
\* the transaction, whose keys it holds until then.
StopTimesOut(p) ==
    /\ app[p] \in {"signalling", "joining"}
    /\ stop_deadline[p] = 0
    /\ worker[p] \in {"getting", "flushing"}
    /\ app' = [app EXCEPT ![p] = "awaiting"]
    /\ worker' = [worker EXCEPT ![p] = IF @ = "getting" THEN "cancelled" ELSE "cancelling"]
    /\ UNCHANGED <<table, memory, last, to_lock, deadline, stop_deadline, counts>>

\* The cancelled statement and its rollback are through, or it was too late for
\* them: CancelledError, which is no Exception, passes _flush and ends the worker.
CancelEnds(p) ==
    /\ worker[p] = "cancelling"
    /\ worker' = [worker EXCEPT ![p] = "cancelled"]
    /\ Unacknowledged(p)
    /\ UNCHANGED <<memory, last, deadline, lifespan, accepted, failures>>

\* The rollback fails: its exception takes the place of CancelledError, _flush
\* logs it like any other, and the worker runs on, with nobody to cancel it again.
CancelFails(p) ==
    /\ worker[p] = "cancelling"
    /\ failures < MaxFailures
    /\ failures' = failures + 1
    /\ EndTransaction(p)
    /\ UNCHANGED last
    /\ AfterFlush(p)
    /\ UNCHANGED <<event_views, memory, lifespan, accepted, repeated>>

\* The process dies, perhaps with its COMMIT on the way; what it had in memory
\* stays there, beyond reach.
Crash(p) ==
    /\ p \in MayCrash
    /\ app[p] \notin {"stopped", "crashed"}
    /\ app' = [app EXCEPT ![p] = "crashed"]
    /\ worker' = [worker EXCEPT ![p] = IF @ \in {"none", "returned"} THEN @ ELSE "cancelled"]
    /\ Unacknowledged(p)
    /\ UNCHANGED <<memory, last, deadline, stop_deadline, accepted, failures>>

-----------------------------------------------------------------------------
OneLess(n) == IF n = 0 THEN 0 ELSE n - 1

\* Time passes, until every clock has run out.
Tick ==
    /\ \E p \in Processes : app[p] \notin {"stopped", "crashed"} /\ deadline[p] + stop_deadline[p] > 0
    /\ deadline' = [p \in Processes |-> OneLess(deadline[p])]
    /\ stop_deadline' = [p \in Processes |-> OneLess(stop_deadline[p])]
    /\ UNCHANGED <<table, memory, worker, last, to_lock, app, counts>>

Rest ==
    /\ \A p \in Processes : app[p] \in {"stopped", "crashed"}
    /\ UNCHANGED vars

\* What the worker does by itself, and what it needs Postgres for.
Take(p) == GetView(p) \/ GetNone(p)
Collect(p) == Take(p) \/ DeadlinePasses(p)
Write(p) == LockKey(p) \/ CommitFlush(p)
LeaveFlush(p) == CancelEnds(p) \/ CancelFails(p)

stop(p) == PutNone(p) \/ Join(p) \/ StopTimesOut(p)

Next ==
    \/ \E p \in Processes :
         \/ start(p)
         \/ \E e \in Events : submit(p, e)
         \/ Collect(p) \/ Write(p) \/ FlushFails(p)
         \/ BeginStop(p) \/ stop(p) \/ LeaveFlush(p)
         \/ Crash(p)
    \/ Tick
    \/ Rest

Spec == Init /\ [][Next]_vars

\* The event loop runs what is ready, and the clock goes on.  queue.get does not
\* wait while the queue holds something, so deadlines cannot keep it from a view.
LoopFairness ==
    /\ WF_vars(Tick)
    /\ \A p \in Processes : WF_vars(Take(p)) /\ WF_vars(DeadlinePasses(p)) /\ WF_vars(stop(p))

\* Postgres may be silent for ever ...
FairSpec == Spec /\ LoopFairness

\* ... or only let go of the flushes that are cancelled ...
CancellationsEnd == \A p \in Processes : WF_vars(CancelEnds(p))

\* ... or answer every statement; only a bounded number fails.
PostgresAnswers == CancellationsEnd /\ \A p \in Processes : WF_vars(Write(p))

-----------------------------------------------------------------------------
Views == [Events -> Nat]
WorkerStates == {"none", "getting", "flushing", "cancelling", "returned", "cancelled"}
AppStates ==
    {"starting", "serving", "signalling", "joining", "awaiting", "stopped", "crashed"}

TypeOK ==
    /\ event_views \in Views
    /\ key_lock \in [Events -> Processes \cup {None}]
    /\ queue \in [Processes -> Seq(Events \cup {None})]
    /\ batch \in [Processes -> Views]
    /\ pending \in [Processes -> Nat]
    /\ worker \in [Processes -> WorkerStates]
    /\ last \in [Processes -> BOOLEAN]
    /\ to_lock \in [Processes -> SUBSET Events]
    /\ deadline \in [Processes -> Nat]
    /\ app \in [Processes -> AppStates]
    /\ stop_deadline \in [Processes -> Nat]
    /\ accepted \in [Processes -> Views]
    /\ repeated \in [Processes -> Views]
    /\ failures \in Nat

InQueue(p, e) == Cardinality({i \in DOMAIN queue[p] : queue[p][i] = e})

\* The views each process has accepted, or stored by a commit that only seemed to
\* fail; and those it still has to store.
Received(e) == [p \in Processes |-> accepted[p][e] + repeated[p][e]]
Waiting(e) == [p \in Processes |-> InQueue(p, e) + batch[p][e]]

\* No view is lost or made up on its way: each view received is in the table, in
\* the batch or in the queue.
ViewsAreConserved ==
    \A e \in Events : SumFunction(Received(e)) = event_views[e] + SumFunction(Waiting(e))

\* _pending, which decides when to flush and is reported as lost, is the number
\* of views in the batch.
PendingCountsTheBatch == \A p \in Processes : pending[p] = Total(batch[p])

NothingLeft(p) == queue[p] = <<>> /\ batch[p] = NoViews

\* Unless a flush has failed, a worker that has returned leaves nothing in the
\* queue or in the batch: the signal comes after every view, and is the end only
\* after what came before is written.
ReturnedWorkerLeavesNothing ==
    \A p \in Processes : worker[p] = "returned" /\ failures = 0 => NothingLeft(p)

\* "Sends the rest to the database and stops the worker", without conditions.
StopWritesTheRest ==
    \A p \in Processes : worker[p] = "returned" => NothingLeft(p)

WaitsFor(p, q) == \E e \in Events : NextKey(p, e) /\ key_lock[e] = q

\* sorted() keeps "two parallel flushes with overlapping events" from a deadlock:
\* no set of processes is such that each waits for a key another one holds.
NoFlushDeadlock ==
    \A S \in SUBSET Processes :
        S # {} => \E p \in S : \A q \in S : ~WaitsFor(p, q)

-----------------------------------------------------------------------------
(***************************************************************************)
(* The inductive invariant behind the safety properties.                   *)
(***************************************************************************)
\* Only a flush holds keys or is waiting for one.
KeysBelongToFlushes ==
    /\ \A e \in Events : key_lock[e] # None => InTransaction(key_lock[e])
    /\ \A p \in Processes : to_lock[p] # {} => InTransaction(p)

KeysInOrder ==
    \A p \in Processes : \A e, f \in Events :
        key_lock[e] = p /\ f \in to_lock[p] => e < f

\* The worker begins with start, and the signal is the last thing that ever goes
\* through the queue.
NoneComesLast ==
    \A p \in Processes :
        /\ app[p] = "starting" => worker[p] = "none"
        /\ app[p] \in {"starting", "serving", "signalling"} =>
             ~last[p] /\ \A i \in 1 .. Len(queue[p]) : queue[p][i] # None
        /\ \A i \in 1 .. Len(queue[p]) : queue[p][i] = None => i = Len(queue[p])
        /\ last[p] => queue[p] = <<>>
        /\ worker[p] = "returned" => last[p]

\* Nothing follows the signal through the queue, and flushes lock their keys in
\* one order: what stop and parallel flushes rely on.
IInv ==
    /\ TypeOK
    /\ KeysBelongToFlushes
    /\ KeysInOrder
    /\ NoneComesLast

-----------------------------------------------------------------------------
\* As long as Postgres answers, a view in the batch is written, or its process
\* ends: it is never left to wait for further views.
EveryViewIsWritten ==
    PostgresAnswers =>
        \A p \in Processes :
            pending[p] > 0 ~> pending[p] = 0 \/ app[p] \in {"stopped", "crashed"}

Ended(p) == app[p] \in {"stopped", "crashed"}

\* stop has cancelled the worker and awaits it, but the worker runs on ...
CancellationLost(p) == app[p] = "awaiting" /\ worker[p] \in {"getting", "flushing"}

\* ... and will never be told to stop: the time-out came before the signal.
NeverSignalled(p) ==
    /\ CancellationLost(p)
    /\ ~last[p] /\ \A i \in DOMAIN queue[p] : queue[p][i] # None

\* How far stop can be relied on to end, so that the shutdown goes on.  It waits
\* for the worker it has cancelled without a time-out of its own.  If a cancelled
\* flush comes to an end, then stop ends even if no other statement is ever
\* answered, unless a failing rollback swallowed the cancellation.  If Postgres
\* answers every statement, then only a swallowed cancellation that stands in for
\* the signal, which had found no room in the queue, keeps stop from ending.
EveryStopEnds ==
    /\ CancellationsEnd =>
         \A p \in Processes : app[p] = "signalling" ~> Ended(p) \/ CancellationLost(p)
    /\ PostgresAnswers =>
         \A p \in Processes : app[p] = "signalling" ~> Ended(p) \/ NeverSignalled(p)
=============================================================================
