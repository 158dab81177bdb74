------------------------------ MODULE ViewPath ------------------------------
(***************************************************************************)
(* The views of one event from the start of the servers to the table:       *)
(* Seeding for the rows each server finds or inserts before it serves,       *)
(* RecordView for the requests and their dedupe keys, and EventViews for the *)
(* consolidator of the process each request comes to.                       *)
(*                                                                         *)
(* event_views.event_id refers to events: a view of an event without a row  *)
(* would make a flush fail, and fail again with all that is added to it.    *)
(***************************************************************************)
EXTENDS RecordView, Functions, Sequences

CONSTANTS
    Event,                \* the id of the event
    Processes, Earlier,
    Inserter,             \* the one of these that inserts the event, if it inserts
    ProcessOf,            \* the process each request comes to
    QUEUE_MAXSIZE, BATCH_SIZE, FLUSH_INTERVAL, SHUTDOWN_TIMEOUT, MaxFailures, MayCrash

ASSUME ViewPathAssumption ==
    /\ ProcessOf \in [Requests -> Processes]
    /\ Earlier \notin Processes
    /\ Inserter \in Processes \cup {Earlier}
    /\ IsFiniteSet(Clients)

VARIABLES
    boot, flushed, stored, seen,
    event_views, key_lock, queue, batch, pending, worker, last, to_lock, deadline,
    app, stop_deadline, accepted, repeated, failures

S == INSTANCE Seeding
C == INSTANCE EventViews WITH Events <- {Event}, MaxViews <- Cardinality(Requests)

\* Its constants are such as EventViews assumes.
ASSUME ConsolidatorsAssumption == C!EventViewsAssumption

seeding == <<boot, flushed, stored, seen>>
consolidators == <<event_views, key_lock, queue, batch, pending, worker, last, to_lock,
                   deadline, app, stop_deadline, accepted, repeated, failures>>
pathVars == <<vars, seeding, consolidators>>

ViewPathInit == Init /\ S!Init /\ C!Init

\* Nothing deletes the row.
EventExists == S!Holds(Inserter, "events")

-----------------------------------------------------------------------------
(***************************************************************************)
(* lifespan up to its yield.                                               *)
(***************************************************************************)
Seed(p) ==
    /\ app[p] = "starting"
    /\ S!CountLocations(p) \/ S!FlushRows(p) \/ S!CommitSeeding(p)
    /\ UNCHANGED <<vars, consolidators>>

Start(p) ==
    /\ boot[p] = "seeded"
    /\ C!start(p)
    /\ UNCHANGED <<vars, seeding>>

StartFails(p) ==
    /\ app[p] = "starting"
    /\ S!StartFails(p)
    /\ C!Crash(p)
    /\ UNCHANGED vars

-----------------------------------------------------------------------------
(***************************************************************************)
(* The route: get_event, which returns an event only if there is one, then  *)
(* record.                                                                 *)
(***************************************************************************)
Serving(r) == app[ProcessOf[r]] = "serving"

\* Mutant: the view is recorded before the event is looked for.
Fetch_RecordFirst(r) ==
    /\ Serving(r)
    /\ GetEvent(r)
    /\ UNCHANGED <<seeding, consolidators>>

Fetch(r) ==
    /\ Serving(r)
    /\ GetEventFails(r) \/ (EventExists /\ GetEvent(r))
    /\ UNCHANGED <<seeding, consolidators>>

Mark(r) ==
    /\ Serving(r)
    /\ MarkViewed(r) \/ MarkViewedFails(r)
    /\ UNCHANGED <<seeding, consolidators>>

\* submit is called for a first view only, and drops it only if the queue is full.
SubmitView(r) ==
    /\ Serving(r)
    /\ Submit(r)
    /\ IF counted' # counted
       THEN C!submit(ProcessOf[r], Event)
       ELSE /\ first[r] => Len(queue[ProcessOf[r]]) = QUEUE_MAXSIZE
            /\ UNCHANGED consolidators
    /\ UNCHANGED seeding

\* The requests of a process that has died are gone.
Lose(r) ==
    /\ app[ProcessOf[r]] = "crashed"
    /\ Crash(r)
    /\ UNCHANGED <<seeding, consolidators>>

-----------------------------------------------------------------------------
(***************************************************************************)
(* The consolidators.                                                      *)
(***************************************************************************)
\* The statement needs the row of events that event_views.event_id refers to.
CommitFlush(p) == EventExists /\ C!CommitFlush(p)

\* Mutant: the server ends its lifespan under its requests.
BeginStop_AtOnce(p) == C!BeginStop(p)

\* The server ends its lifespan when its requests are over.
BeginStop(p) ==
    /\ \A r \in Requests : ProcessOf[r] = p => pc[r] \in {"start", "answered"}
    /\ C!BeginStop(p)

Consolidate(p) ==
    /\ app[p] # "starting"
    /\ \/ C!Collect(p) \/ C!LockKey(p) \/ CommitFlush(p) \/ C!FlushFails(p)
       \/ BeginStop(p) \/ C!stop(p) \/ C!LeaveFlush(p)
       \/ C!Crash(p)
    /\ UNCHANGED <<vars, seeding>>

\* Windows are long and flushes frequent: either clock may tick alone.
PathTick ==
    \/ Tick /\ UNCHANGED <<seeding, consolidators>>
    \/ C!Tick /\ UNCHANGED <<vars, seeding>>

ViewPathNext ==
    \/ \E p \in Processes : Seed(p) \/ Start(p) \/ StartFails(p) \/ Consolidate(p)
    \/ \E r \in Requests : Fetch(r) \/ Mark(r) \/ SubmitView(r) \/ Lose(r)
    \/ PathTick
    \/ C!Rest /\ UNCHANGED <<vars, seeding>>

ViewPathSpec == ViewPathInit /\ [][ViewPathNext]_pathVars

-----------------------------------------------------------------------------
ServesCompleteData == S!ServesCompleteData
OnlyRacingStartsSeedTwice == S!OnlyRacingStartsSeedTwice

WindowsOpened == SumFunction(opened)
RepeatedViews == SumFunction([p \in Processes |-> repeated[p][Event]])

\* The number an organizer reads is backed by clients: never more than one view
\* for each window one of them opened, but for a commit that was repeated - and,
\* once every server is shut down and nothing went wrong on the way, exactly one.
ViewsAreWindows ==
    /\ event_views[Event] <= WindowsOpened + RepeatedViews
    /\ /\ lapses = 0 /\ failures = 0
       /\ \A p \in Processes : app[p] = "stopped" /\ worker[p] = "returned"
       => event_views[Event] = WindowsOpened

\* What waits to be written can be: its event has a row, so no flush fails, again
\* and again with all that comes after it, on the foreign key.
NoFlushIsPoisoned ==
    ~EventExists => \A p \in Processes :
        pending[p] = 0 /\ \A i \in 1 .. Len(queue[p]) : queue[p][i] = None
=============================================================================
