------------------------------ MODULE Seeding ------------------------------
(***************************************************************************)
(* add_event_data_to_db, the first thing each server process does: unless   *)
(* the database holds a location, insert a location, its seats, an event    *)
(* and the seats of the event, all in one transaction.  Nothing else fills  *)
(* these tables: create_event has no body.                                 *)
(*                                                                         *)
(* The processes of a deployment start side by side.  A transaction sees    *)
(* the rows others have committed (READ COMMITTED), and no constraint keeps *)
(* two of them from inserting the data under ids of their own.             *)
(***************************************************************************)
EXTENDS Integers, Sequences

CONSTANTS
    Processes,            \* the processes of a deployment
    Earlier               \* an earlier deployment

VARIABLES
    boot,                 \* where each process stands
    flushed,              \* tables it has sent rows to in its open transaction
    stored,               \* tables that hold committed rows of each
    seen                  \* whose locations a process counted

vars == <<boot, flushed, stored, seen>>

Sources == Processes \cup {Earlier}

\* In the order of the calls to flush; the commit sends the last.
Tables == <<"locations", "seats", "events", "event_seats">>

\* The rows of s by table.
Holds(s, table) == \E i \in 1 .. stored[s] : Tables[i] = table

Init ==
    /\ boot = [p \in Processes |-> "starting"]
    /\ flushed = [p \in Processes |-> 0]
    /\ \E n \in {0, Len(Tables)} : stored = [s \in Sources |-> IF s = Earlier THEN n ELSE 0]
    /\ seen = [p \in Processes |-> {}]

\* Mutant: the count is not looked at.
DataExist_Unchecked(p) == FALSE

\* if await db.scalar(select(func.count(Location.id))).
DataExist(p) == seen'[p] # {}

\* The count, by which the process either goes on or begins to insert.
CountLocations(p) ==
    /\ boot[p] = "starting"
    /\ seen' = [seen EXCEPT ![p] = {s \in Sources : Holds(s, "locations")}]
    /\ boot' = [boot EXCEPT ![p] = IF DataExist(p) THEN "seeded" ELSE "inserting"]
    /\ UNCHANGED <<flushed, stored>>

\* Mutant: a transaction for each table.
FlushRows_Committed(p) ==
    /\ boot[p] = "inserting"
    /\ flushed[p] < Len(Tables) - 1
    /\ flushed' = [flushed EXCEPT ![p] = @ + 1]
    /\ stored' = [stored EXCEPT ![p] = flushed'[p]]
    /\ UNCHANGED <<boot, seen>>

\* db.flush: ids are needed for the rows of the next table.
FlushRows(p) ==
    /\ boot[p] = "inserting"
    /\ flushed[p] < Len(Tables) - 1
    /\ flushed' = [flushed EXCEPT ![p] = @ + 1]
    /\ UNCHANGED <<boot, stored, seen>>

\* The transaction sends the rest and commits.
Commit(p) ==
    /\ boot[p] = "inserting"
    /\ flushed[p] = Len(Tables) - 1
    /\ stored' = [stored EXCEPT ![p] = Len(Tables)]

CommitSeeding(p) ==
    /\ Commit(p)
    /\ boot' = [boot EXCEPT ![p] = "seeded"]
    /\ UNCHANGED <<flushed, seen>>

\* An exception in the transaction, Redis not answering the ping after it, or
\* death: the process never serves.  A COMMIT on its way may take effect.
StartFails(p) ==
    /\ boot[p] # "failed"
    /\ UNCHANGED stored \/ Commit(p)
    /\ boot' = [boot EXCEPT ![p] = "failed"]
    /\ UNCHANGED <<flushed, seen>>

Next ==
    \E p \in Processes :
        CountLocations(p) \/ FlushRows(p) \/ CommitSeeding(p) \/ StartFails(p)

Spec == Init /\ [][Next]_vars

-----------------------------------------------------------------------------
TypeOK ==
    /\ boot \in [Processes -> {"starting", "inserting", "seeded", "failed"}]
    /\ flushed \in [Processes -> 0 .. Len(Tables) - 1]
    /\ stored \in [Sources -> 0 .. Len(Tables)]
    /\ seen \in [Processes -> SUBSET Sources]

\* Locations are all that is counted, yet they stand for the rest: a process that
\* goes on finds an event with its seats, whoever has failed half-way before.
ServesCompleteData ==
    \A p \in Processes : boot[p] = "seeded" =>
        \E s \in Sources : stored[s] = Len(Tables)

\* Only processes that start side by side seed twice: neither of two that did had
\* the other's data before it when it counted, nor those of an earlier deployment.
OnlyRacingStartsSeedTwice ==
    \A p \in Processes : stored[p] > 0 =>
        /\ stored[Earlier] = 0
        /\ \A q \in Processes : stored[q] > 0 => q \notin seen[p]

\* A transaction stores all of its rows or none, and only if it counted none.
AllOrNothing ==
    /\ \A s \in Sources : stored[s] \in {0, Len(Tables)}
    /\ \A p \in Processes : \A s \in seen[p] : stored[s] = Len(Tables)

InsertsOnlyUnlessSeen ==
    \A p \in Processes :
        /\ boot[p] = "starting" => stored[p] = 0
        /\ boot[p] = "inserting" \/ stored[p] > 0 => seen[p] = {} /\ stored[Earlier] = 0
        /\ boot[p] = "seeded" => stored[p] > 0 \/ seen[p] # {}
=============================================================================
