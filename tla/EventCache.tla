----------------------------- MODULE EventCache -----------------------------
(***************************************************************************)
(* EventCache.get_or_load and EventService.get_event for one event id: the *)
(* value in Redis, the lock that lets one request at a time load it, and    *)
(* the expiry of both.                                                     *)
(*                                                                         *)
(* A member of Readers is a slot for one GET /events/{event_id} after the   *)
(* other, of any number of server processes.  Time is discrete: a tick     *)
(* takes one off every time to live and every remaining wait.  A row of    *)
(* events may appear (another process inserts it); nothing in the code     *)
(* changes or deletes one.                                                 *)
(***************************************************************************)
EXTENDS Integers, FiniteSets

CONSTANTS
    Readers,              \* slots for concurrent requests
    LOCK_TTL,             \* REDIS_EVENT_LOCK_TTL_SECONDS
    LOCK_WAIT,            \* REDIS_EVENT_LOCK_WAIT_SECONDS
    CACHE_TTL,            \* REDIS_EVENT_CACHE_TTL_SECONDS
    NOT_FOUND_TTL,        \* REDIS_EVENT_NOT_FOUND_TTL_SECONDS
    MaxHold,              \* the longest time from acquiring the lock to releasing it
    NULL                  \* no such key

ASSUME EventCacheAssumption ==
    /\ LOCK_TTL \in Nat \ {0} /\ LOCK_WAIT \in Nat
    /\ CACHE_TTL \in Nat \ {0} /\ NOT_FOUND_TTL \in Nat \ {0}
    /\ MaxHold \in Nat

\* No key is a key with some value or token.
ASSUME NullAssumption ==
    /\ NULL \notin [value : {"event", "not_found", "corrupt"}, ttl : Nat]
    /\ NULL \notin [owner : Readers, ttl : Nat]

VARIABLES
    in_db,                \* whether the row of events exists
    age,                  \* ticks since it was inserted, counted up to MaxAge
    cached,               \* event:v1:{id}: its value and time to live, or NULL
    lock,                 \* lock:event:v1:{id}: its token and time to live, or NULL
    pc,                   \* where each request stands
    wait,                 \* what is left of its blocking_timeout
    held,                 \* ticks since it acquired the lock
    result                \* the value in hand, or the exception in flight

row == <<in_db, age>>
keys == <<cached, lock>>
vars == <<row, keys, pc, wait, held, result>>

\* The holders of the lock, as far as they know.
Critical == {"rechecking", "loading", "storing", "releasing"}
PCs == {"idle", "waiting", "answered"} \cup Critical

\* EventRead, None, EventUnavailableError, any other exception.
Results == {"none", "event", "not_found", "unavailable", "error"}

\* _ttl_with_jitter: int(base_ttl * REDIS_EVENT_CACHE_TTL_JITTER_RATIO) is a fifth.
Longest(base) == base + (base \div 5)
TtlWithJitter(base) == base .. Longest(base)

\* No request may still be told "not found" this long after the insertion.
MaxAge == MaxHold + Longest(NOT_FOUND_TTL)

\* A key as it was written some ticks ago.
Key(value, ttl) == [value |-> value, ttl |-> ttl]
Lock(owner, ttl) == [owner |-> owner, ttl |-> ttl]

\* What _get_cached reports as found: a corrupted payload is a miss.
Found == cached # NULL /\ cached.value \in {"event", "not_found"}

At(r, place) == pc[r] = place
Goto(r, place) == pc' = [pc EXCEPT ![r] = place]

Answer(r, value) ==
    /\ Goto(r, "answered")
    /\ result' = [result EXCEPT ![r] = value]

\* The lock is given back with this value to return or exception to raise.
Leave(r, value) ==
    /\ Goto(r, "releasing")
    /\ result' = [result EXCEPT ![r] = value]

-----------------------------------------------------------------------------
\* Another version of the application may have left a payload that this one
\* cannot parse.
Init ==
    /\ in_db \in BOOLEAN
    /\ age = 0
    /\ cached \in {NULL, Key("corrupt", CACHE_TTL)}
    /\ lock = NULL
    /\ pc = [r \in Readers |-> "idle"]
    /\ wait = [r \in Readers |-> 0]
    /\ held = [r \in Readers |-> 0]
    /\ result = [r \in Readers |-> "none"]

\* get_event is called; the first _get_cached.
Read(r) ==
    /\ At(r, "idle")
    /\ IF Found
       THEN Answer(r, cached.value) /\ UNCHANGED wait
       ELSE /\ Goto(r, "waiting")
            /\ wait' = [wait EXCEPT ![r] = LOCK_WAIT]
            /\ UNCHANGED result
    /\ UNCHANGED <<row, keys, held>>

\* SET NX PX under a fresh token.
Acquire(r) ==
    /\ At(r, "waiting")
    /\ lock = NULL
    /\ lock' = Lock(r, LOCK_TTL)
    /\ held' = [held EXCEPT ![r] = 0]
    /\ Goto(r, "rechecking")
    /\ UNCHANGED <<row, cached, wait, result>>

\* Mutant: a request that did not get the lock loads all the same.
GiveUp_LoadAnyway(r) ==
    /\ At(r, "waiting")
    /\ lock # NULL
    /\ wait[r] = 0
    /\ held' = [held EXCEPT ![r] = 0]
    /\ Goto(r, "rechecking")
    /\ UNCHANGED <<row, keys, wait, result>>

\* Mutant: no blocking_timeout.
GiveUp_Never(r) == FALSE /\ UNCHANGED vars

\* blocking_timeout has run out with the lock still taken: a 503.
GiveUp(r) ==
    /\ At(r, "waiting")
    /\ lock # NULL
    /\ wait[r] = 0
    /\ Answer(r, "unavailable")
    /\ UNCHANGED <<row, keys, wait, held>>

\* Mutant: the cache is not read again under the lock.
Recheck_Skipped(r) ==
    /\ At(r, "rechecking")
    /\ Goto(r, "loading")
    /\ UNCHANGED <<row, keys, wait, held, result>>

\* The second _get_cached, under the lock.
Recheck(r) ==
    /\ At(r, "rechecking")
    /\ IF Found THEN Leave(r, cached.value) ELSE Goto(r, "loading") /\ UNCHANGED result
    /\ UNCHANGED <<row, keys, wait, held>>

\* EventService._load_from_db: one SELECT.
Load(r) ==
    /\ At(r, "loading")
    /\ Goto(r, "storing")
    /\ result' = [result EXCEPT ![r] = IF in_db THEN "event" ELSE "not_found"]
    /\ UNCHANGED <<row, keys, wait, held>>

\* Mutant: one time to live for every value.
StoredTtl_SameForAbsent(value) == TtlWithJitter(CACHE_TTL)

StoredTtl(value) == TtlWithJitter(IF value = "not_found" THEN NOT_FOUND_TTL ELSE CACHE_TTL)

\* _set.
StoreValue(r) == \E ttl \in StoredTtl(result[r]) : cached' = Key(result[r], ttl)

Store(r) ==
    /\ At(r, "storing")
    /\ StoreValue(r)
    /\ Goto(r, "releasing")
    /\ UNCHANGED <<row, lock, wait, held, result>>

\* Mutant: DEL of the lock key without comparing the token.
DeleteLock_AnyOwner(r) == lock' = NULL

\* lock.release deletes the key only if it still holds this request's token;
\* LockNotOwnedError is suppressed.
DeleteLock(r) == lock' = IF lock # NULL /\ lock.owner = r THEN NULL ELSE lock

Release(r) ==
    /\ At(r, "releasing")
    /\ DeleteLock(r)
    /\ Goto(r, "answered")
    /\ UNCHANGED <<row, cached, wait, held, result>>

\* The response is out and the slot free for another request.
Return(r) ==
    /\ At(r, "answered")
    /\ Goto(r, "idle")
    /\ wait' = [wait EXCEPT ![r] = 0]
    /\ held' = [held EXCEPT ![r] = 0]
    /\ result' = [result EXCEPT ![r] = "none"]
    /\ UNCHANGED <<row, keys>>

-----------------------------------------------------------------------------
(***************************************************************************)
(* Failures.  A command to Redis that fails may have taken effect.         *)
(***************************************************************************)
ReadFails(r) ==
    /\ At(r, "idle")
    /\ Answer(r, "error")
    /\ UNCHANGED <<row, keys, wait, held>>

\* acquire raises before the try block: nobody releases a lock it has taken.  Or
\* the library repeats a SET whose reply it lost, and finds its own key in the way.
AcquireFails(r) ==
    /\ At(r, "waiting")
    /\ lock' \in IF lock = NULL THEN {NULL, Lock(r, LOCK_TTL)} ELSE {lock}
    /\ Answer(r, "error") \/ UNCHANGED <<pc, result>>
    /\ UNCHANGED <<row, cached, wait, held>>

RecheckOrLoadFails(r) ==
    /\ pc[r] \in {"rechecking", "loading"}
    /\ Leave(r, "error")
    /\ UNCHANGED <<row, keys, wait, held>>

StoreFails(r) ==
    /\ At(r, "storing")
    /\ UNCHANGED cached \/ StoreValue(r)
    /\ Leave(r, "error")
    /\ UNCHANGED <<row, lock, wait, held>>

ReleaseFails(r) ==
    /\ At(r, "releasing")
    /\ UNCHANGED lock \/ DeleteLock(r)
    /\ Answer(r, "error")
    /\ UNCHANGED <<row, cached, wait, held>>

\* The process serving the request dies; its keys stay.
Crash(r) ==
    /\ pc[r] \notin {"idle", "answered"}
    /\ Goto(r, "idle")
    /\ wait' = [wait EXCEPT ![r] = 0]
    /\ held' = [held EXCEPT ![r] = 0]
    /\ result' = [result EXCEPT ![r] = "none"]
    /\ UNCHANGED <<row, keys>>

-----------------------------------------------------------------------------
EventCreated ==
    /\ ~in_db
    /\ in_db' = TRUE
    /\ UNCHANGED <<age, keys, pc, wait, held, result>>

\* A key with a tick less to live, or none.
OneTickLess(key) ==
    IF key = NULL \/ key.ttl <= 1 THEN NULL ELSE [key EXCEPT !.ttl = @ - 1]

\* MaxHold is what the time spent under the lock is assumed to be bounded by.
Tick ==
    /\ \A r \in Readers : pc[r] \in Critical => held[r] < MaxHold
    /\ age' = IF in_db /\ age <= MaxAge THEN age + 1 ELSE age
    /\ cached' = OneTickLess(cached)
    /\ lock' = OneTickLess(lock)
    /\ wait' = [r \in Readers |-> IF wait[r] = 0 THEN 0 ELSE wait[r] - 1]
    /\ held' = [r \in Readers |-> IF pc[r] \in Critical THEN held[r] + 1 ELSE held[r]]
    /\ UNCHANGED <<in_db, pc, result>>

get_or_load(r) ==
    \/ Acquire(r) \/ GiveUp(r) \/ Recheck(r) \/ Load(r) \/ Store(r)
    \/ Release(r) \/ Return(r)

Failure(r) ==
    \/ ReadFails(r) \/ AcquireFails(r) \/ RecheckOrLoadFails(r)
    \/ StoreFails(r) \/ ReleaseFails(r) \/ Crash(r)

Next ==
    \/ \E r \in Readers : Read(r) \/ get_or_load(r) \/ Failure(r)
    \/ EventCreated
    \/ Tick

Spec == Init /\ [][Next]_vars

\* Whoever polls the lock, Redis and Postgres go on answering, and so does the
\* clock.  No request is owed to the server, no failure and no free lock to
\* anyone.
FairSpec == Spec /\ WF_vars(Tick) /\ \A r \in Readers : WF_vars(get_or_load(r))

-----------------------------------------------------------------------------
TypeOK ==
    /\ in_db \in BOOLEAN
    /\ age \in Nat
    /\ \/ cached = NULL
       \/ cached \in [value : {"event", "not_found", "corrupt"}, ttl : Nat \ {0}]
    /\ lock = NULL \/ lock \in [owner : Readers, ttl : Nat \ {0}]
    /\ pc \in [Readers -> PCs]
    /\ wait \in [Readers -> Nat]
    /\ held \in [Readers -> Nat]
    /\ result \in [Readers -> Results]

Holders == {r \in Readers : pc[r] \in Critical}

\* "With protection from simultaneous loading": one request at a time is
\* between its look at the database and its write to the cache.
LoadsAreExclusive ==
    \A r, s \in Readers :
        pc[r] \in {"loading", "storing"} /\ pc[s] \in {"loading", "storing"} => r = s

\* However slow the loads are, two requests under the lock took it at least
\* LOCK_TTL apart: the late release of an expired lock lets nobody else in.
LoadersAreApart ==
    \A r, s \in Holders :
        r # s => held[r] >= held[s] + LOCK_TTL \/ held[s] >= held[r] + LOCK_TTL

ValueKept ==
    Found => \/ cached' = NULL
             \/ cached'.value = cached.value /\ cached'.ttl <= cached.ttl

\* Single flight: a value is loaded and stored once, and no load that started
\* before overwrites it until it expires - in particular never an event by an
\* older "not found".
CachedValueIsKept == [][ValueKept]_vars

\* A cached absence outlives the insertion of the event by no more than its own
\* time to live and one load under way: "the shorter it is, the sooner a newly
\* created event appears".
AbsenceIsForgotten ==
    in_db /\ cached # NULL /\ cached.value = "not_found" => age + cached.ttl <= MaxAge

-----------------------------------------------------------------------------
(***************************************************************************)
(* The inductive invariant behind the safety properties.                   *)
(***************************************************************************)
HoldIsBounded == \A r \in Holders : held[r] <= MaxHold

\* Until LOCK_TTL has passed, the lock still is this holder's.
LockIsOwned ==
    \A r \in Holders : held[r] < LOCK_TTL => lock = Lock(r, LOCK_TTL - held[r])

\* A loaded value is on its way to the cache; an absence in hand was true less
\* than held ticks ago.
LoadedValueIsRecent ==
    \A r \in Readers : At(r, "storing") =>
        /\ result[r] \in {"event", "not_found"}
        /\ result[r] = "not_found" => age <= held[r]

CachedAbsenceIsRecent ==
    /\ in_db \/ age = 0
    /\ cached # NULL /\ cached.value = "not_found" => age + cached.ttl <= MaxAge

\* An event that is cached, or that a request is answered with, has a row: what
\* the route relies on when it counts a view.
CachedEventExists ==
    /\ cached # NULL /\ cached.value = "event" => in_db
    /\ \A r \in Readers : result[r] = "event" => in_db

\* Locks and values with the times at which they were taken and loaded: what a
\* request that finds its lock expired under it still relies on.
IInv ==
    /\ TypeOK
    /\ HoldIsBounded
    /\ LockIsOwned
    /\ LoadersAreApart
    /\ LoadedValueIsRecent
    /\ CachedAbsenceIsRecent
    /\ CachedEventExists

-----------------------------------------------------------------------------
\* A request ends: with the value, a 404, a 503 or an error.
EveryRequestIsAnswered == \A r \in Readers : pc[r] # "idle" ~> pc[r] = "idle"
=============================================================================
