----------------------------- MODULE RecordView -----------------------------
(***************************************************************************)
(* The route GET /events/{event_id} past get_event: EventViewsService.record *)
(* counts a view once in a window of time for each client address, by a key *)
(* in Redis that the first view of the window sets.                        *)
(*                                                                         *)
(* One event; a member of Requests is one GET for it, to any process.       *)
(* EventCache has what get_event does before, EventViews what becomes of a  *)
(* submitted view.                                                         *)
(***************************************************************************)
EXTENDS Integers, FiniteSets

CONSTANTS
    Requests,             \* the requests for the event
    Clients,              \* their addresses
    ClientOf,             \* request.client.host of each, or None
    DEDUPE_TTL,           \* REDIS_EVENT_VIEW_DEDUPE_TTL_SECONDS, in ticks
    MaxTime,              \* the bound of the clock
    None                  \* no address

ASSUME RecordViewAssumption ==
    /\ IsFiniteSet(Requests)
    /\ None \notin Clients
    /\ ClientOf \in [Requests -> Clients \cup {None}]
    /\ DEDUPE_TTL \in Nat \ {0}
    /\ MaxTime \in Nat

VARIABLES
    now,                  \* the time
    key,                  \* view:event:v1:{event_id}:{ip}: ticks left to live, 0 for no key
    pc,                   \* where each request stands
    first,                \* what mark_viewed returns to it
    counted,              \* views submitted, by address
    opened,               \* windows opened, by address
    opened_at,            \* when the last one was
    lapses                \* failures, deaths and full queues so far

windows == <<key, opened, opened_at>>
vars == <<now, windows, pc, first, counted, lapses>>

PCs == {"start", "recording", "marked", "answered"}

At(r, place) == pc[r] = place
Goto(r, place) == pc' = [pc EXCEPT ![r] = place]

Init ==
    /\ now = 0
    /\ key = [c \in Clients |-> 0]
    /\ pc = [r \in Requests |-> "start"]
    /\ first = [r \in Requests |-> FALSE]
    /\ counted = [c \in Clients |-> 0]
    /\ opened = [c \in Clients |-> 0]
    /\ opened_at = [c \in Clients |-> 0]
    /\ lapses = 0

\* get_event raises a 404, a 503 or another error: nothing is recorded.
GetEventFails(r) ==
    /\ At(r, "start")
    /\ Goto(r, "answered")
    /\ UNCHANGED <<now, windows, first, counted, lapses>>

\* get_event returns, and the route calls record if it knows the address.
GetEvent(r) ==
    /\ At(r, "start")
    /\ Goto(r, IF ClientOf[r] = None THEN "answered" ELSE "recording")
    /\ UNCHANGED <<now, windows, first, counted, lapses>>

\* Mutant: SET without NX, the key looked up before.
SetKey_Sliding(c) ==
    /\ key' = [key EXCEPT ![c] = DEDUPE_TTL]
    /\ IF key[c] = 0
       THEN /\ opened' = [opened EXCEPT ![c] = @ + 1]
            /\ opened_at' = [opened_at EXCEPT ![c] = now]
       ELSE UNCHANGED <<opened, opened_at>>

\* Redis executes SET NX EX: an existing key keeps its time to live.
SetKey(c) ==
    IF key[c] = 0
    THEN /\ key' = [key EXCEPT ![c] = DEDUPE_TTL]
         /\ opened' = [opened EXCEPT ![c] = @ + 1]
         /\ opened_at' = [opened_at EXCEPT ![c] = now]
    ELSE UNCHANGED windows

\* Mutant: the reply itself, not bool() of it; it is None for an existing key.
IsFirst_Raw(c) == IF key[c] = 0 THEN TRUE ELSE None

\* Mutant: every view is the first.
IsFirst_Always(c) == TRUE

\* bool(prev_value): only the request that has set the key is told so.
IsFirst(c) == key[c] = 0

\* mark_viewed; the reply is on its way.
MarkViewed(r) ==
    /\ At(r, "recording")
    /\ SetKey(ClientOf[r])
    /\ first' = [first EXCEPT ![r] = IsFirst(ClientOf[r])]
    /\ Goto(r, "marked")
    /\ UNCHANGED <<now, counted, lapses>>

\* The SET raises, with or without effect, or the library repeats one whose reply
\* it lost and finds its own key: no view, and the event is returned all the same.
MarkViewedFails(r) ==
    /\ At(r, "recording")
    /\ UNCHANGED windows \/ SetKey(ClientOf[r])
    /\ Goto(r, "answered")
    /\ lapses' = lapses + 1
    /\ UNCHANGED <<now, first, counted>>

\* The reply arrives: submit queues a first view, unless the queue is full.
Submit(r) ==
    /\ At(r, "marked")
    /\ IF first[r]
       THEN \/ counted' = [counted EXCEPT ![ClientOf[r]] = @ + 1] /\ UNCHANGED lapses
            \/ lapses' = lapses + 1 /\ UNCHANGED counted
       ELSE UNCHANGED <<counted, lapses>>
    /\ Goto(r, "answered")
    /\ UNCHANGED <<now, windows, first>>

record(r) == MarkViewed(r) \/ MarkViewedFails(r) \/ Submit(r)

\* The process that serves the request dies; the key stays.
Crash(r) ==
    /\ pc[r] \in {"start", "recording", "marked"}
    /\ Goto(r, "answered")
    /\ lapses' = lapses + 1
    /\ UNCHANGED <<now, windows, first, counted>>

OneTickLess(ttl) == IF ttl = 0 THEN 0 ELSE ttl - 1

Tick ==
    /\ now < MaxTime
    /\ now' = now + 1
    /\ key' = [c \in Clients |-> OneTickLess(key[c])]
    /\ UNCHANGED <<opened, opened_at, pc, first, counted, lapses>>

Next ==
    \/ \E r \in Requests : GetEventFails(r) \/ GetEvent(r) \/ record(r) \/ Crash(r)
    \/ Tick

Spec == Init /\ [][Next]_vars

-----------------------------------------------------------------------------
TypeOK ==
    /\ now \in Nat
    /\ key \in [Clients -> 0 .. DEDUPE_TTL]
    /\ pc \in [Requests -> PCs]
    /\ first \in [Requests -> BOOLEAN]
    /\ counted \in [Clients -> Nat]
    /\ opened \in [Clients -> Nat]
    /\ opened_at \in [Clients -> Nat]
    /\ lapses \in Nat

\* The requests of client c whose view opened a window and is not submitted yet.
OnTheWay(c) == {r \in Requests : ClientOf[r] = c /\ At(r, "marked") /\ first[r]}

\* However the requests of a client interleave, in whatever processes, each
\* window counts one view of it; none only after a failed SET, a death or a
\* full queue, whose key keeps later views out.
OneViewPerWindow ==
    \A c \in Clients :
        /\ counted[c] + Cardinality(OnTheWay(c)) <= opened[c]
        /\ lapses = 0 => counted[c] + Cardinality(OnTheWay(c)) = opened[c]

\* "The window is fixed, it runs from the first view": however often a client
\* comes back in between, its key is gone DEDUPE_TTL after the view that set it.
WindowIsFixed ==
    \A c \in Clients : opened[c] > 0 =>
        IF key[c] > 0 THEN key[c] = opened_at[c] + DEDUPE_TTL - now
                      ELSE now >= opened_at[c] + DEDUPE_TTL

\* So a client is counted once more at most for each DEDUPE_TTL that has passed.
ViewsTakeTime ==
    \A c \in Clients : counted[c] > 0 => (counted[c] - 1) * DEDUPE_TTL <= now
=============================================================================
