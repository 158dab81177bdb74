------------------------------ MODULE Checkout ------------------------------
(***************************************************************************)
(* CheckoutService.prepare_checkout and everything it calls: the           *)
(* reservation transaction over the rows of event_seats, the two quotes    *)
(* taken outside any transaction, the transaction that stores them, and    *)
(* the compensating release when one of those later steps fails.           *)
(*                                                                         *)
(* A member of Checkouts is one POST /events/{event_id}/checkout.  It      *)
(* creates at most one row of bookings, so the row bears the request's     *)
(* name (bookings.id is a fresh primary key).                              *)
(*                                                                         *)
(* Postgres is modelled as the code relies on it: READ COMMITTED, row      *)
(* locks taken one by one in the order of ORDER BY, a row re-read once its *)
(* lock is granted, and all effects and unlocks of a transaction at its    *)
(* commit or rollback.                                                     *)
(***************************************************************************)
EXTENDS Naturals, FiniteSets, Functions

CONSTANTS
    Checkouts,            \* the checkout requests
    Events,               \* ids of the rows of events
    EventSeats,           \* ids of the rows of event_seats
    EventOf,              \* event_seats.event_id, by row id
    SeatOf,               \* event_seats.seat_id, by row id
    Faulty,               \* the requests a database failure or a crash may hit
    Requests,             \* the possible (event_id, seat_ids) arguments
    BOOKING_TTL,          \* BOOKING_TTL_MINUTES, in ticks of the clock
    MaxTime,              \* the bound of the clock
    NULL                  \* SQL NULL, Python None

\* event_seats is a finite table whose ids are integers, uq_event_seat makes
\* (event_id, seat_id) a key, and NULL is no id.  BookingCreate asks for at least
\* one seat.
ASSUME CheckoutAssumption ==
    /\ IsFiniteSet(EventSeats) /\ EventSeats \subseteq Nat
    /\ Faulty \subseteq Checkouts
    /\ EventOf \in [EventSeats -> Events]
    /\ \A r, s \in EventSeats : EventOf[r] = EventOf[s] /\ SeatOf[r] = SeatOf[s] => r = s
    /\ BOOKING_TTL \in Nat \ {0}
    /\ MaxTime \in Nat
    /\ NULL \notin Checkouts
    /\ \A q \in Requests : Range(q.seat_ids) # {}

VARIABLES
    now,                  \* datetime.now(UTC)
    event_seats,          \* the committed table: status, reserved_until, booking_id
    bookings,             \* the committed table, NULL where there is no row
    row_lock,             \* the checkout whose transaction holds the row, or NULL
    request,              \* the arguments of prepare_checkout
    pc,                   \* where each checkout stands
    to_lock,              \* rows its FOR UPDATE statement has still to lock
    reserved_until,       \* its local variable of that name
    protection_task,      \* the task started by asyncio.create_task
    answer                \* the result, or the exception in flight or raised

given == <<now, request>>
tables == <<event_seats, bookings>>
locks == <<row_lock, to_lock>>
vars == <<given, tables, locks, pc, reserved_until, protection_task, answer>>

SeatStatus == {"available", "reserved", "sold"}
BookingStatus == {"pending_payment", "paid", "cancelled", "expired"}

EventSeat == [status : SeatStatus, reserved_until : Nat \cup {NULL},
              booking_id : Checkouts \cup {NULL}]

\* An amount is a whole the properties need not look into: a commission is
\* stored or still 0, a protection price is stored or NULL.
Booking == [status : BookingStatus, reserved_until : Nat,
            payment_commission : {"zero", "quoted"}, protection_price : {NULL, "quoted"}]

\* NULL is no row, no time and no price either.
ASSUME NullAssumption == NULL \notin Booking /\ NULL \notin Nat /\ NULL # "quoted"

\* The keys of ERROR_RESPONSES that prepare_checkout can raise; every other
\* exception leaves the server as a 500.
DomainErrors == {"EventNotFoundError", "SeatsNotFoundError", "SeatsUnavailableError",
                 "DuplicateSeatError", "PaymentUnavailableError"}
Answers == DomainErrors \cup {"none", "CheckoutResult", "InternalError"}

InTransaction == {"locking", "reserving", "freeing"}
Finished == {"returned", "raised", "crashed"}
PCs == {"start", "quoting", "collecting", "applying", "cancelling", "releasing"}
           \cup InTransaction \cup Finished

-----------------------------------------------------------------------------
FreeSeat == [status |-> "available", reserved_until |-> NULL, booking_id |-> NULL]

\* The rows SELECT ... WHERE event_id = .. AND seat_id IN (..) returns.
RequestedRows(c) == {r \in EventSeats : /\ EventOf[r] = request[c].event_id
                                        /\ SeatOf[r] \in Range(request[c].seat_ids)}

LockedBy(c) == {r \in EventSeats : row_lock[r] = c}

\* Mutant: the statement without its ORDER BY.
NextRow_AnyOrder(c, r) == r \in to_lock[c]

\* The row the FOR UPDATE statement of c is at: ORDER BY event_seats.id.
NextRow(c, r) == r \in to_lock[c] /\ \A s \in to_lock[c] : r <= s

\* Mutant: a reserved seat is taken for expired whatever its time.
SeatIsAvailable_AnyReserved(es, t) == es.status \in {"available", "reserved"}

\* reservation_is_orphaned, reservation_has_expired and seat_is_available of
\* a row es at time t.
SeatIsAvailable(es, t) ==
    \/ es.status = "available"
    \/ es.status = "reserved" /\ es.booking_id = NULL
    \/ es.status = "reserved" /\ es.reserved_until # NULL /\ es.reserved_until <= t

At(c, place) == pc[c] = place
Goto(c, place) == pc' = [pc EXCEPT ![c] = place]

\* Commit and rollback both end a transaction by giving its row locks back.
EndTransaction(c) ==
    /\ row_lock' = [r \in EventSeats |-> IF row_lock[r] = c THEN NULL ELSE row_lock[r]]
    /\ to_lock' = [to_lock EXCEPT ![c] = {}]

\* An exception leaves prepare_checkout.
Raise(c, error) ==
    /\ Goto(c, "raised")
    /\ answer' = [answer EXCEPT ![c] = error]

-----------------------------------------------------------------------------
Init ==
    /\ now = 0
    /\ event_seats = [r \in EventSeats |-> FreeSeat]
    /\ bookings = [c \in Checkouts |-> NULL]
    /\ row_lock = [r \in EventSeats |-> NULL]
    /\ request \in [Checkouts -> Requests]
    /\ pc = [c \in Checkouts |-> "start"]
    /\ to_lock = [c \in Checkouts |-> {}]
    /\ reserved_until = [c \in Checkouts |-> 0]
    /\ protection_task = [c \in Checkouts |-> "none"]
    /\ answer = [c \in Checkouts |-> "none"]

-----------------------------------------------------------------------------
(***************************************************************************)
(* The reservation transaction.                                            *)
(***************************************************************************)
RejectDuplicateSeats(c) ==
    /\ At(c, "start")
    /\ ~IsInjective(request[c].seat_ids)
    /\ Raise(c, "DuplicateSeatError")
    /\ UNCHANGED <<given, tables, locks, reserved_until, protection_task>>

RejectUnknownEvent(c) ==
    /\ At(c, "start")
    /\ IsInjective(request[c].seat_ids)
    /\ request[c].event_id \notin Events
    /\ Raise(c, "EventNotFoundError")
    /\ UNCHANGED <<given, tables, locks, reserved_until, protection_task>>

BeginReservation(c) ==
    /\ At(c, "start")
    /\ IsInjective(request[c].seat_ids)
    /\ request[c].event_id \in Events
    /\ to_lock' = [to_lock EXCEPT ![c] = RequestedRows(c)]
    /\ Goto(c, "locking")
    /\ UNCHANGED <<given, tables, row_lock, reserved_until, protection_task, answer>>

\* EventSeatRepository.lock_for_update gets its next row, once nobody has it.
LockRequestedRow(c) ==
    /\ At(c, "locking")
    /\ \E r \in EventSeats :
         /\ NextRow(c, r)
         /\ row_lock[r] = NULL
         /\ row_lock' = [row_lock EXCEPT ![r] = c]
         /\ to_lock' = [to_lock EXCEPT ![c] = @ \ {r}]
    /\ UNCHANGED <<given, tables, pc, reserved_until, protection_task, answer>>

\* The statement has returned all its rows.
RowsLocked(c) == At(c, "locking") /\ to_lock[c] = {}

SomeSeatMissing(c) ==
    Range(request[c].seat_ids) # {SeatOf[r] : r \in LockedBy(c)}

RejectMissingSeats(c) ==
    /\ RowsLocked(c)
    /\ SomeSeatMissing(c)
    /\ EndTransaction(c)
    /\ Raise(c, "SeatsNotFoundError")
    /\ UNCHANGED <<given, tables, reserved_until, protection_task>>

\* Mutant: the error is answered from an open transaction, locks and all.
RejectUnavailableSeats_KeepLocks(c) ==
    /\ RowsLocked(c)
    /\ ~SomeSeatMissing(c)
    /\ \E r \in LockedBy(c) : ~SeatIsAvailable(event_seats[r], now)
    /\ Raise(c, "SeatsUnavailableError")
    /\ UNCHANGED <<given, tables, locks, reserved_until, protection_task>>

RejectUnavailableSeats(c) ==
    /\ RowsLocked(c)
    /\ ~SomeSeatMissing(c)
    /\ \E r \in LockedBy(c) : ~SeatIsAvailable(event_seats[r], now)
    /\ EndTransaction(c)
    /\ Raise(c, "SeatsUnavailableError")
    /\ UNCHANGED <<given, tables, reserved_until, protection_task>>

\* now is read after the locks; the booking is flushed and the seats are
\* assigned inside the open transaction.
ReserveSeats(c) ==
    /\ RowsLocked(c)
    /\ ~SomeSeatMissing(c)
    /\ \A r \in LockedBy(c) : SeatIsAvailable(event_seats[r], now)
    /\ reserved_until' = [reserved_until EXCEPT ![c] = now + BOOKING_TTL]
    /\ Goto(c, "reserving")
    /\ UNCHANGED <<given, tables, locks, protection_task, answer>>

ReservedFor(c) ==
    [status |-> "reserved", reserved_until |-> reserved_until[c], booking_id |-> c]

\* What the reservation transaction writes.
StoreReservation(c) ==
    /\ event_seats' = [r \in EventSeats |->
                          IF r \in LockedBy(c) THEN ReservedFor(c) ELSE event_seats[r]]
    /\ bookings' = [bookings EXCEPT ![c] =
                       [status |-> "pending_payment", reserved_until |-> reserved_until[c],
                        payment_commission |-> "zero", protection_price |-> NULL]]

\* The transaction commits and, with no await in between, the protection
\* task is created and payment_client.calculate is called.
CommitReservation(c) ==
    /\ At(c, "reserving")
    /\ StoreReservation(c)
    /\ EndTransaction(c)
    /\ protection_task' = [protection_task EXCEPT ![c] = "running"]
    /\ Goto(c, "quoting")
    /\ UNCHANGED <<given, reserved_until, answer>>

\* The connection is lost before or while committing: the exception is raised
\* outside the try block, so nothing is released.  A COMMIT whose
\* acknowledgement is lost has taken effect.
ReservationFails(c) ==
    /\ c \in Faulty
    /\ pc[c] \in {"start", "locking", "reserving"}
    /\ IsInjective(request[c].seat_ids)
    /\ \/ UNCHANGED <<tables>>
       \/ At(c, "reserving") /\ StoreReservation(c)
    /\ EndTransaction(c)
    /\ Raise(c, "InternalError")
    /\ UNCHANGED <<given, reserved_until, protection_task>>

-----------------------------------------------------------------------------
(***************************************************************************)
(* The quotes, outside any transaction.                                    *)
(***************************************************************************)
\* ProtectionClient.calculate ends within QUOTE_BUDGET_SECONDS, with an
\* available quote or without one.
ProtectionAnswers(c) ==
    /\ protection_task[c] = "running"
    /\ \E quote \in {"priced", "unpriced"} :
         protection_task' = [protection_task EXCEPT ![c] = quote]
    /\ UNCHANGED <<given, tables, locks, pc, reserved_until, answer>>

PaymentQuoted(c) ==
    /\ At(c, "quoting")
    /\ Goto(c, "collecting")
    /\ UNCHANGED <<given, tables, locks, reserved_until, protection_task, answer>>

\* The except clause is entered with an exception in flight.
Compensate(c, error) ==
    /\ Goto(c, "cancelling")
    /\ answer' = [answer EXCEPT ![c] = error]

\* Mutant: a failed payment quote is answered without compensation.
PaymentFails_KeepSeats(c) ==
    /\ At(c, "quoting")
    /\ Raise(c, "PaymentUnavailableError")
    /\ UNCHANGED <<given, tables, locks, reserved_until, protection_task>>

\* PaymentUnavailableError after the retries or on an unusable response; an
\* httpx error that PaymentClient does not translate stays internal.
PaymentFails(c) ==
    /\ At(c, "quoting")
    /\ \E error \in {"PaymentUnavailableError", "InternalError"} : Compensate(c, error)
    /\ UNCHANGED <<given, tables, locks, reserved_until, protection_task>>

\* _collect_protection_quote: waits for the task, and turns its failure to None.
CollectProtectionQuote(c) ==
    /\ At(c, "collecting")
    /\ protection_task[c] \in {"priced", "unpriced"}
    /\ Goto(c, "applying")
    /\ UNCHANGED <<given, tables, locks, reserved_until, protection_task, answer>>

-----------------------------------------------------------------------------
(***************************************************************************)
(* The transaction that stores the quotes.  Only this request updates its  *)
(* booking, so no row lock is contended here.                              *)
(***************************************************************************)
\* The WHERE clause of apply_quotes, so the number of rows it updates is 0 or 1.
QuotesApplicable(c) == bookings[c].status = "pending_payment"

\* Mutant: the protection price is not among the values.
StoreQuotes_CommissionOnly(c) ==
    bookings' = [bookings EXCEPT ![c].payment_commission = "quoted"]

\* The values of apply_quotes.
StoreQuotes(c) ==
    bookings' = [bookings EXCEPT
        ![c].payment_commission = "quoted",
        ![c].protection_price = IF protection_task[c] = "priced" THEN "quoted" ELSE @]

ApplyQuotes(c) ==
    /\ At(c, "applying")
    /\ IF QuotesApplicable(c)
       THEN /\ StoreQuotes(c)
            /\ Goto(c, "returned")
            /\ answer' = [answer EXCEPT ![c] = "CheckoutResult"]
       ELSE /\ Compensate(c, "SeatsUnavailableError")
            /\ UNCHANGED bookings
    /\ UNCHANGED <<given, locks, event_seats, reserved_until, protection_task>>

\* The database fails; the commit may have taken effect unacknowledged.
ApplyQuotesFails(c) ==
    /\ c \in Faulty
    /\ At(c, "applying")
    /\ \/ UNCHANGED bookings
       \/ QuotesApplicable(c) /\ StoreQuotes(c)
    /\ Compensate(c, "InternalError")
    /\ UNCHANGED <<given, locks, event_seats, reserved_until, protection_task>>

-----------------------------------------------------------------------------
(***************************************************************************)
(* The except clause and _release_booking.                                 *)
(***************************************************************************)
\* Mutant: the compensation forgets the task.
CancelProtection_LeftRunning(c) ==
    /\ At(c, "cancelling")
    /\ Goto(c, "releasing")
    /\ UNCHANGED <<given, tables, locks, reserved_until, protection_task, answer>>

\* protection_task.cancel(), then gather waits until the task is over.
CancelProtection(c) ==
    /\ At(c, "cancelling")
    /\ protection_task' = [protection_task EXCEPT ![c] = IF @ = "running" THEN "cancelled" ELSE @]
    /\ Goto(c, "releasing")
    /\ UNCHANGED <<given, tables, locks, reserved_until, answer>>

\* mark_cancelled (not visible before the commit), then lock_ids_for_booking
\* finds its rows in the statement's snapshot.
BeginRelease(c) ==
    /\ At(c, "releasing")
    /\ to_lock' = [to_lock EXCEPT ![c] = {r \in EventSeats : event_seats[r].booking_id = c}]
    /\ Goto(c, "freeing")
    /\ UNCHANGED <<given, tables, row_lock, reserved_until, protection_task, answer>>

\* Mutant: lock_ids_for_booking without its ORDER BY.
LockReservedRow_AnyOrder(c) ==
    /\ At(c, "freeing")
    /\ \E r \in to_lock[c] :
         /\ row_lock[r] = NULL
         /\ row_lock' = [row_lock EXCEPT ![r] = c]
         /\ to_lock' = [to_lock EXCEPT ![c] = @ \ {r}]
    /\ UNCHANGED <<given, tables, pc, reserved_until, protection_task, answer>>

\* Postgres keeps the lock whether or not the row is returned (StillOwned).
LockReservedRow(c) ==
    /\ At(c, "freeing")
    /\ \E r \in EventSeats :
         /\ NextRow(c, r)
         /\ row_lock[r] = NULL
         /\ row_lock' = [row_lock EXCEPT ![r] = c]
         /\ to_lock' = [to_lock EXCEPT ![c] = @ \ {r}]
    /\ UNCHANGED <<given, tables, pc, reserved_until, protection_task, answer>>

\* Mutant: the ids found by the snapshot are taken as they are.
StillOwned_Unchecked(c, r) == TRUE

\* The row is read again under its lock: one that another transaction has
\* reassigned since no longer satisfies booking_id = c and is not returned.
StillOwned(c, r) == event_seats[r].booking_id = c

\* Mutant: mark_cancelled without the release of the seats.
CommitRelease_KeepSeats(c) ==
    /\ At(c, "freeing")
    /\ to_lock[c] = {}
    /\ bookings' = [bookings EXCEPT ![c].status = "cancelled"]
    /\ EndTransaction(c)
    /\ Raise(c, answer[c])
    /\ UNCHANGED <<given, event_seats, reserved_until, protection_task>>

\* EventSeatRepository.release over the returned ids, with the commit; the
\* exception in flight is raised again, or that of a commit whose
\* acknowledgement is lost.
CommitRelease(c) ==
    /\ At(c, "freeing")
    /\ to_lock[c] = {}
    /\ event_seats' = [r \in EventSeats |->
                          IF r \in LockedBy(c) /\ StillOwned(c, r) THEN FreeSeat ELSE event_seats[r]]
    /\ bookings' = [bookings EXCEPT ![c].status = "cancelled"]
    /\ EndTransaction(c)
    /\ Raise(c, answer[c]) \/ (c \in Faulty /\ Raise(c, "InternalError"))
    /\ UNCHANGED <<given, reserved_until, protection_task>>

\* The release itself fails and is rolled back: its exception replaces the one
\* in flight.
ReleaseFails(c) ==
    /\ c \in Faulty
    /\ pc[c] \in {"releasing", "freeing"}
    /\ EndTransaction(c)
    /\ Raise(c, "InternalError")
    /\ UNCHANGED <<given, tables, reserved_until, protection_task>>

-----------------------------------------------------------------------------
\* The process serving the request dies: Postgres rolls its transaction back,
\* its tasks are gone, and what it committed stays.
Crash(c) ==
    /\ c \in Faulty
    /\ pc[c] \notin Finished
    /\ EndTransaction(c)
    /\ protection_task' = [protection_task EXCEPT ![c] = IF @ = "running" THEN "cancelled" ELSE @]
    /\ Goto(c, "crashed")
    /\ UNCHANGED <<given, tables, reserved_until, answer>>

Tick ==
    /\ now < MaxTime
    /\ now' = now + 1
    /\ UNCHANGED <<tables, locks, request, pc, reserved_until, protection_task, answer>>

\* Every request is over: the only state in which the system may stop.
Rest ==
    /\ \A c \in Checkouts : pc[c] \in Finished
    /\ UNCHANGED vars

Reservation(c) ==
    \/ RejectDuplicateSeats(c) \/ RejectUnknownEvent(c) \/ BeginReservation(c)
    \/ LockRequestedRow(c) \/ RejectMissingSeats(c) \/ RejectUnavailableSeats(c)
    \/ ReserveSeats(c) \/ CommitReservation(c)

Quoting(c) ==
    \/ ProtectionAnswers(c) \/ PaymentQuoted(c) \/ PaymentFails(c)
    \/ CollectProtectionQuote(c) \/ ApplyQuotes(c)

Release(c) ==
    \/ CancelProtection(c) \/ BeginRelease(c) \/ LockReservedRow(c) \/ CommitRelease(c)

prepare_checkout(c) == Reservation(c) \/ Quoting(c) \/ Release(c)

Failure(c) ==
    ReservationFails(c) \/ ApplyQuotesFails(c) \/ ReleaseFails(c) \/ Crash(c)

Next ==
    \/ \E c \in Checkouts : prepare_checkout(c) \/ Failure(c)
    \/ Tick
    \/ Rest

Spec == Init /\ [][Next]_vars

\* The event loop runs every task that is ready, Postgres grants the locks
\* that are free, and payment and protection end by their own time-outs.  No
\* failure is owed to anyone.
FairSpec == Spec /\ \A c \in Checkouts : WF_vars(prepare_checkout(c))

-----------------------------------------------------------------------------
TypeOK ==
    /\ now \in Nat
    /\ event_seats \in [EventSeats -> EventSeat]
    /\ bookings \in [Checkouts -> Booking \cup {NULL}]
    /\ row_lock \in [EventSeats -> Checkouts \cup {NULL}]
    /\ request \in [Checkouts -> Requests]
    /\ pc \in [Checkouts -> PCs]
    /\ to_lock \in [Checkouts -> SUBSET EventSeats]
    /\ reserved_until \in [Checkouts -> Nat]
    /\ protection_task \in [Checkouts -> {"none", "running", "priced", "unpriced", "cancelled"}]
    /\ answer \in [Checkouts -> Answers]

HoldsSeat(c, r) ==
    event_seats[r] = [status |-> "reserved", reserved_until |-> bookings[c].reserved_until,
                      booking_id |-> c]

Live(c) ==
    /\ bookings[c] # NULL
    /\ bookings[c].status = "pending_payment"
    /\ bookings[c].reserved_until > now

\* A booking that awaits payment and has not expired owns every seat it was
\* made for: no interleaving of reservations, expiries and releases loses or
\* doubly sells one.
LiveBookingHoldsItsSeats ==
    \A c \in Checkouts : Live(c) => \A r \in RequestedRows(c) : HoldsSeat(c, r)

\* The two tables agree: a row of event_seats is free, or held by a booking
\* that awaits payment, asked for that very seat and expires with it; in
\* particular a cancelled booking holds nothing.
SeatsAgreeWithBookings ==
    \A r \in EventSeats :
        \/ event_seats[r] = FreeSeat
        \/ \E c \in Checkouts : /\ bookings[c] # NULL
                               /\ bookings[c].status = "pending_payment"
                               /\ r \in RequestedRows(c)
                               /\ HoldsSeat(c, r)

\* A client told by a 404, 409, 422 or 502 that there is no booking has none:
\* no seat points to its request, and no booking of it awaits payment.
RefusedCheckoutHoldsNothing ==
    \A c \in Checkouts :
        At(c, "raised") /\ answer[c] \in DomainErrors =>
            /\ \A r \in EventSeats : event_seats[r].booking_id # c
            /\ bookings[c] # NULL => bookings[c].status = "cancelled"

\* The quotes the client is answered with are the quotes its booking stores.
AnsweredQuotesAreStored ==
    \A c \in Checkouts :
        At(c, "returned") =>
            /\ bookings[c].status = "pending_payment"
            /\ bookings[c].payment_commission = "quoted"
            /\ (bookings[c].protection_price = "quoted") <=> (protection_task[c] = "priced")

\* prepare_checkout never leaves its protection task running behind it.
NoOrphanProtectionTask ==
    \A c \in Checkouts : pc[c] \in Finished => protection_task[c] # "running"

WaitsFor(c, d) == \E r \in EventSeats : NextRow(c, r) /\ row_lock[r] = d

\* "Two concurrent checkouts over overlapping seats can never deadlock against
\* each other", nor a release against a checkout: no set of transactions is
\* such that each waits for a row another one of the set holds.
NoDeadlock ==
    \A S \in SUBSET Checkouts :
        S # {} => \E c \in S : \A d \in S : ~WaitsFor(c, d)

SeatsChangeHandsInTime ==
    \A r \in EventSeats, c \in Checkouts :
        event_seats[r].booking_id = c /\ event_seats'[r].booking_id # c =>
            \/ bookings'[c].status = "cancelled" /\ event_seats'[r] = FreeSeat
            \/ event_seats[r].reserved_until <= now

\* The holder of a seat changes only from a booking that is cancelled in the
\* same step, or whose reservation has run out.
OnlyExpiredSeatsChangeHands == [][SeatsChangeHandsInTime]_vars

-----------------------------------------------------------------------------
(***************************************************************************)
(* The inductive invariant behind the safety properties.                   *)
(***************************************************************************)
\* Only an open transaction holds row locks or is waiting for one.
LocksBelongToTransactions ==
    /\ \A r \in EventSeats : row_lock[r] # NULL => pc[row_lock[r]] \in InTransaction
    /\ \A c \in Checkouts : to_lock[c] # {} => pc[c] \in {"locking", "freeing"}

\* Whatever a transaction holds comes before whatever it has still to lock.
LocksInOrder ==
    \A c \in Checkouts : \A r \in LockedBy(c), s \in to_lock[c] : r < s

\* The reservation locks exactly the rows of its request.
ReservationLocksItsRows ==
    \A c \in Checkouts :
        /\ At(c, "locking") => \A r \in EventSeats :
             r \in RequestedRows(c) <=> r \in LockedBy(c) \cup to_lock[c]
        /\ At(c, "reserving") => \A r \in EventSeats :
             r \in RequestedRows(c) <=> r \in LockedBy(c)

\* What was checked under the locks is still true at the commit.
ReservableUntilCommit ==
    \A c \in Checkouts : At(c, "reserving") =>
        /\ LockedBy(c) # {}
        /\ \A r \in LockedBy(c) : SeatIsAvailable(event_seats[r], now)
        /\ reserved_until[c] <= now + BOOKING_TTL

\* A release has locked, or has still to look at, all the rows of its booking.
ReleaseCoversItsRows ==
    \A c \in Checkouts : At(c, "freeing") =>
        \A r \in EventSeats :
            event_seats[r].booking_id = c => r \in LockedBy(c) \cup to_lock[c]

\* The booking exists from the commit on, and awaits payment unless released.
BookingFollowsRequest ==
    \A c \in Checkouts :
        /\ pc[c] \in {"start", "locking", "reserving"} => bookings[c] = NULL
        /\ pc[c] \in {"quoting", "collecting", "applying", "cancelling", "releasing",
                       "freeing", "returned"}
             => bookings[c] # NULL /\ bookings[c].status = "pending_payment"
        /\ pc[c] = "raised" /\ answer[c] \in DomainErrors
             => bookings[c] = NULL \/ bookings[c].status = "cancelled"
        /\ pc[c] \in {"raised", "cancelling", "releasing", "freeing"}
             => answer[c] \in DomainErrors \cup {"InternalError"}

\* No lock is held across the wrong step, no checked fact goes stale before
\* its commit, no row escapes a release: what prepare_checkout's transactions
\* rely on between their statements.
IInv ==
    /\ TypeOK
    /\ LocksBelongToTransactions
    /\ LocksInOrder
    /\ ReservationLocksItsRows
    /\ ReservableUntilCommit
    /\ ReleaseCoversItsRows
    /\ BookingFollowsRequest
    /\ SeatsAgreeWithBookings
    /\ LiveBookingHoldsItsSeats

-----------------------------------------------------------------------------
\* Every request is answered, or its process dies: nobody waits for a row
\* lock or for the protection task for ever.
EveryCheckoutIsAnswered == \A c \in Checkouts : <>(pc[c] \in Finished)

\* "Reservation expired during checkout": a checkout that is answered with its
\* booking still holds every seat of it when the quotes are stored.
ReturnedBookingHoldsItsSeats ==
    [][\A c \in Checkouts :
          pc[c] # "returned" /\ pc'[c] = "returned" =>
              \A r \in RequestedRows(c) : event_seats'[r].booking_id = c]_vars
=============================================================================
