# pytex-parallel in TLA+

This directory holds TLA+ models of the two services in this repository, the TLC
configurations that check them on small instances, and proofs, checked by TLAPS, that the
most important properties hold whatever the size of the instance.

* **Week 2** (`weeks/week_02/app`) sells seats for events. It keeps its data in Postgres,
  a cache, a lock and dedupe keys in Redis, and asks two outside services for prices.
  Several server processes may run at once; each is one asyncio event loop.
* **Week 1** (`weeks/week_01`) builds reports in background tasks of a single process.

The code is read as it is. Where a docstring or comment promises more than the code does,
a run shows the difference (see [Where the code and its comments disagree](#where-the-code-and-its-comments-disagree)).

Paths below leave out the leading `src/`, and for week 2 also `weeks/week_02/app/`.

## 1. The parts of the system

| part | code | state | operations | module |
|---|---|---|---|---|
| Checkout | `services/checkout.py`, `infra/postgres/**` | rows of `event_seats` and `bookings`, their row locks, one protection task per request | `prepare_checkout`, `_collect_protection_quote`, `_release_booking` | `Checkout` |
| Dashboard | `services/dashboard.py`, counting queries | none of its own | `occupancy_counts` (and sales, see below) | `Dashboard` |
| Quotes | `infra/clients/*.py` | the bucket of the rate limiter, attempts, delays, the protection budget | `PaymentClient.calculate`, `ProtectionClient.calculate` | `Quotes` |
| Checkout in time | `prepare_checkout` with both clients | that of Checkout and Quotes, on one clock | a checkout from its arrival to its answer | `CheckoutInTime` |
| Event cache | `infra/redis/event_cache.py`, `services/events.py` | the cached value, the Redis lock, their times to live | `get_or_load`, `get_event` | `EventCache` |
| Dedupe | `infra/redis/event_views_dedup.py`, `EventViewsService.record` | one key per event and address | `mark_viewed`, `record` | `RecordView` |
| Consolidator | `EventViewsConsolidator`, `repositories/event_views.py`, `main.py` | queue, batch, counter, worker task; the table `event_views` | `submit`, `_run`, `_flush`, `start`, `stop` | `EventViews` |
| Report jobs | `weeks/week_01/reports/service.py`, `weeks/week_01/dummyjson` | two dicts, a task per job, the threads of the default executor | `start_report`, `_build_report` | `Reports` |
| Seeding | `add_event_data.py` | first rows of four tables | `add_event_data_to_db` | `Seeding` |
| Views end to end | `routes.py:get_event`, `main.py:lifespan` | that of Seeding, Dedupe and Consolidator | start, request, shutdown | `ViewPath` |
| Row labels | `utils.py` | none | `row_label` | – |
| Other routes, dependencies, errors | `routes.py`, `dependencies.py`, `main.py`, ... | none | forwarding | – |
| Schema, migrations | `models.py`, `migrations/` | – | keys and references | in the modules that rely on them |
| Mock APIs | `weeks/week_02/mock_apis` | – | – | external |

How they interact:

* `POST /events/{id}/checkout` runs `prepare_checkout`: one transaction reserves seats, the
  two quotes are fetched outside any transaction and side by side (`asyncio.create_task` for
  protection), a second transaction stores them; any exception in between cancels the
  protection task and releases the booking in a third transaction.
* All checkouts of one process share one `PaymentClient`, hence one rate limiter.
* `GET /events/{id}` goes through the event cache and then, if the client's address is known,
  through the dedupe key to `submit`, which never waits. The consolidator's worker writes
  the views later; the lifespan stops it after the requests are over.
* A process starts by seeding the database, unless it finds a location there, then starts its consolidator, then serves.
  `event_views` refers to `events`, so what requests submit must have a row for the consolidator to write it.
* The dashboard reads what checkout writes, by a second wording of the rule by which
  checkout judges a seat.
* Processes meet in Postgres (row locks) and in Redis (keys), nowhere else.

What is hard about each part, and what makes it correct:

| part | hard behaviours | correct when |
|---|---|---|
| Checkout | row locks taken one by one by overlapping checkouts and releases; a release whose rows another checkout has taken over while it waited; failure, lost acknowledgement or death between the two transactions; expiry while quotes are fetched | nobody deadlocks, no seat is sold twice, a refusal leaves nothing behind, a seat leaves a booking only by cancellation or expiry |
| Dashboard | two wordings of one rule, at the instant of expiry; a clock read before the rows | a seat is shown as available exactly if a checkout would get it, and by an old clock only if it would get it now |
| Quotes | retries and first attempts queueing at one limiter; overtaking there; the budget racing a late answer | the rate is kept, and a checkout is not held up for longer than a stated time |
| Checkout in time | a reservation that runs out while quotes are fetched, with the limiter shared with other checkouts | under a stated configuration a confirmed booking holds its seats |
| Event cache | a load that outlives its lock; a late release; a dead holder; a cached absence hiding a new event | one load at a time while loads are fast, no overwriting of a cached value, every request ends |
| Dedupe | simultaneous requests of a client; lost replies; a full queue behind a set key | each window counts one view, and does not slide |
| Consolidator | cancellation in a flush, a rollback that swallows it, ambiguous commits, a full queue at shutdown, parallel flushes | views are neither lost nor made up, stop ends (under the conditions of section 3), flushes do not deadlock |
| Seeding | processes that start together; a failure between the tables | whoever serves has found complete data; only processes that race insert twice |
| Views end to end | a view of an event without a row; a request under way at shutdown | the table counts windows, and no flush can fail on a missing event |
| Report jobs | both requests failing at once; a thread that cannot be cancelled | a job ends, and says what happened to it |

`PROJECT.json` lists every hazard at its line with the properties aimed at it.

## 2. Modules

```
SeatLedger  <--implements-- CheckoutLedger --extends--> Checkout <--extends-- Dashboard
RecordView <--extends-- ViewPath --instances--> Seeding, EventViews
CheckoutInTime --extends--> Checkout, QuoteSettings; --instances--> Quotes
EventCache      Quotes --extends--> QuoteSettings      Reports

CheckoutProofs --extends--> CheckoutLedger, Dashboard, FiniteSums
CheckoutInTimeProofs --extends--> CheckoutInTime, CheckoutProofs; --instances--> QuotesProofs
ViewPathProofs --extends--> ViewPath, FiniteSums; --instances--> EventViewsProofs
EventViewsProofs --extends--> EventViews, FiniteSums
EventCacheProofs, QuotesProofs, ReportsProofs --extend--> the module they are named after
```

`MC*` modules hold the values of constants that a configuration file cannot express, and the
symmetry sets; `*Proofs` modules hold the theorems. Most modules carry beside a definition a
variant whose comment begins with "Mutant:": a plausible slip in the code (a missing `ORDER BY`,
a forgotten compensation), which makes one of the properties fail. None of them is part of a specification.

### Checkout

One member of `Checkouts` is one request. It makes at most one row of `bookings`, so the row
bears the request's name.

| code | model |
|---|---|
| `datetime.now(UTC)` | `now`, one tick for any amount of time; `BOOKING_TTL` ticks to a booking |
| `event_seats`, `bookings` | the committed tables; what a transaction has flushed stays in `pc`, `to_lock` and `reserved_until` until it commits |
| `SELECT ... ORDER BY id FOR UPDATE` | `to_lock[c]`, the rows still to lock, and `row_lock`; one `LockRequestedRow` for each row, in ascending order |
| `len(set(seat_ids))`, event and seats missing, seats unavailable | `RejectDuplicateSeats`, `RejectUnknownEvent`, `RejectMissingSeats`, `RejectUnavailableSeats` |
| the status rule (`seat_is_available` and its two helpers) | `SeatIsAvailable` |
| reserving and committing | `ReserveSeats` (the `now` read after the locks), `CommitReservation` |
| the quotes | `ProtectionAnswers`, `PaymentQuoted`, `PaymentFails`, `CollectProtectionQuote` |
| `apply_quotes` and its row count | `ApplyQuotes` |
| the `except` clause | `CancelProtection`, `BeginRelease`, `LockReservedRow`, `CommitRelease`; `StillOwned` is the second look READ COMMITTED takes at a row once it has its lock |
| an exception of the database | `ReservationFails`, `ApplyQuotesFails`, `ReleaseFails`, each with and (for a commit) without an effect; `CommitRelease` may lose its acknowledgement |
| death of the process | `Crash` |

`CheckoutLedger` maps this to `SeatLedger`, the promise to a client: a booking is granted all
its seats in one step, only if they are free or have run out; it gives up all of them in one
step; a client is told "confirmed" only of a booking that was granted, and "refused" only of one that holds
nothing; an outcome may stay unknown. All of the row locks, the intermediate steps and the
compensation are invisible there.

`Dashboard` adds `occupancy_counts`: the sets its query counts, to be compared with
`SeatIsAvailable` at any time up to the end of a booking's life. `_load_occupancy` reads its clock before it gets a connection, so the
property also compares what it shows by any earlier time with what a checkout would get now.

### Quotes

Time is measured in the time it takes one request to leak from the limiter's bucket
(`rate_limit_interval / rate_limit_requests`, 0.2 s). `Send` is an attempt that passes the
limiter, `AttemptFails` a retryable failure with its random delay or the last one,
`PaymentRefused` everything that is not retried. `aiolimiter` is modelled from its use: it admits
whoever finds room when it looks, so waiting requests may overtake each other. `BudgetRunsOut` is
`asyncio.timeout` in the protection client. The clock moves only when no task could run
(`Idle`), as on an event loop that is not overloaded. The code bounds an attempt only loosely — httpx
applies its time-out to each connect, write and read — so `MaxAttempt` is an assumption and
the bound is stated in terms of it. `QuoteSettings` declares these constants once, for `Quotes` and for `CheckoutInTime`.

### CheckoutInTime

`Checkout` leaves open how long the quotes take, `Quotes` what they are fetched for. This module runs both by one clock, the tick of `Quotes`, for the
checkouts of one process (which is who shares a limiter). Its variables are those of both parts and `left`. Where `prepare_checkout` and the clients meet, one step is a step of each:

| step | in `Checkout` | in `Quotes` |
|---|---|---|
| `AroundQuotes` | anything before the reservation commits and after the quotes are collected | – |
| `BeginQuotes` | `CommitReservation` | `Begin`: no await lies between the commit and the first wait for payment |
| `Attempt` | – | `Send`, `Retry`, an `AttemptFails` that is not the last |
| `PaymentEnds` | `PaymentQuoted`, `PaymentFails` | `PaymentQuoted`; `PaymentRefused` or the last `AttemptFails` |
| `ProtectionSettles` | `ProtectionAnswers` | `ProtectionEnds`, `BudgetRunsOut` |
| `QuotesComplete` | `CollectProtectionQuote` | `CollectProtection` |
| `TimedTick` | `Tick` | `Tick` |

`MaxDatabase` bounds what the code does not: the time from the look at the clock in `_reserve_seats` to the end of the
COMMIT, and that of the transaction that stores the quotes. By then the first has its locks; the second writes a row that only its own checkout
locks. `left` counts it down. A process that dies confirms nothing, so its death stays with `Checkout`.

### EventCache

One event id, since ids share no key. A member of `Readers` is a slot serving one request after the other in
any process. `Read`, `Acquire`/`GiveUp`, `Recheck`, `Load`, `Store`, `Release` follow
`get_or_load`; each command to Redis may fail with or without having taken effect, a process may die anywhere, and
`Tick` takes one off every time to live. A row of `events` may appear; nothing in the code changes or deletes one.
`MaxHold` bounds the time from acquiring the lock to releasing it. The code does not bound it
(there is no time-out around the load), so both sides of `LOCK_TTL` are checked.

### RecordView and EventViews

`RecordView` is the route behind `get_event`: the key of `SET NX EX`, the reply on its way
back, and `submit` or a full queue. `counted`, `opened`, `opened_at` and `lapses` are history: they record what was
submitted, how many windows began, when the last one did, and what went wrong.

`EventViews` has for every process the queue, `_batch`, `_pending`, the worker with its deadline and the
lifespan; and in Postgres the table and the locks that `INSERT ... ON CONFLICT DO
UPDATE` takes in the order of `sorted(views.items())`. A process is `starting` until `start` creates the worker. A step of the worker is what runs between two awaits: `GetView`,
`GetNone`, `DeadlinePasses`, then `LockKey` and `CommitFlush` or `FlushFails`. `StopTimesOut` is the
time-out in `stop`, which cancels the worker wherever it is and from then on awaits it with no limit (`awaiting`). A worker that waits for a view ends at once. One in a flush
is `cancelling`: it keeps the transaction and its keys until the rollback is through (`CancelEnds`), or the rollback fails (`CancelFails`). Then its exception
has replaced `CancelledError`, `_flush` catches it like that of any failed flush, and the worker runs on while `stop` still awaits it. `accepted`, `repeated` and `failures` are history.

### Seeding and ViewPath

`Seeding` is `add_event_data_to_db`. `stored[s]` says how many of the four `Tables`, in the order they are flushed in, hold committed rows of a
source: a process, or an earlier deployment. `CountLocations` sees what is committed (READ COMMITTED) and remembers in `seen` whose; `FlushRows`
sends a table's rows within the transaction, `CommitSeeding` the last ones with the commit. `StartFails` is any way not to get to serving, the
lost acknowledgement of a commit among them. No constraint of the schema keeps two processes from inserting the data twice.

`ViewPath` runs all of this for one event: each process seeds and starts (`Seed`, `Start`, `StartFails`), its requests find the event and pass
their dedupe key (`Fetch`, `Mark`, `SubmitView`), its consolidator writes what they submit (`Consolidate`), and it stops. Each of its actions is one of a part,
or two of them taken together, under the condition that comes from the other parts:

| condition | why |
|---|---|
| requests run between `Start` and `BeginStop` | the lifespan's `yield` |
| `Fetch` succeeds only if the event's row exists | `get_event` answers 404 otherwise; a cached event was read from a row, which nothing deletes |
| `submit` is called exactly for a first view, and drops it only if the queue is full | `EventViewsService.record` |
| `CommitFlush` needs the event's row | the foreign key of `event_views` |
| `BeginStop` waits for the requests of the process | uvicorn ends requests before the lifespan |

The event belongs to the source `Inserter`: the row exists once that source has committed. An event never found takes the failure of `GetEventFails`.
The two clocks are apart: a dedupe window lasts for minutes, a flush interval for seconds.

### Reports

`build`, `user_task`, `todo_task` and `thread` follow `_build_report`, the two children of its task group
and the call inside `asyncio.to_thread`. `AbortGroup` is what the group does after a failure:
it cancels the other child, drops a call that still waits for the executor, but cannot stop one that has begun.
`LastMessage` is the chain of `except*` clauses, of which several may run.

## 3. Runs

Twelve runs. The first nine pass; the last three find the counterexamples of section 4.

| run | asks | bounds |
|---|---|---|
| `checkout_contention` | deadlock, double selling, changing hands, occupancy under contention | 3 checkouts of one or both of two seats; one expiry |
| `checkout_failures` | consistency, refusals, stored quotes, orphaned tasks, refinement, termination, with every failure | 2 checkouts of any of 5 requests, all of them open to failure |
| `checkout_in_time` | the rate, the time of the quotes, and whether a booking that outlasts them holds its seats | 2 checkouts of one of two seats, 2 attempts each, room for 1 request; a booking lasts one tick longer than it must |
| `event_cache_fast_loads` | single flight, termination | 2 readers, `MaxHold` 2 < `LOCK_TTL` 3 |
| `event_cache_slow_loads` | what is left of it with slow loads | 3 readers, `MaxHold` 4 > `LOCK_TTL` 3 |
| `view_path` | one view per window, windows and the table, missing events, seeding | 3 requests of an address to 2 processes, one of which may die; a window and its end; empty or filled database |
| `event_views_table` | conservation of views, the end of the worker, deadlock | 2 processes, 2 events, queue of 1, batch of 2, 2 views each, 1 failure, deaths |
| `event_views_liveness` | writing and stopping | 2 processes, 1 event, as above without deaths |
| `reports` | consistency of a job, termination | 3 jobs, 2 threads |
| `checkout_expired_booking` | *violated:* a confirmed booking holds its seats | as `checkout_contention`, 2 checkouts |
| `event_cache_overlapping_loads` | *violated:* one load at a time | as `event_cache_slow_loads`, 2 readers |
| `event_views_last_flush_fails` | *violated:* stop writes the rest | 1 process, 1 failure |

Why these bounds show the interesting cases:

* **Checkout.** Two requests for the same two seats suffice for a cycle of two lock waits; a third one
  takes over expired seats while the others wait. The row ids of event `e1` run *against* its seat
  ids, so a reservation that locked in the order of seats would meet a release, which locks in the order of row ids, head on. `e2` has a seat id it shares with `e1` and
  lacks another, which separates "seat missing" from "seat taken". With `BOOKING_TTL` 1 and `MaxTime` 1 a
  booking is live, at its very instant of expiry, and expired within a run; a second lifetime
  adds only the same situation again. The five requests cover all refusals of arguments.
* **CheckoutInTime.** Two checkouts of the same seat: one takes it over when the other's booking has run out. Two of different seats: both wait at the limiter, overtake and
  retry behind each other, with four requests for a bucket of one. `MAX_DELAY` 1 cuts the doubling short at the second delay. The budget of 5 ends before, together with and after the
  payment quote. Quotes take up to 5 ticks here (`QuoteTime`) and the database up to 2, and a booking lasts 8: the least that `BookingOutlastsQuotes` allows. With `BOOKING_TTL` 7 TLC finds a confirmed booking
  without its seat, so nothing is given away. The clock ends with the first booking. `VIEW` leaves out what no guard and no property
  reads (which exception is in flight, which quotes came, the attempts of calls that are over).
* **EventCache.** Three readers are a holder whose lock has expired, its successor and one who waits. The
  absence lives 5, an event 6 ticks, and a fifth of each is 1, so every jitter has two outcomes. `LOCK_WAIT` < `LOCK_TTL` as in `config.py`.
* **ViewPath.** Two requests race for a key in two processes, a third one comes back in the middle of the window or after it. The
  process that may insert the event is the one that may die or fail to start, while the other serves without it. The queue holds one view, so it is full at once;
  a batch of two is reached by no more than two views and missed otherwise. `SHUTDOWN_TIMEOUT` 0 lets a stop time out
  at once or end in time. `RecordView` alone, with more addresses and windows, is covered by its proofs.
* **EventViews.** A queue of one is full at once, so views are dropped and the signal must wait; two
  processes with two events each can lock in opposite orders; a batch of two is reached and missed. `SHUTDOWN_TIMEOUT` 0 as above. One failure is spent on a
flush, on a last flush, or on the rollback of a cancelled one, in the middle of a stop as well as after the signal was taken; what follows it succeeds.
* **Reports.** Three jobs over two threads leave one queued behind the threads of jobs that were given up.

Symmetry is used in runs without liveness only. Deadlock is checked in every run; the models say by an action `Rest` where they may stop (every request over, every process
stopped, every job finished).

Fairness:

* `Checkout!FairSpec`: weak fairness of `prepare_checkout` for each request. The event loop runs what is ready,
  Postgres grants locks that are free, payment ends by its attempts and protection by its budget. No failure is owed.
  It is enough because transactions always end: the lock somebody waits for is given back and the greatest waiting row is free.
* `EventCache!FairSpec`: the clock, and the steps of a request that was read. A free lock is owed to nobody: a waiter may
  find it taken each time it polls, and ends by its time-out.
* `EventViews!FairSpec`: the clock, what the worker does by itself, and `stop`. A queue that holds something is owed a `get`, which does not wait, however many deadlines pass.
  What Postgres owes is a stated premise of each property: that it answers (`PostgresAnswers`) for `EveryViewIsWritten`, and for `EveryStopEnds` less, and then more, of it:
  * If a cancelled flush comes to an end (`CancellationsEnd`), `stop` ends though no statement is ever answered. That is the point of its time-out, and as far as it goes: there is no time-out around
    the second `await self._task`. The exception is `CancellationLost`, a rollback that failed.
  * If Postgres answers everything, `stop` ends after a lost cancellation too, since the worker comes to the signal. The exception is `NeverSignalled`: the time-out
    came while `queue.put(None)` was waiting, so the cancellation stood in for a signal that was never sent, and it was lost.

  Neither premise nor exception can be left out: without it TLC finds a `stop` that waits for ever.
* `Reports!FairSpec`: the event loop and the executor; both requests have time-outs.
* `Quotes` and `CheckoutInTime` have no fairness: their properties bound time, in models in which time waits for whatever could run.

## 4. Where the code and its comments disagree

* **A confirmed booking may hold nothing** (`checkout_expired_booking`). `checkout.py:152` means to refuse a checkout whose
  reservation ran out while quotes were fetched, by the number of rows `apply_quotes` updates. But nothing ever marks a booking
  as expired, and the statement does not look at `reserved_until`; another checkout may have taken the seats and the client gets a 200 all the same.
  `ConfirmedInTimeHoldsItsSeats` proves what does hold: if quotes always come before the reservation runs out, a confirmed booking holds all its seats.
  `ConfirmedBookingsHoldTheirSeats` says of which configurations that is true (`BookingOutlastsQuotes`). In the one at hand a tick is 0.2 s and a booking lasts 15 minutes, 4500 ticks.
  Payment has four attempts of, say, 8 s (time-outs of 2 s for the pool, connect, write and read of a short exchange), 40 ticks, and three delays of at most 10: 190 ticks, and one for each request that another checkout sends
  in the meantime; protection has 15. If a transaction takes up to 10 s, the promise holds as long as these are fewer than 4210, that is, unless the limiter lets others overtake for some 14 of the 15 minutes; a thousand checkouts (`FewCheckoutsHoldTheirSeats`) cannot
  do that, and an overloaded process can.
* **Loads may overlap** (`event_cache_overlapping_loads`). `event_cache.py:34` says only the one who took the lock goes to
  the database. The lock lives 3 seconds and is not extended, the load has no time-out. `LoadersAreApart` says what does hold.
* **A failed last flush loses its batch** (`event_views_last_flush_fails`). `event_views.py:95` keeps the batch of a failed flush
  for the next one. After the signal to stop there is none.

`stop` is not sure to stop the worker either (`CancellationLost`, `NeverSignalled` in section 3). Its time-out promises no more than an error in the log, so this is
part of what `EveryStopEnds` says and not listed here.

## 5. Proofs

Fifty-six theorems in seven modules, with the lemmas of an eighth (`FiniteSums`). TLAPS checks them for every value of the constants that satisfies the named
assumptions. These say that times and sizes are natural numbers, that the tables form functions
and `uq_event_seat` is a key, that requests, clients, processes, events and rows are finite sets, and that `NULL` is none of the values it stands beside.
TLC evaluates each assumption on the instances of the runs.

Every safety invariant and every action property that a passing run checks is stated by a theorem. Each module proves an inductive invariant first, in the order: initial state,
one lemma for each conjunct and step it could disturb, then the theorem; the properties follow from it.

| part | checked by a run and proved | proved besides |
|---|---|---|
| Checkout | `CheckoutInvariant`, `NoLostSeat`, `TablesAgree`, `RefusalIsClean`, `LocksNeverDeadlock`, `AnswersAgreeWithBookings`, `NoTaskIsLeft`, `SeatsChangeHandsFairly` | `NoSeatIsSoldTwice`, `ConfirmedInTimeHoldsItsSeats` |
| its ledger | `CheckoutImplementsLedger` | |
| Dashboard | `OccupancyIsHonest` | `CountsAddUp` |
| Quotes | | `QuotesInvariant`, `TheRateIsKept`, `TheQuotesAreInTime` |
| Checkout in time | `TimedRateIsKept`, `TimedQuotesAreInTime` | `PartsAgreeOnTime`, `ConfirmedBookingsHoldTheirSeats`, `FewCheckoutsHoldTheirSeats` |
| Event cache | `EventCacheInvariant`, `HoldersTookTheLockApart`, `CreatedEventAppears`, `LoadsExcludeEachOther`, `ValueLoadedOnce` | `CachedEventsExist`, `NotFoundIsToldInTime` |
| Dedupe | `WindowsAreFixed`, `WindowsCountOnce`, `ViewsTakeTheirTime` | `RecordInvariant` |
| Consolidator | `EventViewsInvariant`, `FlushesNeverDeadlock`, `NoViewIsLost`, `PendingIsTheBatch`, `StopLeavesNothing` | |
| Seeding | `ServedDataAreComplete`, `SeedingTwiceTakesARace` | |
| Views end to end | `PathCountsWindowsOnce`, `ViewsAreOfWindows`, `NoViewWithoutEvent` | `PartsBehaveAsSpecified`, `ConsolidatorsKeepTheirPromises`, `ViewsCannotBeDrivenUp` |
| Report jobs | `ReportsInvariant`, `RunningJobIsKept`, `FinishedJobIsTruthful`, `NothingElseOutlivesItsJob` | `AnswersAreFinal` |

Every state machine has its type correctness proved too (`*TypeCorrect`).

* **`CheckoutProofs`.** `SeatsAgreeWithBookings` and `LiveBookingHoldsItsSeats` are not inductive. What is missing is
  why a commit may rely on what was read earlier in its transaction: only open transactions hold locks
  (`LocksBelongToTransactions`), the reservation holds exactly the rows of its request (`ReservationLocksItsRows`), the seats found available
  still are at the commit, since only the holder of a lock writes a row and time only makes a seat *more* available (`ReservableUntilCommit`),
  and a release cannot miss a row of its booking (`ReleaseCoversItsRows`). `NoDeadlock` follows from
  `LocksInOrder`: of all rows that members of a set wait for take the greatest, which exists because rows are finite; the member that holds it waits for a greater one.
  `OccupancyIsHonest` needs from the invariant that no reserved row lacks a booking or a time, where the two wordings differ; that
  an old clock errs on the safe side follows from expiry being the only change time makes. `CountsAddUp` goes from the sets to the numbers the dashboard computes.
  The quotes need a second invariant (`QuotesFollowRequest`): a booking stores
  what its request holds from the moment they are applied, and a request past the wait for protection has no task running. `ConfirmedInTimeHoldsItsSeats`
  assumes of a behaviour that no checkout applies its quotes late, and takes the rest from `LiveBookingHoldsItsSeats`.
  The last part shows every step of the code to be a grant, a confirmation, a withdrawal, a lost client, a
  passing of time, or a stutter of `SeatLedger`.
* **`EventCacheProofs`.** `LockIsOwned`: until `LOCK_TTL` has passed the key carries the holder's own token. So a second holder comes
  `LOCK_TTL` later, whatever either does (`LoadersAreApart`), and a late release finds a foreign token. Under
  `MaxHold < LOCK_TTL` this gives exclusive loads and `CachedValueIsKept`. `AbsenceIsForgotten` follows the age of an absence from the load through the store to the key;
  to a client it means that "not found" is not told later than that (`NotFoundIsToldInTime`).
* **`ViewPathProofs`, the dedupe key.** A window lasts `DEDUPE_TTL` by the clock, so windows are apart, so n views take n − 1 windows. `OneViewPerWindow`
  counts the views on their way, which needs the set of requests to be finite.
* **`FiniteSums`.** What a sum over a finite set does when one of its numbers changes (`SumOfChange`), when all are 0, or when all grow. The library's
  induction theorems are out of reach, so induction over a finite set is stated of a *set* of subsets (`FiniteInduction`) and proved from a smallest counterexample, which the
  well-foundedness of strict inclusion provides. That the recursion behind `SumFunction` defines the sum is shown by a function that satisfies it: the number of elements of a pile in which
  each x stands f[x] times.
* **`EventViewsProofs`.** `NoneComesLast`: the signal is the last element ever put into the queue. Hence
  `ReturnedWorkerLeavesNothing`, as long as no flush has failed; and no deadlock by the same argument as above. `ViewsAreConserved` is a balance: what processes have received, the table and
  what waits change together. A step of p leaves the summands of the others alone, so by `SumOfChange` each sum moves as p's own number does, and `StepBalances` shows that these agree: `submit` receives
  and queues one, `GetView` moves one from the queue to the batch, `CommitFlush` and an unacknowledged commit add the batch to the table, the one empties it, the other counts it as received once more.
  `PendingCountsTheBatch` is the same argument for the events of one batch.
* **`ViewPathProofs`, the path.** Every joint step is a step or a stutter of the requests, of the seeding and of the consolidators (`PartsBehaveAsSpecified`), so
  the theorems about a part hold in the whole; those of `EventViewsProofs` come through an instance of it (`ConsolidatorsKeepTheirPromises`). Seeding: a transaction stores all or nothing, hence a location stands for everything (`AllOrNothing`), and
  who inserts has seen nobody (`InsertsOnlyUnlessSeen`). `NoViewWithoutEvent`: a request past `Fetch` has found the row, and rows stay, so
  what is queued or batched has one. `ViewsAreOfWindows` needs what ties the parts together (`PathInv`): the views the requests have counted are those the consolidators have received
  (`SubmittedViewsAreCounted`), repeats take failures, and a request is served by a process that has not stopped. Then the table holds at most what was received (conservation), that is, what was counted and
  what was repeated; at most one view is counted per window; and at the end queues, batches and requests on their way are empty. With the windows apart, `ViewsCannotBeDrivenUp` bounds the table by clients and time.
* **`QuotesProofs`.** The rate: the bucket still holds all requests since any moment but for what has leaked since (`BucketRemembers`). The time
  (`TimeIsAllowed`): a tick spent at a full limiter leaks one request and somebody must send another before the next tick; so each waited tick is charged
  to a request that another checkout has sent since this one asked for its quotes (a bucket that is full was filled in the same tick, which pays for one found full), or to a tick the waiter's own attempt did not use.
* **`CheckoutInTimeProofs`.** Every joint step is a step or a stutter of both parts (`PartsAgreeOnTime`), so the invariants of both are at hand, those of `QuotesProofs` through an instance of it. If no checkout meets more than
  so many requests of others (`OthersSendAtMost`), its quotes take no longer than `QuoteTime`. `Deadline` follows this to the end: what is left of the first transaction bounds how long before the quotes began
  the deadline was set, and what is left of the second bounds how long after them it ends. So quotes come in time, and `ConfirmedInTimeHoldsItsSeats` applies. A request is an attempt (`RequestsStep`) and each checkout has at most `RETRY_COUNT` of them,
  so the premise holds for `RETRY_COUNT` times the other checkouts (`OthersAreBounded`); that is `FewCheckoutsHoldTheirSeats`.
* **`ReportsProofs`.** Job, task, children and thread move in step; a child is cancelled only for the failure of the other. What is over no step writes to again (`AnswersAreFinal`).

Checked by TLC only: liveness (`EveryCheckoutIsAnswered`, `EveryRequestIsAnswered`, `EveryViewIsWritten`, `EveryStopEnds`, `EveryJobEnds`), which
is beyond the prover, as is everything about `ENABLED`.

## 6. What is not modelled

* **Sales.** No code marks a booking as paid or a seat as sold (`pay_booking` has no body), so the sales on the dashboard are zero and
  the two transactions it reads them in cannot disagree.
* **Cancellation of a request.** `CancelledError` reaches `prepare_checkout` at a forced shutdown only; it passes the `except
  Exception` by, like a death of the process, and is covered by `Crash`.
* **Shutdown of week 1.** Its jobs die with the process and nothing remains to be observed.
* **How a cancelled flush ends.** That psycopg cancels the statement and waits, and that SQLAlchemy rolls back and closes the session behind `asyncio.shield`, is one step here, `CancelEnds` or `CancelFails`,
  which may take for ever. If the worker is cancelled while it commits, the shield lets it go at once and the COMMIT goes on without it; the model has `stop` wait for its end, so it promises less of `stop` there than the code keeps.
* **Requests during `stop`.** uvicorn runs the lifespan's end after the requests are over, so nobody submits behind the signal (`BeginStop` in `ViewPath`);
  without that, `ViewsAreWindows` fails, as its mutant shows.
* **Row labels.** `row_label` is seven lines without state, and no other part depends on the label.
* **Connections.** No code asks for a second connection while it holds one, so the pool makes requests wait but not wait for each other in a circle; the wait is part of
  the time any step may take.
* **`list_events`, `get_job`** are plain reads. The other routes, dependencies, schemas and the rest of the migrations forward or declare. Closing clients at shutdown changes nothing a property is about.
* **The mock APIs** stand in for outside services; the models let those answer in every way the clients tell apart.

## 7. Plan

Done: Checkout with its ledger and dashboard, Quotes, CheckoutInTime, EventCache, EventViews, Reports, RecordView, Seeding, ViewPath, and the proofs above.

What could still be added:

1. **Several events, with the cache.** `EventCache` under `Fetch` in `ViewPath`: an event created by a later deployment, its cached absence, and its first views.
   `CachedEventsExist` already proves the premise on which `Fetch` rests.
2. **An abstract counter** that `EventViews` implements: views arrive, and are stored later or again.
3. **`RowLabels`**, against bijective base 26.
