---------------------------- MODULE CheckoutInTime ----------------------------
(***************************************************************************)
(* Checkout and Quotes by one clock: the checkouts of one server process,   *)
(* each with the calls by which it gets its quotes, for as long as it holds *)
(* its seats.                                                              *)
(*                                                                         *)
(* Checkout does not say how long the quotes take, and Quotes not what they *)
(* are fetched for.  Here a tick is that of Quotes for both, and a step in   *)
(* which prepare_checkout and the clients meet is one of each.  A process   *)
(* that dies confirms nothing, and is left to Checkout.                    *)
(***************************************************************************)
EXTENDS Checkout, QuoteSettings

CONSTANT
    MaxDatabase           \* the bound of a transaction once it has its locks, in ticks

ASSUME CheckoutInTimeAssumption == IsFiniteSet(Checkouts) /\ MaxDatabase \in Nat

VARIABLES
    level, sends, call, begun, attempts, timer, quote_task, budget,
    left                  \* ticks left to the COMMIT or transaction a checkout waits for

Q == INSTANCE Quotes WITH Calls <- Checkouts, pc <- call, protection <- quote_task

quotes == <<level, sends, call, begun, attempts, timer, quote_task, budget>>
timedVars == <<vars, quotes, left>>

TimedInit == Init /\ Q!Init /\ left = [c \in Checkouts |-> 0]

\* From the look at the clock in ReserveSeats to the COMMIT, and from the last
\* quote to the end of the transaction that stores them, passes a bounded time.
Time(c) ==
    left' = [left EXCEPT ![c] = IF pc'[c] \in {"reserving", "applying"} THEN MaxDatabase ELSE 0]

\* What prepare_checkout does before and after the quotes.
AroundQuotes(c) ==
    /\ \/ Reservation(c) \/ ApplyQuotes(c) \/ Release(c)
       \/ ReservationFails(c) \/ ApplyQuotesFails(c) \/ ReleaseFails(c)
    /\ pc'[c] # "quoting"
    /\ Time(c)
    /\ UNCHANGED quotes

\* No await is between the commit, create_task and the call of the payment client.
BeginQuotes(c) == CommitReservation(c) /\ Q!Begin(c) /\ Time(c)

\* Of the attempts only the outcome of the last concerns the checkout.
Attempt(c) ==
    /\ Q!Send(c) \/ Q!Retry(c) \/ (Q!AttemptFails(c) /\ call'[c] = "delaying")
    /\ UNCHANGED <<vars, left>>

PaymentEnds(c) ==
    /\ \/ PaymentQuoted(c) /\ Q!PaymentQuoted(c)
       \/ PaymentFails(c) /\ Q!PaymentRefused(c)
       \/ PaymentFails(c) /\ Q!AttemptFails(c) /\ call'[c] = "failed"
    /\ UNCHANGED left

ProtectionSettles(c) ==
    /\ ProtectionAnswers(c)
    /\ Q!ProtectionEnds(c) \/ Q!BudgetRunsOut(c)
    /\ protection_task'[c] = "priced" <=> quote_task'[c] = "quote"
    /\ UNCHANGED left

QuotesComplete(c) == CollectProtectionQuote(c) /\ Q!CollectProtection(c) /\ Time(c)

TimedTick ==
    /\ Tick /\ Q!Tick
    /\ \A c \in Checkouts : pc[c] \in {"reserving", "applying"} => left[c] > 0
    /\ left' = [c \in Checkouts |-> Q!Less(left[c])]

\* Every checkout is over, or the bound of the clock is reached.
TimedRest ==
    /\ now = MaxTime \/ \A c \in Checkouts : pc[c] \in Finished
    /\ UNCHANGED timedVars

TimedNext ==
    \/ \E c \in Checkouts :
         \/ AroundQuotes(c) \/ BeginQuotes(c) \/ Attempt(c) \/ PaymentEnds(c)
         \/ ProtectionSettles(c) \/ QuotesComplete(c)
    \/ TimedTick
    \/ TimedRest

TimedSpec == TimedInit /\ [][TimedNext]_timedVars

-----------------------------------------------------------------------------
\* The rate holds of the requests of all checkouts, also of those that fail and
\* those that follow when their seats are free again.
RateIsKept == Q!RateIsKept

\* Each of them has its quotes in the time that Quotes allows.
QuotesAreInTime == Q!QuotesAreInTime

\* The longest that the quotes of a checkout can take, if other checkouts send so
\* many requests in the meantime.
PaymentTime(others) == RETRY_COUNT * MaxAttempt + (RETRY_COUNT - 1) * MAX_DELAY + others
QuoteTime(others) ==
    IF PaymentTime(others) < QUOTE_BUDGET THEN QUOTE_BUDGET ELSE PaymentTime(others)

\* No checkout meets more of them at the limiter than that ...
OthersSendAtMost(others) ==
    \A c \in Checkouts : pc[c] \in {"quoting", "collecting"} => Q!OthersSent(c) <= others

\* ... nor than all checkouts but one can send.
MaxOthers == RETRY_COUNT * (Cardinality(Checkouts) - 1)

\* The configuration under which ReturnedBookingHoldsItsSeats is a promise: a
\* booking outlasts what happens between the look at the clock by which it is
\* reserved and the transaction that confirms it.
BookingOutlastsQuotes(others) == 2 * MaxDatabase + QuoteTime(others) < BOOKING_TTL
=============================================================================
