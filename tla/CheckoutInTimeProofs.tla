------------------------ MODULE CheckoutInTimeProofs ------------------------
(***************************************************************************)
(* A booking that outlasts its quotes holds its seats when it is confirmed. *)
(*                                                                         *)
(* CheckoutProofs shows it of quotes that come in time, QuotesProofs bounds *)
(* their time by the requests that the other checkouts send meanwhile, and  *)
(* here the two meet: what is left of each transaction's time ties the      *)
(* clock to the deadline of the booking (Deadline).  As no more requests    *)
(* are sent than there are attempts (RequestsAreAttempts), checkouts that   *)
(* are few enough need no premise on how many they meet.                   *)
(***************************************************************************)
EXTENDS CheckoutInTime, CheckoutProofs, Sequences

\* Quotes with what is proved of it.
QP == INSTANCE QuotesProofs WITH Calls <- Checkouts, pc <- call, protection <- quote_task

-----------------------------------------------------------------------------
(***************************************************************************)
(* The composition takes no step that its parts do not.                    *)
(***************************************************************************)
\* A joint step is a step or a stutter of the checkouts ...
LEMMA CheckoutSteps == [TimedNext]_timedVars => [Next]_vars
<1> SUFFICES ASSUME [TimedNext]_timedVars PROVE [Next]_vars
  OBVIOUS
<1>1. ASSUME NEW c \in Checkouts, AroundQuotes(c) \/ BeginQuotes(c) PROVE Next
  BY <1>1 DEF AroundQuotes, BeginQuotes, Next, prepare_checkout, Reservation, Quoting, Failure
<1>2. ASSUME NEW c \in Checkouts, Attempt(c) PROVE UNCHANGED vars
  BY <1>2 DEF Attempt
<1>3. ASSUME NEW c \in Checkouts, PaymentEnds(c) \/ ProtectionSettles(c) \/ QuotesComplete(c)
      PROVE  Next
  BY <1>3 DEF PaymentEnds, ProtectionSettles, QuotesComplete, Next, prepare_checkout, Quoting
<1>4. CASE TimedTick
  BY <1>4 DEF TimedTick, Next
<1>5. CASE TimedRest \/ UNCHANGED timedVars
  BY <1>5 DEF TimedRest, timedVars
<1> QED
  BY <1>1, <1>2, <1>3, <1>4, <1>5 DEF TimedNext

\* ... and of the quotes; both take the clock for theirs.
LEMMA QuotesSteps == [TimedNext]_timedVars => [Q!Next]_(Q!vars)
<1> SUFFICES ASSUME [TimedNext]_timedVars PROVE [Q!Next]_(Q!vars)
  OBVIOUS
<1> USE DEF Q!vars, Q!limiter, Q!payment, Q!task, quotes
<1>1. ASSUME NEW c \in Checkouts, AroundQuotes(c) PROVE UNCHANGED <<now, quotes>>
  BY <1>1
     DEF AroundQuotes, Reservation, Release, RejectDuplicateSeats, RejectUnknownEvent,
         BeginReservation, LockRequestedRow, RejectMissingSeats, RejectUnavailableSeats,
         ReserveSeats, CommitReservation, ReservationFails, ApplyQuotes, ApplyQuotesFails,
         CancelProtection, BeginRelease, LockReservedRow, CommitRelease, ReleaseFails, given
<1>2. ASSUME NEW c \in Checkouts, BeginQuotes(c) PROVE Q!Next
  BY <1>2 DEF BeginQuotes, Q!Next
<1>3. ASSUME NEW c \in Checkouts, Attempt(c) \/ PaymentEnds(c) PROVE Q!Next
  BY <1>3 DEF Attempt, PaymentEnds, Q!Next, Q!calculate
<1>4. ASSUME NEW c \in Checkouts, ProtectionSettles(c) \/ QuotesComplete(c) PROVE Q!Next
  BY <1>4 DEF ProtectionSettles, QuotesComplete, Q!Next
<1>5. CASE TimedTick
  BY <1>5 DEF TimedTick, Q!Next
<1>6. CASE TimedRest \/ UNCHANGED timedVars
  BY <1>6 DEF TimedRest, timedVars, vars, given
<1> QED
  BY <1>1, <1>2, <1>3, <1>4, <1>5, <1>6 DEF TimedNext

\* Q and QP are the same, name by name.

LEMMA SameCount ==
    ASSUME NEW S PROVE QP!Cardinality(S) = Cardinality(S) /\ Q!Cardinality(S) = Cardinality(S)
BY DEF QP!Cardinality, Q!Cardinality, Cardinality

LEMMA SameRequests ==
    ASSUME NEW c \in Checkouts
    PROVE  /\ QP!SentSince(c) = Q!SentSince(c)
           /\ QP!OthersSent(c) = Cardinality(Q!SentSince(c)) - attempts[c]
           /\ Q!OthersSent(c) = Cardinality(Q!SentSince(c)) - attempts[c]
           /\ QP!Meanwhile(c) = Cardinality(Q!SentSince(c))
BY SameCount
   DEF QP!SentSince, Q!SentSince, QP!OthersSent, Q!OthersSent, QP!Meanwhile

LEMMA SameSteps == [Q!Next]_(Q!vars) => [QP!Next]_(QP!vars)
<1> USE DEF Q!vars, Q!limiter, Q!payment, Q!task, QP!vars, QP!limiter, QP!payment, QP!task,
            Q!At, Q!Goto, QP!At, QP!Goto
<1>1. ASSUME NEW c \in Checkouts, Q!Begin(c) PROVE QP!Next
  <2>1. QP!Begin(c)
    BY <1>1 DEF Q!Begin, QP!Begin
  <2> QED
    BY <2>1 DEF QP!Next
<1>2. ASSUME NEW c \in Checkouts, Q!calculate(c) PROVE QP!Next
  <2>1. QP!calculate(c)
    BY <1>2
       DEF Q!calculate, Q!Send, Q!HasCapacity, Q!PaymentQuoted, Q!PaymentRefused,
           Q!PaymentFails, Q!AttemptFails, Q!IsLastAttempt, Q!Delays, Q!Retry,
           QP!calculate, QP!Send, QP!HasCapacity, QP!PaymentQuoted, QP!PaymentRefused,
           QP!PaymentFails, QP!AttemptFails, QP!IsLastAttempt, QP!Delays, QP!Retry
  <2> QED
    BY <2>1 DEF QP!Next
<1>3. ASSUME NEW c \in Checkouts,
             Q!ProtectionEnds(c) \/ Q!BudgetRunsOut(c) \/ Q!CollectProtection(c)
      PROVE  QP!Next
  <2>1. QP!ProtectionEnds(c) \/ QP!BudgetRunsOut(c) \/ QP!CollectProtection(c)
    BY <1>3
       DEF Q!ProtectionEnds, Q!BudgetRunsOut, Q!CollectProtection,
           QP!ProtectionEnds, QP!BudgetRunsOut, QP!CollectProtection
  <2> QED
    BY <2>1 DEF QP!Next
<1>4. ASSUME Q!Tick PROVE QP!Next
  <2>1. QP!Tick
    BY <1>4 DEF Q!Tick, Q!Idle, Q!HasCapacity, Q!Less, Q!BudgetLeft,
                QP!Tick, QP!Idle, QP!HasCapacity, QP!Less, QP!BudgetLeft
  <2> QED
    BY <2>1 DEF QP!Next
<1>5. ASSUME Q!Rest PROVE UNCHANGED QP!vars
  BY <1>5 DEF Q!Rest
<1> QED
  BY <1>1, <1>2, <1>3, <1>4, <1>5 DEF Q!Next

\* Each part behaves in the composition as it does alone.
THEOREM PartsAgreeOnTime == TimedSpec => Spec /\ Q!Spec /\ QP!Spec
<1>1. TimedInit => Init /\ Q!Init
  BY DEF TimedInit
<1>2. Q!Init => QP!Init
  BY DEF Q!Init, QP!Init
<1> QED
  BY <1>1, <1>2, CheckoutSteps, QuotesSteps, SameSteps, PTL DEF TimedSpec, Spec, Q!Spec, QP!Spec

\* Hence the rate is kept and the quotes are in time ...
LEMMA QuotesKeepTheirInvariant == TimedSpec => []QP!IInv
BY PartsAgreeOnTime, QP!QuotesInvariant, QuotesAssumption, PTL

THEOREM TimedRateIsKept == TimedSpec => []RateIsKept
<1>1. QP!IInv => RateIsKept
  BY DEF QP!IInv, QP!RateIsKept, RateIsKept, Q!RateIsKept
<1> QED
  BY <1>1, QuotesKeepTheirInvariant, PTL

THEOREM TimedQuotesAreInTime == TimedSpec => []QuotesAreInTime
<1>1. QP!QuotesAreInTime => QuotesAreInTime
  BY SameRequests
     DEF QP!QuotesAreInTime, QP!PaymentBound, QP!At, QP!Waits,
         QuotesAreInTime, Q!QuotesAreInTime, Q!PaymentBound, Q!At, Q!Waits
<1> QED
  BY <1>1, PartsAgreeOnTime, QP!TheQuotesAreInTime, QuotesAssumption, PTL

\* The bound is a number.
LEMMA QuoteTimeIsNumber ==
    ASSUME NEW others \in Int PROVE PaymentTime(others) \in Int /\ QuoteTime(others) \in Int
<1>1. RETRY_COUNT * MaxAttempt \in Int /\ (RETRY_COUNT - 1) * MAX_DELAY \in Int
  BY QuotesAssumption
<1>2. PaymentTime(others) \in Int
  BY <1>1 DEF PaymentTime
<1> QED
  BY <1>2, QuotesAssumption DEF QuoteTime

\* A checkout has its quotes within QuoteTime.
LEMMA QuoteTimeIsKept ==
    ASSUME QP!IInv, QP!QuotesAreInTime, NEW others \in Int, OthersSendAtMost(others),
           NEW c \in Checkouts, pc[c] = "collecting", call[c] = "collecting"
    PROVE  now - begun[c] <= QuoteTime(others)
<1>1. /\ QP!Meanwhile(c) \in Nat /\ attempts[c] \in Int
      /\ now \in Nat /\ begun[c] \in Nat
  <2>1. QP!TypeOK
    BY DEF QP!IInv
  <2>2. QP!Counts(c)
    BY <2>1, QP!Numbers, QuotesAssumption
  <2> QED
    BY <2>2 DEF QP!Counts
<1>2. QP!OthersSent(c) <= others /\ QP!OthersSent(c) \in Int
  BY <1>1, SameRequests DEF OthersSendAtMost
<1>3. /\ QP!PaymentBound(c) \in Int /\ PaymentTime(others) \in Int
      /\ QP!PaymentBound(c) <= PaymentTime(others)
  <2>1. RETRY_COUNT * MaxAttempt \in Int /\ (RETRY_COUNT - 1) * MAX_DELAY \in Int
    BY QuotesAssumption
  <2> QED
    BY <1>2, <2>1 DEF QP!PaymentBound, PaymentTime
<1>4. now - begun[c] <= QP!PaymentBound(c) \/ now - begun[c] <= QUOTE_BUDGET
  BY DEF QP!QuotesAreInTime, QP!At
<1> QED
  BY <1>1, <1>3, <1>4, QuotesAssumption DEF QuoteTime

-----------------------------------------------------------------------------
(***************************************************************************)
(* The deadline of a booking, from the look at the clock that sets it to    *)
(* the transaction that confirms it.                                       *)
(***************************************************************************)
AwaitsQuotes == {"quoting", "collecting", "applying"}

Deadline(c, others) ==
    /\ At(c, "reserving") => reserved_until[c] + MaxDatabase = now + BOOKING_TTL + left[c]
    /\ pc[c] \in AwaitsQuotes =>
         /\ bookings[c].reserved_until = reserved_until[c]
         /\ begun[c] + BOOKING_TTL <= reserved_until[c] + MaxDatabase
    /\ At(c, "applying") => now - begun[c] + left[c] <= QuoteTime(others) + MaxDatabase

TimeLeft == left \in [Checkouts -> 0 .. MaxDatabase]

TimedInv(others) == TimeLeft /\ \A c \in Checkouts : Deadline(c, others)

\* What the deadline of d depends on.
Untimed(d) ==
    /\ pc'[d] = pc[d] /\ reserved_until'[d] = reserved_until[d]
    /\ begun'[d] = begun[d] /\ left'[d] = left[d]

\* It is not touched by the steps of the other checkouts, nor by those of its own
\* that leave it waiting.
LEMMA DeadlineStays ==
    ASSUME IInv, [Next]_vars, NEW others \in Int, NEW d \in Checkouts, Deadline(d, others),
           Untimed(d), now' = now
    PROVE  Deadline(d, others)'
<1>1. pc[d] \in AwaitsQuotes => bookings'[d].reserved_until = bookings[d].reserved_until
  <2>1. pc[d] \in AwaitsQuotes => ~Commit(d) /\ ~CommitRelease(d)
    BY DEF AwaitsQuotes, Commit, CommitRelease, At
  <2> QED
    BY <2>1, BookingWrites
<1> QED
  BY <1>1 DEF Deadline, Untimed, At

\* The steps around the quotes start a deadline or end it.
LEMMA AroundQuotesStep ==
    ASSUME IInv, NEW c \in Checkouts, AroundQuotes(c)
    PROVE  /\ now' = now /\ begun' = begun
           /\ \A d \in Checkouts \ {c} :
                pc'[d] = pc[d] /\ reserved_until'[d] = reserved_until[d]
           /\ pc'[c] \notin AwaitsQuotes
           /\ pc'[c] = "reserving" => reserved_until'[c] = now + BOOKING_TTL
<1> DEFINE Done == /\ now' = now
                   /\ \A d \in Checkouts \ {c} :
                        pc'[d] = pc[d] /\ reserved_until'[d] = reserved_until[d]
                   /\ pc'[c] \notin AwaitsQuotes
                   /\ pc'[c] = "reserving" => reserved_until'[c] = now + BOOKING_TTL
<1> USE DEF IInv, TypeOK, AwaitsQuotes, given, At, Goto, Raise, Compensate
<1>1. ASSUME RejectDuplicateSeats(c) \/ RejectUnknownEvent(c) \/ BeginReservation(c) PROVE Done
  BY <1>1 DEF RejectDuplicateSeats, RejectUnknownEvent, BeginReservation
<1>2. ASSUME LockRequestedRow(c) \/ LockReservedRow(c) PROVE Done
  BY <1>2 DEF LockRequestedRow, LockReservedRow
<1>3. ASSUME RejectMissingSeats(c) \/ RejectUnavailableSeats(c) PROVE Done
  BY <1>3 DEF RejectMissingSeats, RejectUnavailableSeats
<1>4. ASSUME ReserveSeats(c) PROVE Done
  BY <1>4 DEF ReserveSeats
<1>5. ASSUME ApplyQuotes(c) PROVE Done
  BY <1>5 DEF ApplyQuotes
<1>6. ASSUME CancelProtection(c) \/ BeginRelease(c) PROVE Done
  BY <1>6 DEF CancelProtection, BeginRelease
<1>7. ASSUME CommitRelease(c) PROVE Done
  BY <1>7 DEF CommitRelease
<1>8. ASSUME ReservationFails(c) PROVE Done
  BY <1>8 DEF ReservationFails
<1>9. ASSUME ApplyQuotesFails(c) PROVE Done
  BY <1>9 DEF ApplyQuotesFails
<1>10. ASSUME ReleaseFails(c) PROVE Done
  BY <1>10 DEF ReleaseFails
<1>11. ~CommitReservation(c)
  BY DEF AroundQuotes, CommitReservation
<1>12. Done
  BY <1>1, <1>2, <1>3, <1>4, <1>5, <1>6, <1>7, <1>8, <1>9, <1>10, <1>11
     DEF AroundQuotes, Reservation, Release
<1>13. begun' = begun
  BY DEF AroundQuotes, quotes
<1> QED
  BY <1>12, <1>13

\* What the steps of one checkout do to the time left to its transactions.
LEMMA TimeStep ==
    ASSUME TimeLeft, NEW c \in Checkouts, Time(c)
    PROVE  /\ TimeLeft'
           /\ \A d \in Checkouts \ {c} : left'[d] = left[d]
           /\ left'[c] = IF pc'[c] \in {"reserving", "applying"} THEN MaxDatabase ELSE 0
BY CheckoutInTimeAssumption DEF TimeLeft, Time

\* Every step keeps the deadlines.
LEMMA TimedStep ==
    ASSUME NEW others \in Int, OthersSendAtMost(others),
           IInv, QP!IInv, QP!QuotesAreInTime, TimedInv(others), [TimedNext]_timedVars
    PROVE  TimedInv(others)'
<1>1. TimeLeft /\ [Next]_vars /\ \A d \in Checkouts : Deadline(d, others)
  BY CheckoutSteps DEF TimedInv
<1>2. /\ now \in Nat /\ begun \in [Checkouts -> Nat] /\ reserved_until \in [Checkouts -> Nat]
      /\ pc \in [Checkouts -> PCs]
      /\ BOOKING_TTL \in Nat /\ MaxDatabase \in Nat
  BY CheckoutAssumption, CheckoutInTimeAssumption DEF IInv, TypeOK, QP!IInv, QP!TypeOK
<1>3. /\ \A d \in Checkouts : left[d] \in 0 .. MaxDatabase
      /\ QuoteTime(others) \in Int
  BY <1>1, QuoteTimeIsNumber DEF TimeLeft
<1>4. ASSUME NEW c \in Checkouts, AroundQuotes(c) PROVE TimedInv(others)'
  <2>1. Time(c)
    BY <1>4 DEF AroundQuotes
  <2>2. ASSUME NEW d \in Checkouts \ {c} PROVE Deadline(d, others)'
    BY <1>1, <1>4, <2>1, <2>2, AroundQuotesStep, TimeStep, DeadlineStays DEF Untimed
  <2>3. Deadline(c, others)'
    BY <1>1, <1>2, <1>4, <2>1, AroundQuotesStep, TimeStep DEF Deadline, At, AwaitsQuotes
  <2> QED
    BY <1>1, <2>1, <2>2, <2>3, TimeStep DEF TimedInv
<1>5. ASSUME NEW c \in Checkouts, BeginQuotes(c) PROVE TimedInv(others)'
  <2>1. Time(c) /\ CommitReservation(c) /\ Q!Begin(c)
    BY <1>5 DEF BeginQuotes
  <2>2. /\ now' = now /\ reserved_until' = reserved_until
        /\ pc[c] = "reserving" /\ pc' = [pc EXCEPT ![c] = "quoting"]
        /\ begun' = [begun EXCEPT ![c] = now]
    BY <2>1 DEF CommitReservation, given, At, Goto, Q!Begin
  <2>3. bookings'[c].reserved_until = reserved_until[c]
    BY <2>1 DEF CommitReservation, StoreReservation, IInv, TypeOK
  <2>4. ASSUME NEW d \in Checkouts \ {c} PROVE Deadline(d, others)'
    BY <1>1, <1>2, <2>1, <2>2, <2>4, TimeStep, DeadlineStays DEF Untimed
  <2>5. Deadline(c, others)'
    BY <1>1, <1>2, <1>3, <2>2, <2>3 DEF Deadline, At, AwaitsQuotes
  <2> QED
    BY <1>1, <2>1, <2>4, <2>5, TimeStep DEF TimedInv
<1>6. ASSUME NEW c \in Checkouts, Attempt(c) \/ ProtectionSettles(c) PROVE TimedInv(others)'
  <2>1. UNCHANGED <<now, pc, reserved_until, left>>
    BY <1>6 DEF Attempt, ProtectionSettles, ProtectionAnswers, vars, given
  <2>2. begun' = begun
    BY <1>6 DEF Attempt, ProtectionSettles, Q!Send, Q!Retry, Q!AttemptFails, Q!PaymentFails,
                Q!ProtectionEnds, Q!BudgetRunsOut
  <2>3. ASSUME NEW d \in Checkouts PROVE Deadline(d, others)'
    BY <1>1, <2>1, <2>2, DeadlineStays DEF Untimed
  <2> QED
    BY <1>1, <2>1, <2>3 DEF TimedInv, TimeLeft
<1>7. ASSUME NEW c \in Checkouts, PaymentEnds(c) PROVE TimedInv(others)'
  <2>1. /\ UNCHANGED <<now, bookings, reserved_until, left>>
        /\ pc[c] = "quoting"
        /\ \E place \in {"collecting", "cancelling"} : pc' = [pc EXCEPT ![c] = place]
    BY <1>7 DEF PaymentEnds, PaymentQuoted, PaymentFails, Compensate, given, tables, At, Goto
  <2>2. begun' = begun
    BY <1>7 DEF PaymentEnds, Q!PaymentQuoted, Q!PaymentRefused, Q!AttemptFails, Q!PaymentFails
  <2>3. ASSUME NEW d \in Checkouts \ {c} PROVE Deadline(d, others)'
    BY <1>1, <1>2, <2>1, <2>2, <2>3, DeadlineStays DEF Untimed
  <2>4. Deadline(c, others)'
    BY <1>1, <1>2, <2>1, <2>2 DEF Deadline, At, AwaitsQuotes
  <2> QED
    BY <1>1, <2>1, <2>3, <2>4 DEF TimedInv, TimeLeft
<1>8. ASSUME NEW c \in Checkouts, QuotesComplete(c) PROVE TimedInv(others)'
  <2>1. Time(c) /\ CollectProtectionQuote(c) /\ Q!CollectProtection(c)
    BY <1>8 DEF QuotesComplete
  <2>2. /\ UNCHANGED <<now, bookings, reserved_until>>
        /\ pc[c] = "collecting" /\ pc' = [pc EXCEPT ![c] = "applying"]
    BY <2>1 DEF CollectProtectionQuote, given, tables, At, Goto
  <2>3. begun' = begun /\ call[c] = "collecting"
    BY <2>1 DEF Q!CollectProtection, Q!At
  <2>4. now - begun[c] <= QuoteTime(others)
    BY <2>2, <2>3, QuoteTimeIsKept
  <2>5. left'[c] = MaxDatabase
    BY <1>1, <1>2, <2>1, <2>2, TimeStep
  <2>6. ASSUME NEW d \in Checkouts \ {c} PROVE Deadline(d, others)'
    BY <1>1, <1>2, <2>1, <2>2, <2>3, <2>6, TimeStep, DeadlineStays DEF Untimed
  <2>7. Deadline(c, others)'
    BY <1>1, <1>2, <1>3, <2>2, <2>3, <2>4, <2>5 DEF Deadline, At, AwaitsQuotes
  <2> QED
    BY <1>1, <2>1, <2>6, <2>7, TimeStep DEF TimedInv
<1>9. CASE TimedTick
  <2>1. /\ now' = now + 1
        /\ UNCHANGED <<bookings, pc, reserved_until, begun>>
        /\ \A d \in Checkouts : pc[d] \in {"reserving", "applying"} => left[d] > 0
        /\ left' = [d \in Checkouts |-> IF left[d] = 0 THEN 0 ELSE left[d] - 1]
    BY <1>9 DEF TimedTick, Tick, tables, Q!Tick, Q!Less
  <2>2. TimeLeft'
    BY <1>2, <1>3, <2>1 DEF TimeLeft
  <2>3. ASSUME NEW d \in Checkouts PROVE Deadline(d, others)'
    BY <1>1, <1>2, <1>3, <2>1 DEF Deadline, At, AwaitsQuotes
  <2> QED
    BY <2>2, <2>3 DEF TimedInv
<1>10. CASE TimedRest \/ UNCHANGED timedVars
  BY <1>1, <1>10, DeadlineStays
     DEF TimedRest, timedVars, vars, given, quotes, TimedInv, TimeLeft, Untimed
<1> QED
  BY <1>4, <1>5, <1>6, <1>7, <1>8, <1>9, <1>10 DEF TimedNext

\* The deadlines hold throughout.
LEMMA TimedInvariant ==
    ASSUME NEW others \in Int
    PROVE  TimedSpec /\ []OthersSendAtMost(others) => []TimedInv(others)
<1>1. TimedInit => TimedInv(others)
  BY CheckoutInTimeAssumption DEF TimedInit, Init, TimedInv, TimeLeft, Deadline, At, AwaitsQuotes
<1>2. ASSUME OthersSendAtMost(others), IInv, QP!IInv, QP!QuotesAreInTime,
             TimedInv(others), [TimedNext]_timedVars
      PROVE  TimedInv(others)'
  BY <1>2, TimedStep
<1>3. TimedSpec => []QP!QuotesAreInTime
  BY PartsAgreeOnTime, QP!TheQuotesAreInTime, QuotesAssumption, PTL
<1> QED
  BY <1>1, <1>2, <1>3, PartsAgreeOnTime, CheckoutInvariant, QuotesKeepTheirInvariant,
     PTL DEF TimedSpec

\* A booking that outlasts its quotes still holds every one of its seats when it is
\* confirmed: the conditional update of apply_quotes, which does not look at the
\* seats, is enough under such a configuration, as long as no checkout meets more
\* requests of others than that counts on.
THEOREM ConfirmedBookingsHoldTheirSeats ==
    ASSUME NEW others \in Int, BookingOutlastsQuotes(others)
    PROVE  TimedSpec /\ []OthersSendAtMost(others) => ReturnedBookingHoldsItsSeats
<1>1. IInv /\ QP!IInv /\ TimedInv(others) => QuotesComeInTime
  <2> SUFFICES ASSUME IInv, QP!IInv, TimedInv(others), NEW c \in Checkouts, At(c, "applying")
               PROVE  bookings[c].reserved_until > now
    BY DEF QuotesComeInTime
  <2>1. /\ bookings[c].reserved_until = reserved_until[c]
        /\ begun[c] + BOOKING_TTL <= reserved_until[c] + MaxDatabase
        /\ now - begun[c] + left[c] <= QuoteTime(others) + MaxDatabase
    BY DEF TimedInv, Deadline, At, AwaitsQuotes
  <2>2. /\ now \in Int /\ begun[c] \in Int /\ reserved_until[c] \in Int /\ left[c] \in Nat
        /\ BOOKING_TTL \in Int /\ MaxDatabase \in Int
    BY CheckoutAssumption, CheckoutInTimeAssumption
       DEF IInv, TypeOK, QP!IInv, QP!TypeOK, TimedInv, TimeLeft
  <2>3. QuoteTime(others) \in Int
    BY QuoteTimeIsNumber
  <2> QED
    BY <2>1, <2>2, <2>3 DEF BookingOutlastsQuotes
<1> QED
  BY <1>1, PartsAgreeOnTime, CheckoutInvariant, QuotesKeepTheirInvariant, TimedInvariant,
     ConfirmedInTimeHoldsItsSeats, PTL

-----------------------------------------------------------------------------
(***************************************************************************)
(* Few checkouts need no such premise: they send no more than they attempt. *)
(***************************************************************************)
RequestsAreAttempts == Len(sends) = SumFunction(attempts)

\* The functions of Checkouts with values up to n have a sum up to that.
LEMMA SumIsBounded ==
    ASSUME NEW n \in Nat, NEW f \in [Checkouts -> 0 .. n], NEW c \in Checkouts
    PROVE  SumFunction(f) - f[c] <= n * (Cardinality(Checkouts) - 1)
<1> DEFINE g == [f EXCEPT ![c] = 0]
           TheRest == Checkouts \ {c}
<1>1. IsFiniteSet(Checkouts) /\ Cardinality(Checkouts) \in Nat
  BY CheckoutInTimeAssumption, FS_CardinalityType
<1>2. f \in [Checkouts -> Nat] /\ g \in [Checkouts -> Nat]
  OBVIOUS
<1>3. SumFunction(f) \in Nat /\ SumFunction(g) \in Nat
  BY <1>1, <1>2, SumType
<1>4. SumFunction(g) + f[c] = SumFunction(f) + g[c]
  <2>1. \A d \in Checkouts \ {c} : g[d] = f[d]
    OBVIOUS
  <2> HIDE DEF g
  <2> QED
    BY <1>1, <1>2, <2>1, SumOfChange
<1>5. SumFunction(g) = SumFunction(f) - f[c]
  <2>1. g[c] = 0 /\ f[c] \in Nat
    OBVIOUS
  <2> QED
    BY ONLY <1>3, <1>4, <2>1
<1>6. IsFiniteSet(TheRest) /\ Cardinality(TheRest) = Cardinality(Checkouts) - 1
  BY <1>1, FS_RemoveElement
<1>7. IsFiniteSet(0 .. n - 1) /\ Cardinality(0 .. n - 1) = n
  <2>1. 0 \in Int /\ n - 1 \in Int
    OBVIOUS
  <2>2. /\ IsFiniteSet(0 .. n - 1)
        /\ Cardinality(0 .. n - 1) = IF 0 > n - 1 THEN 0 ELSE n - 1 - 0 + 1
    BY <2>1, FS_Interval
  <2> QED
    BY <2>2
<1>8. /\ IsFiniteSet(TheRest \X (0 .. n - 1))
      /\ Cardinality(TheRest \X (0 .. n - 1)) = Cardinality(TheRest) * n
  BY <1>6, <1>7, FS_Product
<1>9. SumFunction(g) = Cardinality(Pile(g, Checkouts))
  <2>1. \A x \in Checkouts : g[x] \in Nat
    BY <1>2
  <2> QED
    BY <1>1, <1>2, <2>1, SumIsPile DEF SumFunction
<1>10. Pile(g, Checkouts) \subseteq TheRest \X (0 .. n - 1)
  BY DEF Pile
<1>11. Cardinality(Pile(g, Checkouts)) <= Cardinality(TheRest) * n
  <2>1. Cardinality(Pile(g, Checkouts)) <= Cardinality(TheRest \X (0 .. n - 1))
    BY <1>8, <1>10, FS_Subset
  <2> QED
    BY <1>8, <2>1
<1> QED
  BY ONLY <1>1, <1>5, <1>6, <1>9, <1>11, n \in Nat

\* Only a request makes an attempt.
LEMMA RequestsStep ==
    ASSUME QP!TypeOK, RequestsAreAttempts, [QP!Next]_(QP!vars)
    PROVE  RequestsAreAttempts'
<1> USE DEF QP!vars, QP!limiter, QP!payment, QP!task
<1>1. ASSUME NEW c \in Checkouts, QP!Send(c) PROVE RequestsAreAttempts'
  <2>1. /\ attempts \in [Checkouts -> Nat]
        /\ attempts' \in [Checkouts -> Nat]
        /\ attempts'[c] = attempts[c] + 1
        /\ \A d \in Checkouts \ {c} : attempts'[d] = attempts[d]
    BY <1>1, QuotesAssumption DEF QP!TypeOK, QP!Send
  <2>2. SumFunction(attempts') + attempts[c] = SumFunction(attempts) + attempts'[c]
    BY <2>1, CheckoutInTimeAssumption, SumOfChange
  <2>3. SumFunction(attempts') \in Nat /\ SumFunction(attempts) \in Nat /\ attempts[c] \in Nat
    BY <2>1, CheckoutInTimeAssumption, SumType
  <2>4. SumFunction(attempts') = SumFunction(attempts) + 1
    BY ONLY <2>1, <2>2, <2>3
  <2>5. Len(sends') = Len(sends) + 1
    BY <1>1 DEF QP!TypeOK, QP!Send
  <2> QED
    BY <2>4, <2>5 DEF RequestsAreAttempts
<1>2. ASSUME UNCHANGED <<sends, attempts>> PROVE RequestsAreAttempts'
  BY <1>2 DEF RequestsAreAttempts
<1>3. ASSUME NEW c \in Checkouts, QP!PaymentQuoted(c) \/ QP!PaymentFails(c) \/ QP!AttemptFails(c)
      PROVE  UNCHANGED <<sends, attempts>>
  BY <1>3 DEF QP!PaymentQuoted, QP!PaymentFails, QP!AttemptFails
<1>4. ASSUME NEW c \in Checkouts, QP!Retry(c) PROVE UNCHANGED <<sends, attempts>>
  BY <1>4 DEF QP!Retry
<1>5. ASSUME NEW c \in Checkouts,
             \/ QP!Begin(c) \/ QP!ProtectionEnds(c) \/ QP!BudgetRunsOut(c)
             \/ QP!CollectProtection(c)
      PROVE  UNCHANGED <<sends, attempts>>
  BY <1>5 DEF QP!Begin, QP!ProtectionEnds, QP!BudgetRunsOut, QP!CollectProtection
<1>6. ASSUME QP!Tick \/ QP!Rest \/ UNCHANGED QP!vars PROVE UNCHANGED <<sends, attempts>>
  BY <1>6 DEF QP!Tick, QP!Rest
<1> QED
  BY <1>1, <1>2, <1>3, <1>4, <1>5, <1>6 DEF QP!Next, QP!calculate, QP!PaymentRefused


\* The requests that a checkout meets are not more than the other checkouts send.
LEMMA OthersAreBounded ==
    QP!TypeOK /\ RequestsAreAttempts => OthersSendAtMost(MaxOthers)
<1> SUFFICES ASSUME QP!TypeOK, RequestsAreAttempts, NEW c \in Checkouts
             PROVE  Q!OthersSent(c) <= MaxOthers
  BY DEF OthersSendAtMost
<1>1. /\ attempts \in [Checkouts -> 0 .. RETRY_COUNT] /\ sends \in Seq(Nat)
      /\ RETRY_COUNT \in Nat /\ attempts[c] \in Int
  BY QuotesAssumption DEF QP!TypeOK
<1>2. SumFunction(attempts) - attempts[c] <= MaxOthers
  BY <1>1, SumIsBounded DEF MaxOthers
<1>3. Cardinality(Q!SentSince(c)) \in Nat /\ Cardinality(Q!SentSince(c)) <= Len(sends)
  <2>1. Q!SentSince(c) \subseteq 1 .. Len(sends) /\ Len(sends) \in Nat
    BY <1>1 DEF Q!SentSince
  <2>2. IsFiniteSet(1 .. Len(sends)) /\ Cardinality(1 .. Len(sends)) = Len(sends)
    <3>1. 1 \in Int /\ Len(sends) \in Int
      BY <2>1
    <3>2. /\ IsFiniteSet(1 .. Len(sends))
          /\ Cardinality(1 .. Len(sends)) = IF 1 > Len(sends) THEN 0 ELSE Len(sends) - 1 + 1
      BY <3>1, FS_Interval
    <3> QED
      BY <2>1, <3>2
  <2> QED
    BY <2>1, <2>2, FS_Subset, FS_CardinalityType
<1>4. MaxOthers \in Int
  BY <1>1, CheckoutInTimeAssumption, FS_CardinalityType DEF MaxOthers
<1> QED
  BY <1>1, <1>2, <1>3, <1>4, SameRequests DEF RequestsAreAttempts

\* So few checkouts that a booking outlasts its quotes, even if each of the others
\* makes all of its attempts first, hold their seats when they are confirmed.
THEOREM FewCheckoutsHoldTheirSeats ==
    BookingOutlastsQuotes(MaxOthers) => (TimedSpec => ReturnedBookingHoldsItsSeats)
<1>0. MaxOthers \in Int
  BY CheckoutInTimeAssumption, QuotesAssumption, FS_CardinalityType DEF MaxOthers
<1> SUFFICES ASSUME NEW others \in Int, others = MaxOthers, BookingOutlastsQuotes(others)
             PROVE  TimedSpec => ReturnedBookingHoldsItsSeats
  BY <1>0
<1>1. TimedInit => RequestsAreAttempts
  <2> SUFFICES ASSUME TimedInit PROVE RequestsAreAttempts
    OBVIOUS
  <2>1. /\ attempts \in [Checkouts -> Nat] /\ \A c \in Checkouts : attempts[c] = 0
        /\ Len(sends) = 0
    BY DEF TimedInit, Q!Init
  <2> QED
    BY <2>1, CheckoutInTimeAssumption, SumOfZeros DEF RequestsAreAttempts
<1>2. QP!IInv => QP!TypeOK
  BY DEF QP!IInv
<1>3. QP!TypeOK /\ RequestsAreAttempts => OthersSendAtMost(others)
  BY OthersAreBounded
<1>4. TimedSpec => []OthersSendAtMost(others)
  BY <1>1, <1>2, <1>3, QuotesSteps, SameSteps, RequestsStep, QuotesKeepTheirInvariant,
     PTL DEF TimedSpec
<1> QED
  BY <1>4, ConfirmedBookingsHoldTheirSeats, PTL
=============================================================================
