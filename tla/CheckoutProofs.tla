--------------------------- MODULE CheckoutProofs ---------------------------
(***************************************************************************)
(* The safety of prepare_checkout, for any number of requests, rows and    *)
(* ticks: IInv of Checkout is inductive, and the properties follow from    *)
(* it.  The actions that write nothing, those that only end a transaction  *)
(* and those that commit the reservation are first reduced to what they do *)
(* to the locks and the tables (Quiet, Rollback, Commit and Quotes below); *)
(* then there is one lemma for each part of IInv.                          *)
(***************************************************************************)
EXTENDS Dashboard, CheckoutLedger, FiniteSums, TLAPS

Others(c) == Checkouts \ {c}

\* What EndTransaction does to the locks.
Unlocks(c) ==
    /\ \A r \in EventSeats : row_lock'[r] = IF row_lock[r] = c THEN NULL ELSE row_lock[r]
    /\ to_lock'[c] = {}
    /\ \A d \in Others(c) : to_lock'[d] = to_lock[d]

OnlyMoves(c) == \A d \in Others(c) : pc'[d] = pc[d]

\* c stays where it is, or goes from one step outside any transaction to another.
Quiet(c) ==
    /\ UNCHANGED <<now, event_seats, bookings, row_lock, to_lock, reserved_until>>
    /\ pc'[c] = pc[c] \/ (pc[c] \notin InTransaction /\ pc'[c] \notin InTransaction)
    /\ OnlyMoves(c)

\* c ends its transaction, if it is in one, without any effect.
Rollback(c) ==
    /\ UNCHANGED <<now, event_seats, bookings, reserved_until>>
    /\ pc'[c] \notin InTransaction
    /\ OnlyMoves(c)
    /\ Unlocks(c)

\* c commits its reservation.
Commit(c) ==
    /\ At(c, "reserving")
    /\ StoreReservation(c)
    /\ UNCHANGED <<now, reserved_until>>
    /\ pc'[c] \notin InTransaction
    /\ OnlyMoves(c)
    /\ Unlocks(c)

\* c changes no more of its booking than the quotes.
Quotes(c) ==
    /\ UNCHANGED <<now, event_seats, row_lock, to_lock, reserved_until>>
    /\ \A d \in Checkouts : /\ (bookings'[d] = NULL) <=> (bookings[d] = NULL)
                            /\ bookings'[d].status = bookings[d].status
                            /\ bookings'[d].reserved_until = bookings[d].reserved_until
    /\ pc[c] \notin InTransaction
    /\ pc'[c] \notin InTransaction
    /\ OnlyMoves(c)

-----------------------------------------------------------------------------
\* apply_quotes changes no booking's status or time, and creates none.
LEMMA StoreQuotesStep ==
    ASSUME IInv, NEW c \in Checkouts, At(c, "applying"), StoreQuotes(c)
    PROVE  /\ bookings' \in [Checkouts -> Booking \cup {NULL}]
           /\ \A d \in Checkouts : /\ (bookings'[d] = NULL) <=> (bookings[d] = NULL)
                                   /\ bookings'[d].status = bookings[d].status
                                   /\ bookings'[d].reserved_until = bookings[d].reserved_until
<1>1. bookings[c] \in Booking
  BY DEF IInv, TypeOK, BookingFollowsRequest, At
<1>2. bookings'[c] \in Booking /\ bookings'[c] # NULL
  <2>1. bookings'[c] \in Booking
    BY <1>1 DEF IInv, TypeOK, StoreQuotes, Booking
  <2> QED
    BY <2>1, NullAssumption
<1>3. /\ bookings'[c].status = bookings[c].status
      /\ bookings'[c].reserved_until = bookings[c].reserved_until
  BY <1>1 DEF IInv, TypeOK, StoreQuotes, Booking
<1>4. \A d \in Checkouts : d # c => bookings'[d] = bookings[d]
  BY DEF IInv, TypeOK, StoreQuotes
<1>5. DOMAIN bookings' = Checkouts /\ bookings' = [d \in Checkouts |-> bookings'[d]]
  BY DEF IInv, TypeOK, StoreQuotes
<1> QED
  BY <1>1, <1>2, <1>3, <1>4, <1>5, NullAssumption DEF IInv, TypeOK

\* The reservation adds one booking, and its locked rows are the ones it gets.
LEMMA StoreReservationStep ==
    ASSUME IInv, NEW c \in Checkouts, At(c, "reserving"), StoreReservation(c)
    PROVE  /\ bookings' \in [Checkouts -> Booking \cup {NULL}]
           /\ event_seats' \in [EventSeats -> EventSeat]
           /\ bookings'[c] # NULL
           /\ bookings'[c].status = "pending_payment"
           /\ bookings'[c].reserved_until = reserved_until[c]
           /\ \A d \in Checkouts : d # c => bookings'[d] = bookings[d]
           /\ \A r \in LockedBy(c) : event_seats'[r] = ReservedFor(c)
           /\ \A r \in EventSeats : r \notin LockedBy(c) => event_seats'[r] = event_seats[r]
<1>1. bookings'[c] = [status |-> "pending_payment", reserved_until |-> reserved_until[c],
                      payment_commission |-> "zero", protection_price |-> NULL]
  BY DEF IInv, TypeOK, StoreReservation
<1>2. bookings'[c] \in Booking
  BY <1>1 DEF IInv, TypeOK, Booking, BookingStatus
<1>3. ReservedFor(c) \in EventSeat
  BY DEF IInv, TypeOK, EventSeat, SeatStatus, ReservedFor
<1>4. bookings' \in [Checkouts -> Booking \cup {NULL}]
  BY <1>2 DEF IInv, TypeOK, StoreReservation
<1>5. event_seats' \in [EventSeats -> EventSeat]
  BY <1>3 DEF IInv, TypeOK, StoreReservation
<1> QED
  BY <1>1, <1>2, <1>4, <1>5, NullAssumption DEF IInv, TypeOK, StoreReservation, LockedBy

\* Every step has one of these effects.
LEMMA StepKinds ==
    ASSUME IInv, [Next]_vars
    PROVE  \/ \E c \in Checkouts :
                 \/ Quiet(c) \/ Rollback(c) \/ Commit(c) \/ Quotes(c)
                 \/ BeginReservation(c) \/ LockRequestedRow(c) \/ ReserveSeats(c)
                 \/ BeginRelease(c) \/ LockReservedRow(c) \/ CommitRelease(c)
           \/ Tick
           \/ UNCHANGED vars
<1> USE DEF IInv, TypeOK, OnlyMoves, Others, Unlocks, InTransaction, At, Goto, Raise, Compensate,
            EndTransaction, RowsLocked, given, tables, locks
<1>1. ASSUME NEW c \in Checkouts, RejectDuplicateSeats(c) \/ RejectUnknownEvent(c)
      PROVE  Quiet(c)
  BY <1>1 DEF Quiet, RejectDuplicateSeats, RejectUnknownEvent
<1>2. ASSUME NEW c \in Checkouts, ProtectionAnswers(c) PROVE Quiet(c)
  <2>1. UNCHANGED <<given, tables, locks, pc, reserved_until, answer>>
    BY <1>2 DEF ProtectionAnswers
  <2> QED
    BY <2>1 DEF Quiet
<1>3. ASSUME NEW c \in Checkouts, PaymentQuoted(c) \/ PaymentFails(c) \/ CollectProtectionQuote(c)
      PROVE  Quiet(c)
  BY <1>3 DEF Quiet, PaymentQuoted, PaymentFails, CollectProtectionQuote
<1>4. ASSUME NEW c \in Checkouts, CancelProtection(c) PROVE Quiet(c)
  BY <1>4 DEF Quiet, CancelProtection
<1>5. ASSUME NEW c \in Checkouts, RejectMissingSeats(c) \/ RejectUnavailableSeats(c)
      PROVE  Rollback(c)
  BY <1>5 DEF Rollback, RejectMissingSeats, RejectUnavailableSeats
<1>6. ASSUME NEW c \in Checkouts, ReleaseFails(c) PROVE Rollback(c)
  BY <1>6 DEF Rollback, ReleaseFails
<1>7. ASSUME NEW c \in Checkouts, Crash(c) PROVE Rollback(c)
  BY <1>7 DEF Rollback, Crash
<1>8. ASSUME NEW c \in Checkouts, CommitReservation(c) PROVE Commit(c)
  BY <1>8 DEF Commit, CommitReservation
<1>9. ASSUME NEW c \in Checkouts, ReservationFails(c) PROVE Rollback(c) \/ Commit(c)
  BY <1>9 DEF Rollback, Commit, ReservationFails
<1>10. ASSUME NEW c \in Checkouts, ApplyQuotes(c) \/ ApplyQuotesFails(c)
       PROVE  Quotes(c)
  <2>1. pc[c] = "applying" /\ OnlyMoves(c) /\ pc'[c] \notin InTransaction
    BY <1>10 DEF ApplyQuotes, ApplyQuotesFails
  <2>2. UNCHANGED <<now, event_seats, row_lock, to_lock, reserved_until>>
    BY <1>10 DEF ApplyQuotes, ApplyQuotesFails
  <2>3. UNCHANGED bookings \/ StoreQuotes(c)
    BY <1>10 DEF ApplyQuotes, ApplyQuotesFails
  <2> QED
    BY <2>1, <2>2, <2>3, StoreQuotesStep DEF Quotes
<1> QED
  BY <1>1, <1>2, <1>3, <1>4, <1>5, <1>6, <1>7, <1>8, <1>9, <1>10
     DEF Next, prepare_checkout, Reservation, Quoting, Release, Failure, Rest

\* A request keeps its arguments, and so the rows it is about.
LEMMA RequestedRowsStay ==
    ASSUME [Next]_vars
    PROVE  \A c \in Checkouts : RequestedRows(c)' = RequestedRows(c)
<1>1. request' = request
  BY DEF Next, prepare_checkout, Reservation, Quoting, Release, Failure, Rest, given, vars,
         RejectDuplicateSeats, RejectUnknownEvent, BeginReservation, LockRequestedRow,
         RejectMissingSeats, RejectUnavailableSeats, ReserveSeats, CommitReservation,
         ReservationFails, ProtectionAnswers, PaymentQuoted, PaymentFails,
         CollectProtectionQuote, ApplyQuotes, ApplyQuotesFails, CancelProtection, BeginRelease,
         LockReservedRow, CommitRelease, ReleaseFails, Crash, Tick
<1> QED
  BY <1>1 DEF RequestedRows

-----------------------------------------------------------------------------
\* Type correctness: the writes of every action stay within the tables' types.
LEMMA TypeOKStep ==
    ASSUME IInv, [Next]_vars PROVE TypeOK'
<1> USE CheckoutAssumption, NullAssumption
        DEF At, Goto, given, tables, locks, Raise, Compensate, EndTransaction,
            BookingFollowsRequest, PCs, Finished, Answers, DomainErrors, SeatStatus,
            BookingStatus, TypeOK, IInv, EventSeat, Booking, InTransaction
<1>1. ASSUME NEW c \in Checkouts, RejectDuplicateSeats(c) PROVE TypeOK'
  BY <1>1 DEF RejectDuplicateSeats
<1>2. ASSUME NEW c \in Checkouts, RejectUnknownEvent(c) PROVE TypeOK'
  BY <1>2 DEF RejectUnknownEvent
<1>3. ASSUME NEW c \in Checkouts, BeginReservation(c) PROVE TypeOK'
  BY <1>3 DEF BeginReservation, RequestedRows
<1>4. ASSUME NEW c \in Checkouts, LockRequestedRow(c) PROVE TypeOK'
  BY <1>4 DEF LockRequestedRow
<1>5. ASSUME NEW c \in Checkouts, RejectMissingSeats(c) PROVE TypeOK'
  BY <1>5 DEF RejectMissingSeats, RowsLocked
<1>6. ASSUME NEW c \in Checkouts, RejectUnavailableSeats(c) PROVE TypeOK'
  BY <1>6 DEF RejectUnavailableSeats, RowsLocked
<1>7. ASSUME NEW c \in Checkouts, ReserveSeats(c) PROVE TypeOK'
  BY <1>7 DEF ReserveSeats, RowsLocked
<1>8. ASSUME NEW c \in Checkouts, CommitReservation(c) PROVE TypeOK'
  BY <1>8, StoreReservationStep DEF CommitReservation
<1>9. ASSUME NEW c \in Checkouts, ReservationFails(c) PROVE TypeOK'
  BY <1>9, StoreReservationStep DEF ReservationFails
<1>10. ASSUME NEW c \in Checkouts, ProtectionAnswers(c) PROVE TypeOK'
  BY <1>10 DEF ProtectionAnswers
<1>11. ASSUME NEW c \in Checkouts, PaymentQuoted(c) PROVE TypeOK'
  BY <1>11 DEF PaymentQuoted
<1>12. ASSUME NEW c \in Checkouts, PaymentFails(c) PROVE TypeOK'
  BY <1>12 DEF PaymentFails
<1>13. ASSUME NEW c \in Checkouts, CollectProtectionQuote(c) PROVE TypeOK'
  BY <1>13 DEF CollectProtectionQuote
<1>14. ASSUME NEW c \in Checkouts, ApplyQuotes(c) PROVE TypeOK'
  <2>1. CASE QuotesApplicable(c)
    <3>1. bookings' \in [Checkouts -> Booking \cup {NULL}]
      BY <1>14, <2>1, StoreQuotesStep DEF ApplyQuotes
    <3>2. pc' \in [Checkouts -> PCs] /\ answer' \in [Checkouts -> Answers]
      BY <1>14, <2>1 DEF ApplyQuotes
    <3>3. UNCHANGED <<given, locks, event_seats, reserved_until, protection_task>>
      BY <1>14 DEF ApplyQuotes
    <3> QED
      BY <3>1, <3>2, <3>3
  <2>2. CASE ~QuotesApplicable(c)
    <3>1. pc' \in [Checkouts -> PCs] /\ answer' \in [Checkouts -> Answers]
      BY <1>14, <2>2 DEF ApplyQuotes
    <3>2. UNCHANGED <<given, locks, event_seats, bookings, reserved_until, protection_task>>
      BY <1>14, <2>2 DEF ApplyQuotes
    <3> QED
      BY <3>1, <3>2
  <2> QED
    BY <2>1, <2>2
<1>15. ASSUME NEW c \in Checkouts, ApplyQuotesFails(c) PROVE TypeOK'
  BY <1>15, StoreQuotesStep DEF ApplyQuotesFails
<1>16. ASSUME NEW c \in Checkouts, CancelProtection(c) PROVE TypeOK'
  BY <1>16 DEF CancelProtection
<1>17. ASSUME NEW c \in Checkouts, BeginRelease(c) PROVE TypeOK'
  BY <1>17 DEF BeginRelease
<1>18. ASSUME NEW c \in Checkouts, LockReservedRow(c) PROVE TypeOK'
  BY <1>18 DEF LockReservedRow
<1>19. ASSUME NEW c \in Checkouts, CommitRelease(c) PROVE TypeOK'
  <2>1. FreeSeat \in EventSeat
    BY DEF FreeSeat
  <2>2. event_seats' \in [EventSeats -> EventSeat]
    BY ONLY <1>19, <2>1, IInv DEF CommitRelease, IInv, TypeOK
  <2>3. bookings[c] \in Booking
    BY <1>19 DEF CommitRelease
  <2>4. [bookings[c] EXCEPT !.status = "cancelled"] \in Booking
    BY <2>3
  <2>5. bookings' \in [Checkouts -> Booking \cup {NULL}]
    BY ONLY <1>19, <2>3, <2>4, IInv DEF CommitRelease, IInv, TypeOK
  <2>6. answer' \in [Checkouts -> Answers] /\ pc' \in [Checkouts -> PCs]
    <3>1. answer' = answer \/ answer' = [answer EXCEPT ![c] = "InternalError"]
      BY <1>19 DEF CommitRelease
    <3>2. pc' = [pc EXCEPT ![c] = "raised"]
      BY <1>19 DEF CommitRelease
    <3> QED
      BY ONLY <3>1, <3>2, IInv DEF IInv, TypeOK, PCs, Finished, Answers
  <2> QED
    BY <1>19, <2>2, <2>5, <2>6 DEF CommitRelease
<1>20. ASSUME NEW c \in Checkouts, ReleaseFails(c) PROVE TypeOK'
  BY <1>20 DEF ReleaseFails
<1>21. ASSUME NEW c \in Checkouts, Crash(c) PROVE TypeOK'
  BY <1>21 DEF Crash
<1>22. CASE Tick
  BY <1>22 DEF Tick
<1>23. CASE UNCHANGED vars
  BY <1>23 DEF vars
<1> QED
  BY <1>1, <1>2, <1>3, <1>4, <1>5, <1>6, <1>7, <1>8, <1>9, <1>10, <1>11, <1>12, <1>13,
     <1>14, <1>15, <1>16, <1>17, <1>18, <1>19, <1>20, <1>21, <1>22, <1>23 DEF Next,
     prepare_checkout, Reservation, Quoting, Release, Failure, Rest

\* The booking keeps step with its request.
LEMMA BookingFollowsRequestStep ==
    ASSUME IInv, [Next]_vars PROVE BookingFollowsRequest'
<1> USE CheckoutAssumption, NullAssumption
        DEF At, Goto, given, tables, locks, Raise, Compensate, EndTransaction,
            BookingFollowsRequest, DomainErrors, Answers, Finished, TypeOK, IInv, EventSeat,
            Booking, InTransaction
<1>1. ASSUME NEW c \in Checkouts, RejectDuplicateSeats(c) PROVE BookingFollowsRequest'
  BY <1>1 DEF RejectDuplicateSeats
<1>2. ASSUME NEW c \in Checkouts, RejectUnknownEvent(c) PROVE BookingFollowsRequest'
  BY <1>2 DEF RejectUnknownEvent
<1>3. ASSUME NEW c \in Checkouts, BeginReservation(c) PROVE BookingFollowsRequest'
  BY <1>3 DEF BeginReservation, RequestedRows
<1>4. ASSUME NEW c \in Checkouts, LockRequestedRow(c) PROVE BookingFollowsRequest'
  BY <1>4 DEF LockRequestedRow
<1>5. ASSUME NEW c \in Checkouts, RejectMissingSeats(c) PROVE BookingFollowsRequest'
  BY <1>5 DEF RejectMissingSeats, RowsLocked
<1>6. ASSUME NEW c \in Checkouts, RejectUnavailableSeats(c) PROVE BookingFollowsRequest'
  BY <1>6 DEF RejectUnavailableSeats, RowsLocked
<1>7. ASSUME NEW c \in Checkouts, ReserveSeats(c) PROVE BookingFollowsRequest'
  BY <1>7 DEF ReserveSeats, RowsLocked
<1>8. ASSUME NEW c \in Checkouts, CommitReservation(c) PROVE BookingFollowsRequest'
  BY <1>8, StoreReservationStep DEF CommitReservation
<1>9. ASSUME NEW c \in Checkouts, ReservationFails(c) PROVE BookingFollowsRequest'
  BY <1>9, StoreReservationStep DEF ReservationFails
<1>10. ASSUME NEW c \in Checkouts, ProtectionAnswers(c) PROVE BookingFollowsRequest'
  BY <1>10 DEF ProtectionAnswers
<1>11. ASSUME NEW c \in Checkouts, PaymentQuoted(c) PROVE BookingFollowsRequest'
  BY <1>11 DEF PaymentQuoted
<1>12. ASSUME NEW c \in Checkouts, PaymentFails(c) PROVE BookingFollowsRequest'
  BY <1>12 DEF PaymentFails
<1>13. ASSUME NEW c \in Checkouts, CollectProtectionQuote(c) PROVE BookingFollowsRequest'
  BY <1>13 DEF CollectProtectionQuote
<1>14. ASSUME NEW c \in Checkouts, ApplyQuotes(c) PROVE BookingFollowsRequest'
  <2>1. CASE QuotesApplicable(c)
    <3>1. At(c, "applying") /\ StoreQuotes(c)
      BY <1>14, <2>1 DEF ApplyQuotes
    <3>2. \A d \in Checkouts : /\ (bookings'[d] = NULL) <=> (bookings[d] = NULL)
                              /\ bookings'[d].status = bookings[d].status
      BY <3>1, StoreQuotesStep
    <3>3. /\ pc' = [pc EXCEPT ![c] = "returned"]
          /\ answer' = [answer EXCEPT ![c] = "CheckoutResult"]
      BY <1>14, <2>1 DEF ApplyQuotes
    <3> QED
      BY <3>1, <3>2, <3>3
  <2>2. CASE ~QuotesApplicable(c)
    BY <1>14, <2>2 DEF ApplyQuotes, QuotesApplicable
  <2> QED
    BY <2>1, <2>2
<1>15. ASSUME NEW c \in Checkouts, ApplyQuotesFails(c) PROVE BookingFollowsRequest'
  BY <1>15, StoreQuotesStep DEF ApplyQuotesFails, QuotesApplicable
<1>16. ASSUME NEW c \in Checkouts, CancelProtection(c) PROVE BookingFollowsRequest'
  BY <1>16 DEF CancelProtection
<1>17. ASSUME NEW c \in Checkouts, BeginRelease(c) PROVE BookingFollowsRequest'
  BY <1>17 DEF BeginRelease
<1>18. ASSUME NEW c \in Checkouts, LockReservedRow(c) PROVE BookingFollowsRequest'
  BY <1>18 DEF LockReservedRow
<1>19. ASSUME NEW c \in Checkouts, CommitRelease(c) PROVE BookingFollowsRequest'
  BY <1>19 DEF CommitRelease
<1>20. ASSUME NEW c \in Checkouts, ReleaseFails(c) PROVE BookingFollowsRequest'
  BY <1>20 DEF ReleaseFails
<1>21. ASSUME NEW c \in Checkouts, Crash(c) PROVE BookingFollowsRequest'
  BY <1>21 DEF Crash
<1>22. CASE Tick
  BY <1>22 DEF Tick
<1>23. CASE UNCHANGED vars
  BY <1>23 DEF vars
<1> QED
  BY <1>1, <1>2, <1>3, <1>4, <1>5, <1>6, <1>7, <1>8, <1>9, <1>10, <1>11, <1>12, <1>13,
     <1>14, <1>15, <1>16, <1>17, <1>18, <1>19, <1>20, <1>21, <1>22, <1>23 DEF Next,
     prepare_checkout, Reservation, Quoting, Release, Failure, Rest

\* Commit and rollback give all locks back.
LEMMA LocksBelongToTransactionsStep ==
    ASSUME IInv, [Next]_vars PROVE LocksBelongToTransactions'
<1> USE CheckoutAssumption DEF LocksBelongToTransactions, IInv, TypeOK, InTransaction, At, Goto
<1>1. ASSUME NEW c \in Checkouts, Quiet(c) \/ Quotes(c) PROVE LocksBelongToTransactions'
  <2>1. row_lock' = row_lock /\ to_lock' = to_lock /\ OnlyMoves(c)
    BY <1>1 DEF Quiet, Quotes
  <2>2. pc'[c] = pc[c] \/ pc[c] \notin InTransaction
    BY <1>1 DEF Quiet, Quotes
  <2> QED
    BY <2>1, <2>2 DEF OnlyMoves, Others
<1>2. ASSUME NEW c \in Checkouts, Rollback(c) \/ Commit(c) PROVE LocksBelongToTransactions'
  BY <1>2 DEF Rollback, Commit, OnlyMoves, Others, Unlocks
<1>3. ASSUME NEW c \in Checkouts, BeginReservation(c) \/ BeginRelease(c)
      PROVE  LocksBelongToTransactions'
  <2>1. row_lock' = row_lock /\ pc'[c] \in {"locking", "freeing"}
    BY <1>3 DEF BeginReservation, BeginRelease
  <2>2. \A d \in Checkouts : d # c => pc'[d] = pc[d] /\ to_lock'[d] = to_lock[d]
    BY <1>3 DEF BeginReservation, BeginRelease
  <2> QED
    BY <2>1, <2>2
<1>4. ASSUME NEW c \in Checkouts, LockRequestedRow(c) \/ LockReservedRow(c)
      PROVE  LocksBelongToTransactions'
  BY <1>4 DEF LockRequestedRow, LockReservedRow, tables
<1>5. ASSUME NEW c \in Checkouts, ReserveSeats(c) PROVE LocksBelongToTransactions'
  BY <1>5 DEF ReserveSeats, RowsLocked, locks
<1>6. ASSUME NEW c \in Checkouts, CommitRelease(c) PROVE LocksBelongToTransactions'
  BY <1>6 DEF CommitRelease, Raise, EndTransaction
<1>7. CASE Tick \/ UNCHANGED vars
  BY <1>7 DEF Tick, vars, locks
<1> QED
  BY ONLY StepKinds, IInv, [Next]_vars, <1>1, <1>2, <1>3, <1>4, <1>5, <1>6, <1>7

\* Locks are taken in ascending order of the row ids.
LEMMA LocksInOrderStep ==
    ASSUME IInv, [Next]_vars PROVE LocksInOrder'
<1> SUFFICES ASSUME NEW d \in Checkouts, NEW r \in EventSeats, row_lock'[r] = d,
                    NEW s \in to_lock'[d]
             PROVE  r < s
  BY DEF LocksInOrder, LockedBy
<1>1. row_lock[r] = d /\ s \in to_lock[d] => r < s
  BY DEF IInv, LocksInOrder, LockedBy
<1>2. row_lock[r] = d => pc[d] \in InTransaction
  BY CheckoutAssumption DEF IInv, LocksBelongToTransactions
<1> USE CheckoutAssumption DEF IInv, TypeOK
<1>3. ASSUME NEW c \in Checkouts, Quiet(c) \/ Quotes(c) PROVE r < s
  BY <1>3, <1>1 DEF Quiet, Quotes
<1>4. ASSUME NEW c \in Checkouts, Rollback(c) \/ Commit(c) PROVE r < s
  BY <1>4, <1>1 DEF Rollback, Commit, Unlocks, Others
<1>5. ASSUME NEW c \in Checkouts, BeginReservation(c) \/ BeginRelease(c) PROVE r < s
  <2>1. c # d
    BY <1>5, <1>2 DEF BeginReservation, BeginRelease, At, InTransaction
  <2> QED
    BY <1>5, <1>1, <2>1 DEF BeginReservation, BeginRelease
<1>6. ASSUME NEW c \in Checkouts, LockRequestedRow(c) \/ LockReservedRow(c) PROVE r < s
  <2>1. PICK t \in EventSeats : /\ NextRow(c, t)
                                /\ row_lock' = [row_lock EXCEPT ![t] = row_lock'[t]]
                                /\ row_lock'[t] \in {c, NULL}
                                /\ to_lock' = [to_lock EXCEPT ![c] = @ \ {t}]
    BY <1>6 DEF LockRequestedRow, LockReservedRow
  <2>2. s \in to_lock[d]
    BY <2>1
  <2>3. CASE r = t
    BY <2>1, <2>2, <2>3 DEF NextRow
  <2>4. CASE r # t
    BY <2>1, <2>2, <2>4, <1>1
  <2> QED
    BY <2>3, <2>4
<1>7. ASSUME NEW c \in Checkouts, ReserveSeats(c) PROVE r < s
  BY <1>7, <1>1 DEF ReserveSeats, locks
<1>8. ASSUME NEW c \in Checkouts, CommitRelease(c) PROVE r < s
  BY <1>8, <1>1 DEF CommitRelease, EndTransaction
<1>9. CASE Tick \/ UNCHANGED vars
  BY <1>9, <1>1 DEF Tick, vars, locks
<1> QED
  BY ONLY StepKinds, IInv, [Next]_vars, <1>3, <1>4, <1>5, <1>6, <1>7, <1>8, <1>9

\* FOR UPDATE skips none of the requested rows.
LEMMA ReservationLocksItsRowsStep ==
    ASSUME IInv, [Next]_vars PROVE ReservationLocksItsRows'
<1> SUFFICES ASSUME NEW d \in Checkouts, NEW r \in EventSeats
             PROVE  /\ pc'[d] = "locking" =>
                         (r \in RequestedRows(d) <=> row_lock'[r] = d \/ r \in to_lock'[d])
                    /\ pc'[d] = "reserving" => (r \in RequestedRows(d) <=> row_lock'[r] = d)
  BY RequestedRowsStay DEF ReservationLocksItsRows, LockedBy, At
<1>1. /\ pc[d] = "locking" => (r \in RequestedRows(d) <=> row_lock[r] = d \/ r \in to_lock[d])
      /\ pc[d] = "reserving" => (r \in RequestedRows(d) <=> row_lock[r] = d)
  BY DEF IInv, ReservationLocksItsRows, LockedBy, At
<1>2. row_lock[r] = d => pc[d] \in InTransaction
  BY CheckoutAssumption DEF IInv, LocksBelongToTransactions
<1> DEFINE Goal == /\ pc'[d] = "locking" =>
                         (r \in RequestedRows(d) <=> row_lock'[r] = d \/ r \in to_lock'[d])
                   /\ pc'[d] = "reserving" => (r \in RequestedRows(d) <=> row_lock'[r] = d)
<1>3. ASSUME row_lock' = row_lock, to_lock' = to_lock,
             pc'[d] = pc[d] \/ pc'[d] \notin InTransaction
      PROVE  Goal
  BY <1>1, <1>3 DEF InTransaction
<1>4. ASSUME NEW c \in Checkouts, Quiet(c) \/ Quotes(c) PROVE Goal
  BY <1>4, <1>3 DEF Quiet, Quotes, OnlyMoves, Others
<1>5. ASSUME NEW c \in Checkouts, pc'[c] \notin InTransaction, OnlyMoves(c), Unlocks(c) PROVE Goal
  <2>1. CASE c = d
    BY <1>5, <2>1 DEF InTransaction
  <2>2. CASE c # d
    BY <1>1, <1>5, <2>2, CheckoutAssumption DEF OnlyMoves, Unlocks, Others
  <2> QED
    BY <2>1, <2>2
<1>6. ASSUME NEW c \in Checkouts, Rollback(c) \/ Commit(c) PROVE Goal
  BY <1>6, <1>5 DEF Rollback, Commit
<1> USE DEF IInv, TypeOK, At, Goto
<1>7. ASSUME NEW c \in Checkouts, BeginReservation(c) PROVE Goal
  <2>1. CASE c = d
    BY <1>7, <1>2, <2>1 DEF BeginReservation, InTransaction
  <2>2. CASE c # d
    BY <1>1, <1>7, <2>2 DEF BeginReservation
  <2> QED
    BY <2>1, <2>2
<1>8. ASSUME NEW c \in Checkouts, LockRequestedRow(c) PROVE Goal
  BY <1>1, <1>8, CheckoutAssumption DEF LockRequestedRow, NextRow
<1>9. ASSUME NEW c \in Checkouts, LockReservedRow(c) PROVE Goal
  <2>1. c = d => pc'[d] = "freeing"
    BY <1>9 DEF LockReservedRow
  <2>2. c # d => /\ pc'[d] = pc[d] /\ to_lock'[d] = to_lock[d]
                 /\ row_lock'[r] = d <=> row_lock[r] = d
    BY <1>9, CheckoutAssumption DEF LockReservedRow
  <2> QED
    BY <1>1, <2>1, <2>2
<1>10. ASSUME NEW c \in Checkouts, ReserveSeats(c) PROVE Goal
  BY <1>1, <1>10 DEF ReserveSeats, RowsLocked, locks
<1>11. ASSUME NEW c \in Checkouts, BeginRelease(c) PROVE Goal
  BY <1>1, <1>11 DEF BeginRelease
<1>12. ASSUME NEW c \in Checkouts, CommitRelease(c) PROVE Goal
  <2>1. pc'[c] \notin InTransaction /\ OnlyMoves(c) /\ Unlocks(c)
    BY <1>12 DEF CommitRelease, Raise, EndTransaction, InTransaction, OnlyMoves, Unlocks, Others
  <2> QED
    BY <2>1, <1>5
<1>13. CASE Tick \/ UNCHANGED vars
  BY <1>13, <1>3 DEF Tick, vars, locks
<1> QED
  BY ONLY StepKinds, IInv, [Next]_vars, <1>4, <1>6, <1>7, <1>8, <1>9, <1>10, <1>11, <1>12, <1>13

\* What a step of another request, or of the clock, may do to the rows c holds.
LEMMA LockedRowsStay ==
    ASSUME IInv, [Next]_vars, NEW d \in Checkouts, NEW r \in EventSeats, row_lock[r] = d,
           pc'[d] \in InTransaction
    PROVE  event_seats'[r] = event_seats[r] /\ row_lock'[r] = d
<1> USE CheckoutAssumption DEF IInv, TypeOK
<1>1. ASSUME NEW c \in Checkouts, Quiet(c) \/ Quotes(c)
      PROVE  event_seats'[r] = event_seats[r] /\ row_lock'[r] = d
  BY <1>1 DEF Quiet, Quotes
<1>2. ASSUME NEW c \in Checkouts, Rollback(c)
      PROVE  event_seats'[r] = event_seats[r] /\ row_lock'[r] = d
  BY <1>2 DEF Rollback, Unlocks
<1>3. ASSUME NEW c \in Checkouts, Commit(c)
      PROVE  event_seats'[r] = event_seats[r] /\ row_lock'[r] = d
  BY <1>3, StoreReservationStep DEF Commit, Unlocks, LockedBy
<1>4. ASSUME NEW c \in Checkouts, BeginReservation(c) \/ BeginRelease(c)
      PROVE  event_seats'[r] = event_seats[r] /\ row_lock'[r] = d
  BY <1>4 DEF BeginReservation, BeginRelease, tables
<1>5. ASSUME NEW c \in Checkouts, LockRequestedRow(c) \/ LockReservedRow(c)
      PROVE  event_seats'[r] = event_seats[r] /\ row_lock'[r] = d
  BY <1>5 DEF LockRequestedRow, LockReservedRow, tables
<1>6. ASSUME NEW c \in Checkouts, ReserveSeats(c)
      PROVE  event_seats'[r] = event_seats[r] /\ row_lock'[r] = d
  BY <1>6 DEF ReserveSeats, tables, locks
<1>7. ASSUME NEW c \in Checkouts, CommitRelease(c)
      PROVE  event_seats'[r] = event_seats[r] /\ row_lock'[r] = d
  BY <1>7 DEF CommitRelease, Raise, Goto, EndTransaction, LockedBy, InTransaction
<1>8. CASE Tick \/ UNCHANGED vars
  BY <1>8 DEF Tick, vars, tables, locks
<1> QED
  BY ONLY StepKinds, IInv, [Next]_vars, <1>1, <1>2, <1>3, <1>4, <1>5, <1>6, <1>7, <1>8

\* A row of event_seats is written only by the transaction that has locked it:
\* to reserve it, or to free it.
LEMMA SeatWrites ==
    ASSUME IInv, [Next]_vars, NEW r \in EventSeats, event_seats'[r] # event_seats[r]
    PROVE  \E c \in Checkouts :
             /\ row_lock[r] = c
             /\ \/ Commit(c) /\ event_seats'[r] = ReservedFor(c)
                \/ /\ CommitRelease(c)
                   /\ event_seats[r].booking_id = c
                   /\ event_seats'[r] = FreeSeat
<1> USE DEF IInv, TypeOK
<1>1. ASSUME NEW c \in Checkouts, Quiet(c) \/ Rollback(c) \/ Quotes(c) PROVE FALSE
  BY <1>1 DEF Quiet, Rollback, Quotes
<1>2. ASSUME NEW c \in Checkouts, Commit(c)
      PROVE  row_lock[r] = c /\ event_seats'[r] = ReservedFor(c)
  BY <1>2, StoreReservationStep DEF Commit, LockedBy
<1>3. ASSUME NEW c \in Checkouts, BeginReservation(c) \/ BeginRelease(c) PROVE FALSE
  BY <1>3 DEF BeginReservation, BeginRelease, tables
<1>4. ASSUME NEW c \in Checkouts, LockRequestedRow(c) \/ LockReservedRow(c) PROVE FALSE
  BY <1>4 DEF LockRequestedRow, LockReservedRow, tables
<1>5. ASSUME NEW c \in Checkouts, ReserveSeats(c) PROVE FALSE
  BY <1>5 DEF ReserveSeats, tables
<1>6. ASSUME NEW c \in Checkouts, CommitRelease(c)
      PROVE  row_lock[r] = c /\ event_seats[r].booking_id = c /\ event_seats'[r] = FreeSeat
  BY <1>6 DEF CommitRelease, LockedBy, StillOwned
<1>7. CASE Tick \/ UNCHANGED vars
  BY <1>7 DEF Tick, vars, tables
<1> QED
  BY ONLY StepKinds, IInv, [Next]_vars, <1>1, <1>2, <1>3, <1>4, <1>5, <1>6, <1>7

\* A booking appears with its reservation, is cancelled with its release, and
\* keeps its status and its time in every other step.
LEMMA BookingWrites ==
    ASSUME IInv, [Next]_vars, NEW d \in Checkouts
    PROVE  \/ Commit(d)
           \/ CommitRelease(d)
           \/ /\ bookings'[d] = NULL <=> bookings[d] = NULL
              /\ bookings'[d].status = bookings[d].status
              /\ bookings'[d].reserved_until = bookings[d].reserved_until
<1> USE DEF IInv, TypeOK
<1> DEFINE Same == /\ bookings'[d] = NULL <=> bookings[d] = NULL
                   /\ bookings'[d].status = bookings[d].status
                   /\ bookings'[d].reserved_until = bookings[d].reserved_until
<1>1. ASSUME NEW c \in Checkouts, Quiet(c) \/ Rollback(c) PROVE Same
  BY <1>1 DEF Quiet, Rollback
<1>2. ASSUME NEW c \in Checkouts, Quotes(c) PROVE Same
  BY <1>2 DEF Quotes
<1>3. ASSUME NEW c \in Checkouts, Commit(c), c # d PROVE Same
  BY <1>3, StoreReservationStep DEF Commit
<1>4. ASSUME NEW c \in Checkouts, BeginReservation(c) \/ BeginRelease(c) PROVE Same
  BY <1>4 DEF BeginReservation, BeginRelease, tables
<1>5. ASSUME NEW c \in Checkouts, LockRequestedRow(c) \/ LockReservedRow(c) PROVE Same
  BY <1>5 DEF LockRequestedRow, LockReservedRow, tables
<1>6. ASSUME NEW c \in Checkouts, ReserveSeats(c) PROVE Same
  BY <1>6 DEF ReserveSeats, tables
<1>7. ASSUME NEW c \in Checkouts, CommitRelease(c), c # d PROVE Same
  BY <1>7 DEF CommitRelease
<1>8. CASE Tick \/ UNCHANGED vars
  BY <1>8 DEF Tick, vars, tables
<1> QED
  BY ONLY StepKinds, IInv, [Next]_vars, <1>1, <1>2, <1>3, <1>4, <1>5, <1>6, <1>7, <1>8

\* Time only passes.
LEMMA ClockStep ==
    ASSUME IInv, [Next]_vars
    PROVE  now' \in Nat /\ now <= now'
<1> USE DEF IInv, TypeOK, given
<1>1. ASSUME NEW c \in Checkouts, Quiet(c) \/ Rollback(c) \/ Commit(c) \/ Quotes(c)
      PROVE  now' = now
  BY <1>1 DEF Quiet, Rollback, Commit, Quotes
<1>2. ASSUME NEW c \in Checkouts,
             \/ BeginReservation(c) \/ LockRequestedRow(c) \/ ReserveSeats(c)
             \/ BeginRelease(c) \/ LockReservedRow(c) \/ CommitRelease(c)
      PROVE  now' = now
  BY <1>2 DEF BeginReservation, LockRequestedRow, ReserveSeats, BeginRelease, LockReservedRow,
              CommitRelease
<1>3. CASE Tick
  BY <1>3 DEF Tick
<1>4. CASE UNCHANGED vars
  BY <1>4 DEF vars
<1> QED
  BY StepKinds, <1>1, <1>2, <1>3, <1>4

-----------------------------------------------------------------------------
\* Nobody else writes to a locked row, and an expired reservation stays expired.
LEMMA ReservableUntilCommitStep ==
    ASSUME IInv, [Next]_vars PROVE ReservableUntilCommit'
<1> USE DEF IInv, TypeOK, At, Goto
<1> SUFFICES ASSUME NEW d \in Checkouts, pc'[d] = "reserving"
             PROVE  /\ \E r \in EventSeats : row_lock'[r] = d
                    /\ \A r \in EventSeats :
                         row_lock'[r] = d => SeatIsAvailable(event_seats'[r], now')
                    /\ reserved_until'[d] <= now' + BOOKING_TTL
  BY DEF ReservableUntilCommit, LockedBy, SeatIsAvailable
<1>1. now' \in Nat /\ now <= now'
  BY ClockStep
<1>2. ASSUME NEW r \in EventSeats, SeatIsAvailable(event_seats[r], now)
      PROVE  SeatIsAvailable(event_seats[r], now')
  <2>1. event_seats[r].reserved_until # NULL => event_seats[r].reserved_until \in Nat
    BY DEF EventSeat
  <2> QED
    BY <1>1, <1>2, <2>1 DEF SeatIsAvailable
<1>3. CASE ReserveSeats(d)
  <2>1. /\ UNCHANGED <<now, event_seats, row_lock>>
        /\ reserved_until'[d] = now + BOOKING_TTL
        /\ \A r \in EventSeats : row_lock[r] = d => SeatIsAvailable(event_seats[r], now)
    BY <1>3 DEF ReserveSeats, LockedBy, given, tables, locks
  <2>2. \E r \in EventSeats : row_lock[r] = d
    <3>1. Range(request[d].seat_ids) # {}
      BY CheckoutAssumption
    <3>2. Range(request[d].seat_ids) = {SeatOf[r] : r \in LockedBy(d)}
      BY <1>3 DEF ReserveSeats, SomeSeatMissing
    <3> QED
      BY ONLY <3>1, <3>2 DEF LockedBy
  <2> QED
    BY <2>1, <2>2, CheckoutAssumption
<1>4. CASE ~ReserveSeats(d)
  <2>1. /\ pc[d] = "reserving"
        /\ reserved_until'[d] = reserved_until[d]
        /\ \A r \in EventSeats : row_lock'[r] = d <=> row_lock[r] = d
    <3> USE CheckoutAssumption
    <3>1. ASSUME NEW c \in Checkouts, Quiet(c) \/ Quotes(c) PROVE <2>1!:
      BY <3>1 DEF Quiet, Quotes, OnlyMoves, Others, InTransaction
    <3>2. ASSUME NEW c \in Checkouts, Rollback(c) \/ Commit(c) PROVE <2>1!:
      BY <3>2 DEF Rollback, Commit, OnlyMoves, Others, Unlocks, InTransaction
    <3>3. ASSUME NEW c \in Checkouts, BeginReservation(c) \/ BeginRelease(c) PROVE <2>1!:
      BY <3>3 DEF BeginReservation, BeginRelease
    <3>4. ASSUME NEW c \in Checkouts, LockRequestedRow(c) \/ LockReservedRow(c) PROVE <2>1!:
      BY <3>4 DEF LockRequestedRow, LockReservedRow
    <3>5. ASSUME NEW c \in Checkouts, ReserveSeats(c) PROVE <2>1!:
      BY <3>5, <1>4 DEF ReserveSeats, locks
    <3>6. ASSUME NEW c \in Checkouts, CommitRelease(c) PROVE <2>1!:
      BY <3>6 DEF CommitRelease, Raise, EndTransaction
    <3>7. CASE Tick \/ UNCHANGED vars
      BY <3>7 DEF Tick, vars, locks
    <3> QED
      BY ONLY StepKinds, IInv, [Next]_vars, <3>1, <3>2, <3>3, <3>4, <3>5, <3>6, <3>7
  <2>2. /\ \E r \in EventSeats : row_lock[r] = d
        /\ \A r \in EventSeats : row_lock[r] = d => SeatIsAvailable(event_seats[r], now)
        /\ reserved_until[d] <= now + BOOKING_TTL
    BY <2>1 DEF ReservableUntilCommit, LockedBy
  <2>3. \A r \in EventSeats : row_lock'[r] = d => event_seats'[r] = event_seats[r]
    BY <2>1, LockedRowsStay DEF InTransaction
  <2>4. reserved_until'[d] <= now' + BOOKING_TTL
    BY <1>1, <2>1, <2>2, CheckoutAssumption
  <2> QED
    BY <1>2, <2>1, <2>2, <2>3, <2>4
<1> QED
  BY <1>3, <1>4

\* A released booking gains no row, and has locked each of its rows, or has it
\* still before it.
LEMMA ReleaseCoversItsRowsStep ==
    ASSUME IInv, [Next]_vars PROVE ReleaseCoversItsRows'
<1> USE DEF IInv, TypeOK, At, Goto
<1> SUFFICES ASSUME NEW d \in Checkouts, pc'[d] = "freeing", NEW r \in EventSeats
             PROVE  event_seats'[r].booking_id = d => row_lock'[r] = d \/ r \in to_lock'[d]
  BY DEF ReleaseCoversItsRows, LockedBy
<1>1. CASE BeginRelease(d)
  BY <1>1 DEF BeginRelease, tables
<1>2. CASE LockReservedRow(d)
  <2>1. PICK t \in EventSeats : /\ row_lock' = [row_lock EXCEPT ![t] = d]
                                /\ to_lock' = [to_lock EXCEPT ![d] = @ \ {t}]
    BY <1>2 DEF LockReservedRow
  <2>2. pc[d] = "freeing" /\ event_seats' = event_seats
    BY <1>2 DEF LockReservedRow, tables
  <2>3. event_seats[r].booking_id = d => row_lock[r] = d \/ r \in to_lock[d]
    BY <2>2 DEF ReleaseCoversItsRows, LockedBy
  <2> QED
    BY <2>1, <2>2, <2>3
<1>3. CASE ~BeginRelease(d) /\ ~LockReservedRow(d)
  <2> DEFINE Same == pc[d] = "freeing" /\ to_lock'[d] = to_lock[d]
                     /\ (row_lock'[r] = d <=> row_lock[r] = d)
  <2>1. Same
    <3> USE CheckoutAssumption
    <3>1. ASSUME NEW c \in Checkouts, Quiet(c) \/ Quotes(c) PROVE Same
      BY <3>1 DEF Quiet, Quotes, OnlyMoves, Others, InTransaction
    <3>2. ASSUME NEW c \in Checkouts, Rollback(c) \/ Commit(c) PROVE Same
      <4>1. c # d
        BY <3>2 DEF Rollback, Commit, InTransaction
      <4> QED
        BY <3>2, <4>1 DEF Rollback, Commit, OnlyMoves, Others, Unlocks
    <3>3. ASSUME NEW c \in Checkouts, BeginReservation(c) PROVE Same
      BY <3>3 DEF BeginReservation
    <3>4. ASSUME NEW c \in Checkouts, LockRequestedRow(c) PROVE Same
      BY <3>4 DEF LockRequestedRow
    <3>5. ASSUME NEW c \in Checkouts, ReserveSeats(c) PROVE Same
      BY <3>5 DEF ReserveSeats, locks
    <3>6. ASSUME NEW c \in Checkouts, BeginRelease(c) PROVE Same
      BY <3>6, <1>3 DEF BeginRelease
    <3>7. ASSUME NEW c \in Checkouts, LockReservedRow(c) PROVE Same
      <4>1. c # d
        BY <3>7, <1>3
      <4>2. PICK t \in EventSeats : /\ row_lock[t] = NULL
                                    /\ row_lock' = [row_lock EXCEPT ![t] = c]
        BY <3>7 DEF LockReservedRow
      <4>3. pc' = pc /\ to_lock'[d] = to_lock[d]
        BY <3>7, <4>1 DEF LockReservedRow
      <4> QED
        BY <4>1, <4>2, <4>3
    <3>8. ASSUME NEW c \in Checkouts, CommitRelease(c) PROVE Same
      BY <3>8 DEF CommitRelease, Raise, EndTransaction
    <3>9. CASE Tick \/ UNCHANGED vars
      BY <3>9 DEF Tick, vars, locks
    <3> QED
      BY ONLY StepKinds, IInv, [Next]_vars, <3>1, <3>2, <3>3, <3>4, <3>5, <3>6, <3>7, <3>8, <3>9
  <2>2. event_seats[r].booking_id = d => row_lock[r] = d \/ r \in to_lock[d]
    BY <2>1 DEF ReleaseCoversItsRows, LockedBy
  <2>3. row_lock[r] = d => event_seats'[r] = event_seats[r]
    BY LockedRowsStay DEF InTransaction
  <2>4. event_seats'[r].booking_id = d => event_seats'[r] = event_seats[r]
    <3> SUFFICES ASSUME event_seats'[r] # event_seats[r] PROVE event_seats'[r].booking_id # d
      OBVIOUS
    <3>1. PICK c \in Checkouts : /\ row_lock[r] = c
                                 /\ event_seats'[r] = ReservedFor(c) \/ event_seats'[r] = FreeSeat
      BY SeatWrites
    <3>2. c # d
      BY <2>3, <3>1
    <3> QED
      BY <3>1, <3>2, CheckoutAssumption DEF ReservedFor, FreeSeat
  <2> QED
    BY <2>1, <2>2, <2>3, <2>4
<1> QED
  BY <1>1, <1>2, <1>3

\* The two tables are written together.
LEMMA SeatsAgreeWithBookingsStep ==
    ASSUME IInv, [Next]_vars PROVE SeatsAgreeWithBookings'
<1> USE DEF IInv, TypeOK
<1> DEFINE Held(r) == \E h \in Checkouts :
                        /\ bookings'[h] # NULL
                        /\ bookings'[h].status = "pending_payment"
                        /\ r \in RequestedRows(h)
                        /\ event_seats'[r] = [status |-> "reserved",
                                              reserved_until |-> bookings'[h].reserved_until,
                                              booking_id |-> h]
<1> SUFFICES ASSUME NEW r \in EventSeats PROVE event_seats'[r] = FreeSeat \/ Held(r)
  BY RequestedRowsStay DEF SeatsAgreeWithBookings, HoldsSeat, FreeSeat
<1>1. CASE event_seats'[r] # event_seats[r]
  <2>1. PICK c \in Checkouts : /\ row_lock[r] = c
                               /\ \/ Commit(c) /\ event_seats'[r] = ReservedFor(c)
                                  \/ event_seats'[r] = FreeSeat
    BY <1>1, SeatWrites
  <2>2. ASSUME Commit(c), event_seats'[r] = ReservedFor(c) PROVE Held(r)
    <3>1. r \in RequestedRows(c)
      BY <2>1, <2>2 DEF Commit, ReservationLocksItsRows, LockedBy, At
    <3>2. /\ bookings'[c] # NULL
          /\ bookings'[c].status = "pending_payment"
          /\ bookings'[c].reserved_until = reserved_until[c]
      BY <2>2, StoreReservationStep DEF Commit
    <3> QED
      BY <2>2, <3>1, <3>2 DEF ReservedFor
  <2> QED
    BY <2>1, <2>2
<1>2. CASE event_seats'[r] = event_seats[r] /\ event_seats[r] # FreeSeat
  <2>1. PICK h \in Checkouts : /\ bookings[h] # NULL
                               /\ bookings[h].status = "pending_payment"
                               /\ r \in RequestedRows(h)
                               /\ HoldsSeat(h, r)
    BY <1>2 DEF SeatsAgreeWithBookings
  <2>2. ~Commit(h)
    BY <2>1 DEF Commit, BookingFollowsRequest, At
  <2>3. ~CommitRelease(h)
    <3> SUFFICES ASSUME CommitRelease(h) PROVE FALSE
      OBVIOUS
    <3>1. r \in LockedBy(h)
      BY <2>1 DEF CommitRelease, ReleaseCoversItsRows, HoldsSeat, At
    <3> QED
      BY <1>2, <2>1, <3>1 DEF CommitRelease, StillOwned, HoldsSeat
  <2>4. /\ bookings'[h] # NULL
        /\ bookings'[h].status = bookings[h].status
        /\ bookings'[h].reserved_until = bookings[h].reserved_until
    BY <2>1, <2>2, <2>3, BookingWrites
  <2> QED
    BY <1>2, <2>1, <2>4 DEF HoldsSeat
<1> QED
  BY <1>1, <1>2

\* Only a seat that is free or expired is given to another booking.
LEMMA LiveBookingHoldsItsSeatsStep ==
    ASSUME IInv, [Next]_vars PROVE LiveBookingHoldsItsSeats'
<1> USE DEF IInv, TypeOK
<1> SUFFICES ASSUME NEW d \in Checkouts, bookings'[d] # NULL,
                    bookings'[d].status = "pending_payment",
                    bookings'[d].reserved_until > now',
                    NEW r \in EventSeats, r \in RequestedRows(d)
             PROVE  event_seats'[r] = [status |-> "reserved",
                                       reserved_until |-> bookings'[d].reserved_until,
                                       booking_id |-> d]
  BY RequestedRowsStay DEF LiveBookingHoldsItsSeats, Live, HoldsSeat, RequestedRows
<1>1. CASE Commit(d)
  <2>1. r \in LockedBy(d)
    BY <1>1 DEF Commit, ReservationLocksItsRows, At
  <2> QED
    <3>1. bookings'[d].reserved_until = reserved_until[d] /\ event_seats'[r] = ReservedFor(d)
      BY <1>1, <2>1, StoreReservationStep DEF Commit
    <3> QED
      BY ONLY <3>1 DEF ReservedFor
<1>2. CASE ~Commit(d)
  <2>1. ~CommitRelease(d)
    BY DEF CommitRelease, BookingFollowsRequest, At, Booking
  <2>2. /\ bookings[d] # NULL
        /\ bookings[d].status = "pending_payment"
        /\ bookings'[d].reserved_until = bookings[d].reserved_until
    BY <1>2, <2>1, BookingWrites
  <2>3. bookings[d].reserved_until > now
    BY <2>2, ClockStep DEF Booking
  <2>4. HoldsSeat(d, r)
    BY <2>2, <2>3 DEF LiveBookingHoldsItsSeats, Live
  <2>5. event_seats'[r] = event_seats[r]
    <3> SUFFICES ASSUME event_seats'[r] # event_seats[r] PROVE FALSE
      OBVIOUS
    <3>1. PICK c \in Checkouts :
            row_lock[r] = c /\ (Commit(c) \/ (CommitRelease(c) /\ event_seats[r].booking_id = c))
      BY SeatWrites
    <3>2. ASSUME Commit(c) PROVE FALSE
      <4>1. SeatIsAvailable(event_seats[r], now)
        BY <3>1, <3>2 DEF Commit, ReservableUntilCommit, LockedBy
      <4> QED
        BY <2>2, <2>3, <2>4, <4>1, CheckoutAssumption DEF SeatIsAvailable, HoldsSeat, Booking
    <3>3. ASSUME CommitRelease(c), event_seats[r].booking_id = c PROVE FALSE
      BY <2>1, <2>4, <3>3 DEF HoldsSeat
    <3> QED
      BY <3>1, <3>2, <3>3
  <2> QED
    BY <2>2, <2>4, <2>5 DEF HoldsSeat
<1> QED
  BY <1>1, <1>2

-----------------------------------------------------------------------------
\* The tables start empty and every request at its start.
LEMMA InitIInv == Init => IInv
<1> SUFFICES ASSUME Init PROVE IInv
  OBVIOUS
<1> USE CheckoutAssumption DEF Init
<1>1. TypeOK
  BY DEF TypeOK, FreeSeat, EventSeat, SeatStatus, PCs, Answers
<1>2. LocksBelongToTransactions /\ LocksInOrder /\ ReservationLocksItsRows
  BY DEF LocksBelongToTransactions, LocksInOrder, ReservationLocksItsRows, At
<1>3. ReservableUntilCommit /\ ReleaseCoversItsRows /\ BookingFollowsRequest
  BY DEF ReservableUntilCommit, ReleaseCoversItsRows, BookingFollowsRequest, At
<1>4. SeatsAgreeWithBookings /\ LiveBookingHoldsItsSeats
  BY DEF SeatsAgreeWithBookings, LiveBookingHoldsItsSeats, Live
<1> QED
  BY <1>1, <1>2, <1>3, <1>4 DEF IInv

\* prepare_checkout's transactions may rely on IInv at every statement, for any
\* number of requests, rows and ticks.
THEOREM CheckoutInvariant == Spec => []IInv
<1>1. IInv /\ [Next]_vars => IInv'
  BY TypeOKStep, BookingFollowsRequestStep, LocksBelongToTransactionsStep, LocksInOrderStep,
     ReservationLocksItsRowsStep, ReservableUntilCommitStep, ReleaseCoversItsRowsStep,
     SeatsAgreeWithBookingsStep, LiveBookingHoldsItsSeatsStep
     DEF IInv
<1> QED
  BY InitIInv, <1>1, PTL DEF Spec

\* Every variable keeps its type.
THEOREM CheckoutTypeCorrect == Spec => []TypeOK
<1>1. IInv => TypeOK
  BY DEF IInv
<1> QED
  BY CheckoutInvariant, <1>1, PTL

\* No interleaving of reservations, expiries, releases, failures and crashes
\* takes a seat from a booking that awaits payment in time.
THEOREM NoLostSeat == Spec => []LiveBookingHoldsItsSeats
<1>1. IInv => LiveBookingHoldsItsSeats
  BY DEF IInv
<1> QED
  BY CheckoutInvariant, <1>1, PTL

\* event_seats and bookings never disagree on who holds a seat, and until when.
THEOREM TablesAgree == Spec => []SeatsAgreeWithBookings
<1>1. IInv => SeatsAgreeWithBookings
  BY DEF IInv
<1> QED
  BY CheckoutInvariant, <1>1, PTL

\* A client told that there is no booking has none.
THEOREM RefusalIsClean == Spec => []RefusedCheckoutHoldsNothing
<1>1. ASSUME IInv PROVE RefusedCheckoutHoldsNothing
  <2> SUFFICES ASSUME NEW c \in Checkouts, At(c, "raised"), answer[c] \in DomainErrors
               PROVE  /\ \A r \in EventSeats : event_seats[r].booking_id # c
                      /\ bookings[c] # NULL => bookings[c].status = "cancelled"
    BY DEF RefusedCheckoutHoldsNothing
  <2>1. bookings[c] = NULL \/ bookings[c].status = "cancelled"
    BY <1>1 DEF IInv, BookingFollowsRequest, At
  <2>2. ASSUME NEW r \in EventSeats PROVE event_seats[r].booking_id # c
    <3>1. CASE event_seats[r] = FreeSeat
      BY <3>1, CheckoutAssumption DEF FreeSeat
    <3>2. CASE event_seats[r] # FreeSeat
      <4>1. PICK h \in Checkouts : /\ bookings[h] # NULL
                                   /\ bookings[h].status = "pending_payment"
                                   /\ HoldsSeat(h, r)
        BY <1>1, <3>2 DEF IInv, SeatsAgreeWithBookings
      <4>2. event_seats[r].booking_id = h
        BY <4>1 DEF HoldsSeat
      <4> QED
        BY <2>1, <4>1, <4>2
    <3> QED
      BY <3>1, <3>2
  <2> QED
    BY <2>1, <2>2
<1> QED
  BY CheckoutInvariant, <1>1, PTL

\* "Never deadlock": the greatest row that is both held and waited for within
\* a set of transactions is held by one that waits for a still greater row.
THEOREM LocksNeverDeadlock == Spec => []NoDeadlock
<1>1. ASSUME IInv PROVE NoDeadlock
  <2> SUFFICES ASSUME NEW S \in SUBSET Checkouts, S # {},
                      \A c \in S : \E d \in S : WaitsFor(c, d)
               PROVE  FALSE
    BY DEF NoDeadlock
  <2> DEFINE Contended == {r \in EventSeats :
                             \E c \in S : NextRow(c, r) /\ row_lock[r] \in S}
  <2>1. Contended # {}
    BY DEF WaitsFor
  <2>2. PICK m \in Contended : \A r \in Contended : r <= m
    <3>1. Contended \subseteq EventSeats
      OBVIOUS
    <3> HIDE DEF Contended
    <3>2. IsFiniteSet(Contended) /\ Contended \subseteq Nat
      BY <3>1, CheckoutAssumption, FS_Subset
    <3> QED
      BY <2>1, <3>2, GreatestElement
  <2>3. PICK d \in S : row_lock[m] = d
    BY <2>2
  <2>4. PICK n \in Contended : NextRow(d, n)
    BY <2>3 DEF WaitsFor
  <2>5. m < n
    BY <1>1, <2>2, <2>3, <2>4 DEF IInv, LocksInOrder, LockedBy, NextRow
  <2>6. n <= m /\ m \in Nat /\ n \in Nat
    BY <2>2, <2>4, CheckoutAssumption
  <2> QED
    BY <2>5, <2>6
<1> QED
  BY CheckoutInvariant, <1>1, PTL

\* A booking is never deprived of a seat: it gives its seats up when it is
\* cancelled, or has let its time run out.
THEOREM SeatsChangeHandsFairly == Spec => OnlyExpiredSeatsChangeHands
<1>1. ASSUME IInv, [Next]_vars PROVE SeatsChangeHandsInTime
  <2> SUFFICES ASSUME NEW r \in EventSeats, NEW c \in Checkouts,
                      event_seats[r].booking_id = c, event_seats'[r].booking_id # c
               PROVE  \/ bookings'[c].status = "cancelled" /\ event_seats'[r] = FreeSeat
                      \/ event_seats[r].reserved_until <= now
    BY DEF SeatsChangeHandsInTime
  <2> USE <1>1 DEF IInv, TypeOK
  <2>1. PICK d \in Checkouts : /\ row_lock[r] = d
                               /\ \/ Commit(d)
                                  \/ /\ CommitRelease(d)
                                     /\ event_seats[r].booking_id = d
                                     /\ event_seats'[r] = FreeSeat
    BY SeatWrites
  <2>2. CASE Commit(d)
    <3>1. SeatIsAvailable(event_seats[r], now)
      BY <2>1, <2>2 DEF Commit, ReservableUntilCommit, LockedBy
    <3>2. event_seats[r] # FreeSeat
      BY CheckoutAssumption DEF FreeSeat
    <3>3. event_seats[r].status = "reserved"
      BY <3>2 DEF SeatsAgreeWithBookings, HoldsSeat
    <3> QED
      BY <3>1, <3>3, CheckoutAssumption DEF SeatIsAvailable
  <2>3. CASE /\ CommitRelease(d)
             /\ event_seats[r].booking_id = d
             /\ event_seats'[r] = FreeSeat
    <3>1. d = c
      BY <2>3
    <3>2. bookings[c] \in Booking
      BY <2>3, <3>1 DEF CommitRelease, BookingFollowsRequest, At
    <3>3. bookings'[c].status = "cancelled"
      BY <2>3, <3>1, <3>2 DEF CommitRelease, Booking
    <3> QED
      BY <2>3, <3>3
  <2> QED
    BY <2>1, <2>2, <2>3
<1>2. IInv /\ [Next]_vars => [SeatsChangeHandsInTime]_vars
  BY <1>1
<1> QED
  BY CheckoutInvariant, <1>2, PTL DEF Spec, OnlyExpiredSeatsChangeHands

-----------------------------------------------------------------------------
(***************************************************************************)
(* The quotes.                                                             *)
(***************************************************************************)
CheckoutStep(c) == prepare_checkout(c) \/ Failure(c)

\* A step of one request leaves place, task and booking of the others alone.
LEMMA StepTouchesOne ==
    ASSUME TypeOK, NEW c \in Checkouts, CheckoutStep(c), NEW d \in Checkouts, d # c
    PROVE  /\ pc'[d] = pc[d]
           /\ protection_task'[d] = protection_task[d]
           /\ bookings'[d] = bookings[d]
BY DEF TypeOK, CheckoutStep, prepare_checkout, Reservation, Quoting, Release, Failure,
       RejectDuplicateSeats, RejectUnknownEvent, BeginReservation, LockRequestedRow,
       RejectMissingSeats, RejectUnavailableSeats, ReserveSeats, CommitReservation,
       StoreReservation, ReservationFails, ProtectionAnswers, PaymentQuoted, PaymentFails,
       CollectProtectionQuote, ApplyQuotes, StoreQuotes, ApplyQuotesFails, CancelProtection,
       BeginRelease, LockReservedRow, CommitRelease, ReleaseFails, Crash, Compensate, Raise, Goto,
       tables, locks

\* The task runs from the commit until it is collected or cancelled, and what it
\* returned is what the booking gets.
QuotesInOrder(c) ==
    /\ pc[c] \in {"start", "locking", "reserving"} => protection_task[c] = "none"
    /\ pc[c] = "applying" => protection_task[c] \in {"priced", "unpriced"}
    /\ pc[c] \in {"releasing", "freeing"} \cup Finished => protection_task[c] # "running"
    /\ pc[c] \in {"quoting", "collecting", "applying"} => bookings[c].protection_price = NULL
    /\ pc[c] = "returned" =>
         /\ bookings[c].payment_commission = "quoted"
         /\ (bookings[c].protection_price = "quoted") <=> (protection_task[c] = "priced")

QuotesFollowRequest == \A c \in Checkouts : QuotesInOrder(c)

\* The reservation begins the task, after its commit.
LEMMA ReservationKeepsQuotes ==
    ASSUME TypeOK, NEW c \in Checkouts, QuotesInOrder(c), Reservation(c) \/ ReservationFails(c)
    PROVE  QuotesInOrder(c)'
<1> USE DEF TypeOK, QuotesInOrder, At, Goto, Raise, Finished, tables, locks
<1>1. CASE RejectDuplicateSeats(c) \/ RejectUnknownEvent(c) \/ BeginReservation(c)
  BY <1>1 DEF RejectDuplicateSeats, RejectUnknownEvent, BeginReservation
<1>2. CASE LockRequestedRow(c) \/ ReserveSeats(c)
  BY <1>2 DEF LockRequestedRow, ReserveSeats, RowsLocked
<1>3. CASE RejectMissingSeats(c) \/ RejectUnavailableSeats(c)
  BY <1>3 DEF RejectMissingSeats, RejectUnavailableSeats, RowsLocked
<1>4. CASE CommitReservation(c)
  BY <1>4 DEF CommitReservation, StoreReservation
<1>5. CASE ReservationFails(c)
  BY <1>5 DEF ReservationFails
<1> QED
  BY <1>1, <1>2, <1>3, <1>4, <1>5 DEF Reservation

\* The booking gets the price the task has returned.
LEMMA QuotingKeepsQuotes ==
    ASSUME IInv, NEW c \in Checkouts, QuotesInOrder(c), Quoting(c) \/ ApplyQuotesFails(c)
    PROVE  QuotesInOrder(c)'
<1> USE DEF IInv, TypeOK, QuotesInOrder, At, Goto, Compensate, Finished, tables, locks
<1>1. CASE ProtectionAnswers(c)
  BY <1>1 DEF ProtectionAnswers
<1>2. CASE PaymentQuoted(c) \/ PaymentFails(c) \/ CollectProtectionQuote(c)
  BY <1>2 DEF PaymentQuoted, PaymentFails, CollectProtectionQuote
<1>3. CASE ApplyQuotes(c)
  <2>1. CASE QuotesApplicable(c)
    <3>1. bookings[c] \in Booking /\ bookings[c].protection_price = NULL
      BY <1>3 DEF ApplyQuotes, BookingFollowsRequest
    <3>2. /\ bookings'[c].payment_commission = "quoted"
          /\ bookings'[c].protection_price = IF protection_task[c] = "priced" THEN "quoted" ELSE NULL
      BY <1>3, <2>1, <3>1 DEF ApplyQuotes, StoreQuotes, Booking
    <3>3. pc'[c] = "returned" /\ protection_task' = protection_task /\ protection_task[c] # "running"
      BY <1>3, <2>1 DEF ApplyQuotes
    <3> QED
      BY <3>2, <3>3, NullAssumption
  <2>2. CASE ~QuotesApplicable(c)
    BY <1>3, <2>2 DEF ApplyQuotes
  <2> QED
    BY <2>1, <2>2
<1>4. CASE ApplyQuotesFails(c)
  BY <1>4 DEF ApplyQuotesFails
<1> QED
  BY <1>1, <1>2, <1>3, <1>4 DEF Quoting

\* The compensation ends the task before it releases anything.
LEMMA ReleaseKeepsQuotes ==
    ASSUME TypeOK, NEW c \in Checkouts, QuotesInOrder(c),
           Release(c) \/ ReleaseFails(c) \/ Crash(c)
    PROVE  QuotesInOrder(c)'
<1> USE DEF TypeOK, QuotesInOrder, At, Goto, Raise, Finished, tables, locks
<1>1. CASE CancelProtection(c) \/ BeginRelease(c) \/ LockReservedRow(c)
  BY <1>1 DEF CancelProtection, BeginRelease, LockReservedRow
<1>2. CASE CommitRelease(c) \/ ReleaseFails(c)
  BY <1>2 DEF CommitRelease, ReleaseFails
<1>3. CASE Crash(c)
  BY <1>3 DEF Crash
<1> QED
  BY <1>1, <1>2, <1>3 DEF Release

\* For every request at once.
LEMMA QuotesInvariant == Spec => []QuotesFollowRequest
<1>1. Init => QuotesFollowRequest
  BY DEF Init, QuotesFollowRequest, QuotesInOrder, Finished
<1>2. ASSUME IInv, QuotesFollowRequest, [Next]_vars PROVE QuotesFollowRequest'
  <2>1. ASSUME NEW c \in Checkouts, CheckoutStep(c), NEW d \in Checkouts
        PROVE  QuotesInOrder(d)'
    <3>1. QuotesInOrder(d)
      BY <1>2 DEF QuotesFollowRequest, QuotesInOrder
    <3>2. CASE d # c
      BY <1>2, <2>1, <3>1, <3>2, StepTouchesOne DEF IInv, QuotesInOrder
    <3>3. CASE d = c
      BY <1>2, <2>1, <3>1, <3>3, ReservationKeepsQuotes, QuotingKeepsQuotes, ReleaseKeepsQuotes
         DEF IInv, CheckoutStep, prepare_checkout, Failure
    <3> QED
      BY <3>2, <3>3
  <2>2. CASE Tick \/ Rest \/ UNCHANGED vars
    BY <1>2, <2>2 DEF Tick, Rest, vars, tables, QuotesFollowRequest, QuotesInOrder
  <2> QED
    BY <1>2, <2>1, <2>2 DEF Next, CheckoutStep, QuotesFollowRequest, QuotesInOrder
<1> QED
  BY <1>1, <1>2, CheckoutInvariant, PTL DEF Spec

\* No seat is sold to two checkouts.
SoldOnce ==
    \A c, d \in Checkouts : c # d /\ Live(c) /\ Live(d) => RequestedRows(c) \cap RequestedRows(d) = {}

\* Two bookings that await payment in time never have a seat in common, whatever
\* was asked for at once (prepare_checkout reserves under the locks of the rows).
THEOREM NoSeatIsSoldTwice == Spec => []SoldOnce
<1>1. ASSUME LiveBookingHoldsItsSeats PROVE SoldOnce
  <2> SUFFICES ASSUME NEW c \in Checkouts, NEW d \in Checkouts, c # d, Live(c), Live(d),
                      NEW r \in RequestedRows(c), r \in RequestedRows(d)
               PROVE  FALSE
    BY DEF SoldOnce
  <2>1. HoldsSeat(c, r) /\ HoldsSeat(d, r)
    BY <1>1 DEF LiveBookingHoldsItsSeats
  <2>2. event_seats[r].booking_id = c
    BY <2>1 DEF HoldsSeat
  <2>3. event_seats[r].booking_id = d
    BY <2>1 DEF HoldsSeat
  <2> QED
    BY <2>2, <2>3
<1> QED
  BY <1>1, NoLostSeat, PTL

\* The price a client is answered with is the price its booking stores.
THEOREM AnswersAgreeWithBookings == Spec => []AnsweredQuotesAreStored
<1>1. IInv /\ QuotesFollowRequest => AnsweredQuotesAreStored
  BY DEF IInv, BookingFollowsRequest, QuotesFollowRequest, QuotesInOrder, AnsweredQuotesAreStored,
         At
<1> QED
  BY <1>1, CheckoutInvariant, QuotesInvariant, PTL

\* A checkout that is over, however it ended, has no task left running.
THEOREM NoTaskIsLeft == Spec => []NoOrphanProtectionTask
<1>1. QuotesFollowRequest => NoOrphanProtectionTask
  BY DEF QuotesFollowRequest, QuotesInOrder, NoOrphanProtectionTask
<1> QED
  BY <1>1, QuotesInvariant, PTL

\* No checkout comes to store its quotes after its reservation has run out.
QuotesComeInTime ==
    \A c \in Checkouts : At(c, "applying") => bookings[c].reserved_until > now

\* Late quotes are all that stands between a confirmed booking and its seats: if
\* they always come before the reservation runs out, it holds every one of them.
THEOREM ConfirmedInTimeHoldsItsSeats ==
    Spec /\ []QuotesComeInTime => ReturnedBookingHoldsItsSeats
<1> DEFINE Confirmed(c) == \A r \in RequestedRows(c) : event_seats'[r].booking_id = c
<1>1. ASSUME IInv, QuotesComeInTime, [Next]_vars, NEW c \in Checkouts,
             pc[c] # "returned", pc'[c] = "returned"
      PROVE  Confirmed(c)
  <2>1. ApplyQuotes(c)
    BY <1>1
       DEF IInv, TypeOK, Next, prepare_checkout, Reservation, Quoting, Release, Failure,
           RejectDuplicateSeats, RejectUnknownEvent, BeginReservation, LockRequestedRow,
           RejectMissingSeats, RejectUnavailableSeats, ReserveSeats, CommitReservation,
           ReservationFails, ProtectionAnswers, PaymentQuoted, PaymentFails,
           CollectProtectionQuote, ApplyQuotes, ApplyQuotesFails, CancelProtection, BeginRelease,
           LockReservedRow, CommitRelease, ReleaseFails, Crash, Compensate, Raise, Goto, Tick,
           Rest, vars
  <2>2. At(c, "applying") /\ event_seats' = event_seats
    BY <2>1 DEF ApplyQuotes
  <2>3. Live(c)
    BY <1>1, <2>2 DEF IInv, BookingFollowsRequest, QuotesComeInTime, Live, At
  <2>4. ASSUME NEW r \in RequestedRows(c) PROVE event_seats'[r].booking_id = c
    <3>1. HoldsSeat(c, r)
      BY <1>1, <2>3 DEF IInv, LiveBookingHoldsItsSeats
    <3> QED
      BY <2>2, <3>1 DEF HoldsSeat
  <2> QED
    BY <2>4
<1>2. IInv /\ QuotesComeInTime /\ [Next]_vars =>
        [\A c \in Checkouts : pc[c] # "returned" /\ pc'[c] = "returned" => Confirmed(c)]_vars
  BY <1>1
<1> QED
  BY <1>2, CheckoutInvariant, PTL DEF Spec, ReturnedBookingHoldsItsSeats

-----------------------------------------------------------------------------
\* The organizer is shown what a checkout would get, for any table of seats.
THEOREM OccupancyIsHonest == Spec => []OccupancyFollowsBooking
<1>1. ASSUME IInv, NEW e \in Events, NEW t \in Nat
      PROVE  AvailableSeats(e, t) = BookableSeats(e, t)
  <2> SUFFICES ASSUME NEW r \in EventRows(e)
               PROVE  (ReservedActive(event_seats[r], t) \/ event_seats[r].status = "sold")
                         <=> ~SeatIsAvailable(event_seats[r], t)
    BY DEF AvailableSeats, BookableSeats, ReservedSeats, SoldSeats
  <2>1. r \in EventSeats
    BY DEF EventRows
  <2>2. CASE event_seats[r] = FreeSeat
    BY <2>2 DEF FreeSeat, ReservedActive, SeatIsAvailable
  <2>3. ASSUME NEW c \in Checkouts, bookings[c] # NULL, HoldsSeat(c, r)
        PROVE  (ReservedActive(event_seats[r], t) \/ event_seats[r].status = "sold")
                  <=> ~SeatIsAvailable(event_seats[r], t)
    <3>1. c # NULL
      BY CheckoutAssumption
    <3>2. bookings[c].reserved_until \in Nat /\ bookings[c].reserved_until # NULL
      BY <1>1, <2>3, NullAssumption DEF IInv, TypeOK, Booking
    <3> QED
      BY <2>1, <2>3, <3>1, <3>2 DEF HoldsSeat, ReservedActive, SeatIsAvailable
  <2> QED
    BY <1>1, <2>1, <2>2, <2>3 DEF IInv, SeatsAgreeWithBookings
<1>2. ASSUME IInv, NEW e \in Events, NEW t \in Nat, t <= now
      PROVE  BookableSeats(e, t) \subseteq BookableSeats(e, now)
  <2> SUFFICES ASSUME NEW r \in EventRows(e), SeatIsAvailable(event_seats[r], t)
               PROVE  SeatIsAvailable(event_seats[r], now)
    BY DEF BookableSeats
  <2>1. now \in Nat /\ event_seats[r] \in EventSeat
    BY <1>2 DEF IInv, TypeOK, EventRows
  <2> QED
    BY <1>2, <2>1 DEF SeatIsAvailable, EventSeat
<1>3. IInv => OccupancyFollowsBooking
  <2> SUFFICES ASSUME IInv, NEW e \in Events, NEW t \in 0 .. now + BOOKING_TTL
               PROVE  /\ AvailableSeats(e, t) = BookableSeats(e, t)
                      /\ t <= now => AvailableSeats(e, t) \subseteq BookableSeats(e, now)
    BY DEF OccupancyFollowsBooking
  <2>1. now \in Nat /\ t \in Nat
    BY DEF IInv, TypeOK
  <2> QED
    BY <1>1, <1>2, <2>1
<1> QED
  BY <1>3, CheckoutInvariant, PTL

\* total - reserved - sold, as _load_occupancy computes it from the three counts.
Available(e, t) ==
    Cardinality(EventRows(e)) - Cardinality(ReservedSeats(e, t)) - Cardinality(SoldSeats(e))

AvailableCountsBookable ==
    \A e \in Events : \A t \in 0 .. now + BOOKING_TTL :
        Available(e, t) = Cardinality(BookableSeats(e, t))

\* The number shown as available is the number of seats a checkout would get: the
\* counts of occupancy_counts never count a row twice (_load_occupancy).
THEOREM CountsAddUp == Spec => []AvailableCountsBookable
<1>1. ASSUME OccupancyFollowsBooking, NEW e \in Events, NEW t \in 0 .. now + BOOKING_TTL
      PROVE  Available(e, t) = Cardinality(BookableSeats(e, t))
  <2> DEFINE Rows == EventRows(e)
             Reserved == ReservedSeats(e, t)
             Sold == SoldSeats(e)
             Rest1 == Rows \ Reserved
             Rest2 == Rest1 \ Sold
  <2>1. Reserved \subseteq Rows /\ Sold \subseteq Rest1 /\ Rest2 = AvailableSeats(e, t)
    BY DEF ReservedSeats, SoldSeats, ReservedActive, AvailableSeats
  <2>2. IsFiniteSet(Rows)
    <3>1. Rows \subseteq EventSeats
      BY DEF EventRows
    <3> QED
      BY <3>1, FS_Subset, CheckoutAssumption
  <2>3. BookableSeats(e, t) = Rest2
    BY <1>1, <2>1 DEF OccupancyFollowsBooking
  <2> HIDE DEF Rows, Reserved, Sold
  <2>4. /\ IsFiniteSet(Rest1) /\ IsFiniteSet(Reserved) /\ IsFiniteSet(Sold)
        /\ Cardinality(Rest1) = Cardinality(Rows) - Cardinality(Reserved)
    <3>1. Rows \cap Reserved = Reserved
      BY <2>1
    <3> QED
      BY <2>1, <2>2, <3>1, FS_Difference, FS_Subset
  <2>5. Cardinality(Rest2) = Cardinality(Rest1) - Cardinality(Sold)
    <3>1. Rest1 \cap Sold = Sold
      BY <2>1
    <3> HIDE DEF Rest1
    <3>2. Cardinality(Rest1 \ Sold) = Cardinality(Rest1) - Cardinality(Rest1 \cap Sold)
      BY <2>4, FS_Difference
    <3> QED
      BY <3>1, <3>2
  <2> QED
    BY <2>3, <2>4, <2>5 DEF Available, Rows, Reserved, Sold
<1>2. OccupancyFollowsBooking => AvailableCountsBookable
  BY <1>1 DEF AvailableCountsBookable
<1> QED
  BY <1>2, OccupancyIsHonest, PTL

-----------------------------------------------------------------------------
(***************************************************************************)
(* Checkout implements SeatLedger: each commit, answer, failure and tick is *)
(* one step of the ledger, and every other step leaves holders, times and   *)
(* outcomes as they are.                                                   *)
(***************************************************************************)
\* No seat is held at first, in the tables as in the ledger.
LEMMA LedgerInit == Init => Ledger!Init
<1> SUFFICES ASSUME Init PROVE Ledger!Init
  OBVIOUS
<1>1. Holders = [r \in EventSeats |-> NULL]
  BY DEF Init, Holders, FreeSeat
<1>2. Until = [c \in Checkouts |-> NULL]
  BY DEF Init, Until
<1>3. Outcomes = [c \in Checkouts |-> "pending"]
  BY DEF Init, Outcomes, Outcome, At
<1> QED
  BY <1>1, <1>2, <1>3 DEF Ledger!Init, Init

\* The client of a request learns nothing before its last step.
LEMMA PendingOutcome ==
    ASSUME NEW c \in Checkouts, pc[c] \notin Finished
    PROVE  Outcome(c) = "pending"
BY DEF Outcome, At, Finished

\* A step that keeps pc and answer of every other request keeps their outcomes.
LEMMA OutcomeOfOne ==
    ASSUME IInv, NEW c \in Checkouts, NEW o, Outcome(c)' = o,
           \A d \in Others(c) : pc'[d] = pc[d] /\ answer'[d] = answer[d]
    PROVE  Outcomes' = [Outcomes EXCEPT ![c] = o]
<1>1. \A d \in Others(c) : Outcome(d)' = Outcome(d)
  BY DEF Outcome, At
<1> QED
  BY <1>1 DEF Outcomes, Others

\* An outcome only appears where a request finishes.
LEMMA OutcomesStay ==
    ASSUME NEW c \in Checkouts,
           \A d \in Others(c) : pc'[d] = pc[d] /\ answer'[d] = answer[d],
           \/ pc'[c] = pc[c] /\ answer'[c] = answer[c]
           \/ pc[c] \notin Finished /\ pc'[c] \notin Finished
    PROVE  Outcomes' = Outcomes
<1>1. \A d \in Others(c) : Outcome(d)' = Outcome(d)
  BY DEF Outcome, At
<1>2. Outcome(c)' = Outcome(c)
  BY DEF Outcome, At, Finished
<1> QED
  BY <1>1, <1>2 DEF Outcomes, Others

\* What leaves the ledger as it is.
Silent(c) ==
    \/ BeginReservation(c) \/ LockRequestedRow(c) \/ ReserveSeats(c)
    \/ ProtectionAnswers(c) \/ PaymentQuoted(c) \/ PaymentFails(c) \/ CollectProtectionQuote(c)
    \/ ApplyQuotesFails(c) \/ CancelProtection(c) \/ BeginRelease(c) \/ LockReservedRow(c)

\* The steps the ledger does not see are stutters of it.
LEMMA SilentStep ==
    ASSUME IInv, NEW c \in Checkouts, Silent(c)
    PROVE  UNCHANGED <<now, Holders, Until, Outcomes>>
<1> USE DEF IInv, TypeOK, given, tables, At, Goto
<1>1. now' = now /\ event_seats' = event_seats
  BY DEF Silent, BeginReservation, LockRequestedRow, ReserveSeats, ProtectionAnswers,
         PaymentQuoted, PaymentFails, CollectProtectionQuote, ApplyQuotesFails,
         CancelProtection, BeginRelease, LockReservedRow
<1>2. Holders' = Holders
  BY <1>1 DEF Holders
<1>3. Until' = Until
  <2>1. CASE bookings' = bookings
    BY <2>1 DEF Until
  <2>2. CASE ApplyQuotesFails(c) /\ bookings' # bookings
    <3>1. At(c, "applying") /\ StoreQuotes(c)
      BY <2>2 DEF ApplyQuotesFails
    <3> QED
      BY <3>1, StoreQuotesStep DEF Until
  <2> QED
    BY <2>1, <2>2 DEF Silent, BeginReservation, LockRequestedRow, ReserveSeats,
           ProtectionAnswers, PaymentQuoted, PaymentFails, CollectProtectionQuote,
           CancelProtection, BeginRelease, LockReservedRow
<1>4. \A d \in Others(c) : pc'[d] = pc[d] /\ answer'[d] = answer[d]
  BY DEF Silent, Compensate, BeginReservation, LockRequestedRow, ReserveSeats,
         ProtectionAnswers, PaymentQuoted, PaymentFails, CollectProtectionQuote,
         ApplyQuotesFails, CancelProtection, BeginRelease, LockReservedRow, Others
<1>5. \/ pc'[c] = pc[c] /\ answer'[c] = answer[c]
      \/ pc[c] \notin Finished /\ pc'[c] \notin Finished
  BY DEF Silent, Compensate, BeginReservation, LockRequestedRow, ReserveSeats,
         ProtectionAnswers, PaymentQuoted, PaymentFails, CollectProtectionQuote, RowsLocked,
         ApplyQuotesFails, CancelProtection, BeginRelease, LockReservedRow, Finished
<1>6. Outcomes' = Outcomes
  BY <1>4, <1>5, OutcomesStay
<1> QED
  BY <1>1, <1>2, <1>3, <1>6

\* A request that has no booking holds no seat.
LEMMA NoBookingNoSeat ==
    ASSUME IInv, NEW c \in Checkouts, bookings[c] = NULL, NEW r \in EventSeats
    PROVE  event_seats[r].booking_id # c
<1>1. CASE event_seats[r] = FreeSeat
  BY <1>1, CheckoutAssumption DEF FreeSeat
<1>2. CASE event_seats[r] # FreeSeat
  <2>1. PICK h \in Checkouts : bookings[h] # NULL /\ HoldsSeat(h, r)
    BY <1>2 DEF IInv, SeatsAgreeWithBookings
  <2>2. event_seats[r].booking_id = h
    BY <2>1 DEF HoldsSeat
  <2> QED
    BY <2>1, <2>2
<1> QED
  BY <1>1, <1>2

\* A request that is refused before its reservation withdraws with nothing.
LEMMA RefusalStep ==
    ASSUME IInv, NEW c \in Checkouts,
           \/ RejectDuplicateSeats(c) \/ RejectUnknownEvent(c)
           \/ RejectMissingSeats(c) \/ RejectUnavailableSeats(c)
    PROVE  Ledger!Withdraw(c)
<1> USE DEF IInv, TypeOK, given, tables, At, Goto, Raise, RowsLocked
<1>1. UNCHANGED <<now, event_seats, bookings>>
  BY DEF RejectDuplicateSeats, RejectUnknownEvent, RejectMissingSeats, RejectUnavailableSeats
<1>2. pc[c] \in {"start", "locking"} /\ pc'[c] = "raised" /\ answer'[c] \in DomainErrors
  BY DEF RejectDuplicateSeats, RejectUnknownEvent, RejectMissingSeats, RejectUnavailableSeats,
         DomainErrors
<1>3. \A d \in Others(c) : pc'[d] = pc[d] /\ answer'[d] = answer[d]
  BY DEF RejectDuplicateSeats, RejectUnknownEvent, RejectMissingSeats, RejectUnavailableSeats,
         Others
<1>4. Outcome(c) = "pending" /\ Outcome(c)' = "refused"
  BY <1>2 DEF Outcome
<1>5. Outcomes' = [Outcomes EXCEPT ![c] = "refused"]
  BY <1>3, <1>4, OutcomeOfOne
<1>6. bookings[c] = NULL
  BY <1>2 DEF BookingFollowsRequest
<1>7. Holders' = [r \in EventSeats |-> IF Holders[r] = c THEN NULL ELSE Holders[r]]
  BY <1>1, <1>6, NoBookingNoSeat DEF Holders
<1>8. Until' = Until
  BY <1>1 DEF Until
<1> QED
  BY <1>1, <1>4, <1>5, <1>7, <1>8 DEF Ledger!Withdraw, Outcomes

\* The commit of a reservation grants its seats, even if its client never knows.
LEMMA GrantStep ==
    ASSUME IInv, NEW c \in Checkouts, At(c, "reserving"), StoreReservation(c), now' = now,
           NEW o \in {"pending", "unknown"}, Outcomes' = [Outcomes EXCEPT ![c] = o]
    PROVE  Ledger!Grant(c, LockedBy(c))
<1> USE DEF IInv, TypeOK, At
<1>1. bookings[c] = NULL
  BY DEF BookingFollowsRequest
<1>2. Outcomes[c] = "pending" /\ Until[c] = NULL
  BY <1>1 DEF Outcomes, Outcome, Until
<1>3. LockedBy(c) # {} /\ LockedBy(c) \subseteq EventSeats
  BY DEF ReservableUntilCommit, LockedBy
<1>4. ASSUME NEW r \in LockedBy(c) PROVE Ledger!Grantable(r)
  <2>1. CASE event_seats[r] = FreeSeat
    BY <1>3, <2>1 DEF Ledger!Grantable, Holders, FreeSeat
  <2>2. CASE event_seats[r] # FreeSeat
    <3>1. PICK h \in Checkouts : bookings[h] # NULL /\ HoldsSeat(h, r)
      BY <1>3, <2>2 DEF SeatsAgreeWithBookings
    <3>2. SeatIsAvailable(event_seats[r], now)
      BY DEF ReservableUntilCommit
    <3>3. bookings[h].reserved_until <= now
      BY <3>1, <3>2, CheckoutAssumption DEF SeatIsAvailable, HoldsSeat
    <3>4. Holders[r] = h /\ Until[h] = bookings[h].reserved_until
      BY <1>3, <3>1 DEF Holders, Until, HoldsSeat
    <3> QED
      BY <3>3, <3>4 DEF Ledger!Grantable
  <2> QED
    BY <2>1, <2>2
<1>5. Holders' = [r \in EventSeats |-> IF r \in LockedBy(c) THEN c ELSE Holders[r]]
  BY DEF StoreReservation, ReservedFor, Holders
<1>6. reserved_until[c] \in 0 .. now + BOOKING_TTL
  BY CheckoutAssumption DEF ReservableUntilCommit
<1>7. Until' = [Until EXCEPT ![c] = reserved_until[c]]
  BY StoreReservationStep DEF Until
<1>8. \E t \in 0 .. now + BOOKING_TTL : Until' = [Until EXCEPT ![c] = t]
  BY <1>6, <1>7
<1> QED
  BY <1>2, <1>3, <1>4, <1>5, <1>8 DEF Ledger!Grant

\* The commit of a reservation grants the seats it has locked.
LEMMA CommitReservationStep ==
    ASSUME IInv, NEW c \in Checkouts, CommitReservation(c)
    PROVE  Ledger!Grant(c, LockedBy(c))
<1> USE DEF IInv, TypeOK, At, Goto, given
<1>1. At(c, "reserving") /\ StoreReservation(c) /\ now' = now
  BY DEF CommitReservation
<1>2. /\ pc[c] \notin Finished /\ pc'[c] \notin Finished
      /\ \A d \in Others(c) : pc'[d] = pc[d] /\ answer'[d] = answer[d]
  BY DEF CommitReservation, Finished, Others
<1>3. Outcomes' = Outcomes /\ Outcomes[c] = "pending"
  BY <1>2, OutcomesStay, PendingOutcome DEF Outcomes
<1>4. Outcomes' = [Outcomes EXCEPT ![c] = "pending"]
  BY <1>3 DEF Outcomes
<1> QED
  BY <1>1, <1>4, GrantStep

\* The steps that end a request without its client knowing what became of it.
LEMMA LoseSightStep ==
    ASSUME IInv, NEW c \in Checkouts, ReservationFails(c) \/ ReleaseFails(c) \/ Crash(c)
    PROVE  Ledger!LoseSight(c) \/ Ledger!Grant(c, LockedBy(c))
<1> USE DEF IInv, TypeOK, At, Goto, Raise, given
<1>1. now' = now /\ pc[c] \notin Finished
  BY DEF ReservationFails, ReleaseFails, Crash, Finished
<1>2. \/ pc'[c] = "crashed"
      \/ pc'[c] = "raised" /\ answer'[c] = "InternalError"
  BY DEF ReservationFails, ReleaseFails, Crash
<1>3. \A d \in Others(c) : pc'[d] = pc[d] /\ answer'[d] = answer[d]
  BY DEF ReservationFails, ReleaseFails, Crash, Others
<1>4. Outcome(c)' = "unknown"
  BY <1>2 DEF Outcome, DomainErrors
<1>5. Outcomes' = [Outcomes EXCEPT ![c] = "unknown"]
  BY <1>3, <1>4, OutcomeOfOne
<1>6. Outcomes[c] = "pending"
  BY <1>1, PendingOutcome DEF Outcomes
<1>7. CASE event_seats' = event_seats /\ bookings' = bookings
  <2>1. Holders' = Holders /\ Until' = Until
    BY <1>7 DEF Holders, Until
  <2> QED
    BY <1>1, <1>5, <1>6, <2>1 DEF Ledger!LoseSight
<1>8. CASE At(c, "reserving") /\ StoreReservation(c)
  BY <1>1, <1>5, <1>8, GrantStep
<1> QED
  BY <1>7, <1>8 DEF ReservationFails, ReleaseFails, Crash, tables

\* The commit of the final transaction confirms what its booking still holds.
LEMMA ApplyQuotesStep ==
    ASSUME IInv, NEW c \in Checkouts, ApplyQuotes(c)
    PROVE  Ledger!Confirm(c)
<1> USE DEF IInv, TypeOK, At, Goto, given
<1>1. /\ pc[c] = "applying"
      /\ bookings[c] # NULL
      /\ QuotesApplicable(c)
  BY DEF ApplyQuotes, QuotesApplicable, BookingFollowsRequest
<1>2. /\ now' = now /\ event_seats' = event_seats
      /\ StoreQuotes(c)
      /\ pc'[c] = "returned"
      /\ \A d \in Others(c) : pc'[d] = pc[d] /\ answer'[d] = answer[d]
  BY <1>1 DEF ApplyQuotes, Others
<1>3. Outcome(c)' = "confirmed"
  BY <1>2 DEF Outcome
<1>4. Outcomes' = [Outcomes EXCEPT ![c] = "confirmed"]
  BY <1>2, <1>3, OutcomeOfOne
<1>5. Outcomes[c] = "pending"
  BY <1>1, PendingOutcome DEF Outcomes, Finished
<1>6. Holders' = Holders
  BY <1>2 DEF Holders
<1>7. Until' = Until
  BY <1>1, <1>2, StoreQuotesStep DEF Until
<1>8. Until[c] # NULL
  <2>1. bookings[c].reserved_until \in Nat
    BY <1>1 DEF Booking
  <2> QED
    BY <1>1, <2>1, NullAssumption DEF Until
<1> QED
  BY <1>2, <1>4, <1>5, <1>6, <1>7, <1>8 DEF Ledger!Confirm

\* The commit of release_booking withdraws its booking.
LEMMA CommitReleaseStep ==
    ASSUME IInv, NEW c \in Checkouts, CommitRelease(c)
    PROVE  Ledger!Withdraw(c)
<1> USE DEF IInv, TypeOK, At, Goto, Raise, given
<1>1. /\ now' = now
      /\ pc[c] = "freeing" /\ pc'[c] = "raised"
      /\ \A d \in Others(c) : pc'[d] = pc[d]
  BY DEF CommitRelease, Others
<1>10. \A d \in Others(c) : answer'[d] = answer[d]
  BY DEF CommitRelease, Others
<1>2. Outcome(c)' \in {"refused", "unknown"}
  BY <1>1 DEF Outcome
<1>3. PICK o \in {"refused", "unknown"} : Outcome(c)' = o
  BY <1>2
<1>4. Outcomes' = [Outcomes EXCEPT ![c] = o]
  BY <1>1, <1>3, <1>10, OutcomeOfOne
<1>5. Outcomes[c] = "pending"
  BY <1>1, PendingOutcome DEF Outcomes, Finished
<1>6. \A r \in EventSeats : event_seats[r].booking_id = c => r \in LockedBy(c)
  BY DEF CommitRelease, ReleaseCoversItsRows
<1>7. \A r \in EventSeats : event_seats'[r] = IF event_seats[r].booking_id = c
                                             THEN FreeSeat ELSE event_seats[r]
  BY <1>6 DEF CommitRelease, StillOwned
<1>8. Holders' = [r \in EventSeats |-> IF Holders[r] = c THEN NULL ELSE Holders[r]]
  BY <1>7 DEF Holders, FreeSeat
<1>9. Until' = Until
  <2>1. bookings[c] \in Booking /\ bookings[c] # NULL
    BY <1>1 DEF BookingFollowsRequest
  <2>2. /\ bookings'[c].reserved_until = bookings[c].reserved_until
        /\ bookings'[c] \in Booking
        /\ \A d \in Others(c) : bookings'[d] = bookings[d]
    BY <2>1 DEF CommitRelease, Booking, BookingStatus, Others
  <2>3. bookings'[c] # NULL
    BY <2>2, NullAssumption
  <2> QED
    BY <2>1, <2>2, <2>3 DEF Until, Others
<1> QED
  BY <1>1, <1>4, <1>5, <1>8, <1>9 DEF Ledger!Withdraw

\* Row-by-row locking, the compensating release and every failure keep the
\* promise of SeatLedger.
THEOREM CheckoutImplementsLedger == Spec => RefinesSeatLedger
<1>1. ASSUME IInv, [Next]_vars
      PROVE  [Ledger!Next]_<<now, Holders, Until, Outcomes>>
  <2>1. ASSUME NEW c \in Checkouts, Silent(c)
        PROVE  UNCHANGED <<now, Holders, Until, Outcomes>>
    BY <1>1, <2>1, SilentStep
  <2>2. ASSUME NEW c \in Checkouts,
               \/ RejectDuplicateSeats(c) \/ RejectUnknownEvent(c)
               \/ RejectMissingSeats(c) \/ RejectUnavailableSeats(c)
        PROVE  Ledger!Next
    BY <1>1, <2>2, RefusalStep DEF Ledger!Next
  <2>3. ASSUME NEW c \in Checkouts, CommitReservation(c) PROVE Ledger!Next
    <3>1. LockedBy(c) \in SUBSET EventSeats
      BY DEF LockedBy
    <3> QED
      BY <1>1, <2>3, <3>1, CommitReservationStep DEF Ledger!Next
  <2>4. ASSUME NEW c \in Checkouts, ReservationFails(c) \/ ReleaseFails(c) \/ Crash(c)
        PROVE  Ledger!Next
    <3>1. LockedBy(c) \in SUBSET EventSeats
      BY DEF LockedBy
    <3> QED
      BY <1>1, <2>4, <3>1, LoseSightStep DEF Ledger!Next
  <2>5. ASSUME NEW c \in Checkouts, ApplyQuotes(c) PROVE Ledger!Next
    BY <1>1, <2>5, ApplyQuotesStep DEF Ledger!Next
  <2>6. ASSUME NEW c \in Checkouts, CommitRelease(c) PROVE Ledger!Next
    BY <1>1, <2>6, CommitReleaseStep DEF Ledger!Next
  <2>7. ASSUME event_seats' = event_seats, bookings' = bookings, pc' = pc, answer' = answer
        PROVE  UNCHANGED <<Holders, Until, Outcomes>>
    BY <2>7 DEF Holders, Until, Outcomes, Outcome, At
  <2>8. CASE Tick
    BY <2>7, <2>8 DEF Tick, tables, Ledger!Next, Ledger!Pass
  <2>9. CASE UNCHANGED vars
    BY <2>7, <2>9 DEF vars, given, tables
  <2> QED
    BY <1>1, <2>1, <2>2, <2>3, <2>4, <2>5, <2>6, <2>8, <2>9
       DEF Next, prepare_checkout, Reservation, Quoting, Release, Failure, Rest, Silent
<1>2. IInv /\ [Next]_vars => [Ledger!Next]_Ledger!ledger
  BY <1>1 DEF Ledger!ledger
<1> QED
  BY LedgerInit, CheckoutInvariant, <1>2, PTL DEF Spec, RefinesSeatLedger, Ledger!Spec
=============================================================================
