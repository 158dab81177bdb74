SPECIFICATION TimedSpec
CONSTANTS
    Checkouts = {c1, c2}
    Events = {"e1"}
    EventSeats = {1, 2}
    EventOf <- MCEventOf
    SeatOf <- MCSeatOf
    Faulty = {}
    Requests <- MCRequests
    BOOKING_TTL = 8
    MaxTime = 8
    NULL = NULL
    RATE = 1
    RETRY_COUNT = 2
    BASE_DELAY = 1
    MAX_DELAY = 1
    QUOTE_BUDGET = 5
    MaxAttempt = 1
    MaxDatabase = 1
VIEW MCView
SYMMETRY Symmetry
INVARIANTS
    RateIsKept
    QuotesAreInTime
PROPERTIES
    ReturnedBookingHoldsItsSeats
