SPECIFICATION FairSpec
CONSTANTS
    Checkouts = {c1, c2}
    Events = {"e1", "e2"}
    EventSeats = {1, 2, 3, 4}
    EventOf <- MCEventOf
    SeatOf <- MCSeatOf
    Faulty = {c1, c2}
    Requests <- MixedRequests
    BOOKING_TTL = 1
    MaxTime = 1
    NULL = NULL
INVARIANTS
    IInv
    SeatsAgreeWithBookings
    RefusedCheckoutHoldsNothing
    AnsweredQuotesAreStored
    NoOrphanProtectionTask
PROPERTIES
    RefinesSeatLedger
    EveryCheckoutIsAnswered
