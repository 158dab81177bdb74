SPECIFICATION Spec
CONSTANTS
    Checkouts = {c1, c2, c3}
    Events = {"e1", "e2"}
    EventSeats = {1, 2, 3, 4}
    EventOf <- MCEventOf
    SeatOf <- MCSeatOf
    Faulty = {}
    Requests <- ContendedRequests
    BOOKING_TTL = 1
    MaxTime = 1
    NULL = NULL
SYMMETRY Symmetry
INVARIANTS
    NoDeadlock
    LiveBookingHoldsItsSeats
    OccupancyFollowsBooking
PROPERTIES
    OnlyExpiredSeatsChangeHands
