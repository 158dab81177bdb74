--------------------------- MODULE CheckoutLedger ---------------------------
(***************************************************************************)
(* Checkout implements SeatLedger.  A seat's holder is its booking_id, a    *)
(* grant is the commit of the reservation, and what the client knows is the *)
(* answer of its request.                                                  *)
(***************************************************************************)
EXTENDS Checkout

Outcome(c) ==
    CASE At(c, "returned") -> "confirmed"
      [] At(c, "raised") /\ answer[c] \in DomainErrors -> "refused"
      [] At(c, "raised") /\ answer[c] \notin DomainErrors -> "unknown"
      [] At(c, "crashed") -> "unknown"
      [] OTHER -> "pending"

Holders == [r \in EventSeats |-> event_seats[r].booking_id]

Until == [c \in Checkouts |-> IF bookings[c] = NULL THEN NULL ELSE bookings[c].reserved_until]

Outcomes == [c \in Checkouts |-> Outcome(c)]

Ledger == INSTANCE SeatLedger WITH
    Bookings <- Checkouts, Seats <- EventSeats, TTL <- BOOKING_TTL, None <- NULL,
    holder <- Holders, until <- Until, outcome <- Outcomes

\* Checkout keeps the promise of SeatLedger: every step of the code is one of
\* its grants, confirmations and withdrawals, or is invisible to clients.
RefinesSeatLedger == Ledger!Spec
=============================================================================
