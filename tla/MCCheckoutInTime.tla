--------------------------- MODULE MCCheckoutInTime ---------------------------
(***************************************************************************)
(* Two checkouts of one seat each: the same, so that one may take it from   *)
(* the other, or different ones, so that both wait at the limiter.  A       *)
(* booking lasts one tick longer than what BookingOutlastsQuotes counts:    *)
(* one less, and a seat would be lost.                                     *)
(***************************************************************************)
EXTENDS CheckoutInTime, TLC

MCEventOf == 1 :> "e1" @@ 2 :> "e1"
MCSeatOf == 1 :> "s1" @@ 2 :> "s2"
MCRequests == {[event_id |-> "e1", seat_ids |-> <<s>>] : s \in {"s1", "s2"}}

ASSUME MCBookingOutlastsQuotes == BookingOutlastsQuotes(MaxOthers)

\* No guard and no property reads the exception in flight, which quotes came, or
\* when and how often a call that is over has tried.
MCCall(c) == IF call[c] \in {"quoted", "failed"} THEN <<call[c]>>
             ELSE <<call[c], begun[c], attempts[c], timer[c]>>
MCTask(c) == <<protection_task[c] = "running", quote_task[c] = "running", budget[c]>>
MCView == <<given, event_seats, [c \in Checkouts |-> IF bookings[c] = NULL THEN "none" ELSE bookings[c].status],
            locks, pc, reserved_until, left, level, sends,
            [c \in Checkouts |-> <<MCCall(c), MCTask(c)>>]>>

Symmetry == Permutations(Checkouts)
=============================================================================
