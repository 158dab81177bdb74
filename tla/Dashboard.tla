----------------------------- MODULE Dashboard -----------------------------
(***************************************************************************)
(* The occupancy an organizer sees, beside the rule checkout books by.      *)
(* occupancy_counts states that rule a second time, in SQL; it counts the   *)
(* sets below.                                                             *)
(***************************************************************************)
EXTENDS Checkout

EventRows(e) == {r \in EventSeats : EventOf[r] = e}

\* Mutant: every reserved row, in time or not.
ReservedActive_AnyTime(es, t) == es.status = "reserved"

\* reserved_active; a comparison with NULL selects nothing.
ReservedActive(es, t) ==
    es.status = "reserved" /\ es.reserved_until # NULL /\ es.reserved_until > t

ReservedSeats(e, t) == {r \in EventRows(e) : ReservedActive(event_seats[r], t)}
SoldSeats(e) == {r \in EventRows(e) : event_seats[r].status = "sold"}

\* available = total - reserved - sold.
AvailableSeats(e, t) == EventRows(e) \ (ReservedSeats(e, t) \cup SoldSeats(e))

\* The seats of e that a checkout at time t would get.
BookableSeats(e, t) == {r \in EventRows(e) : SeatIsAvailable(event_seats[r], t)}

\* "The same rules as in booking": by any clock - _load_occupancy reads its clock
\* before it waits for a connection - a seat is shown as available exactly if a
\* checkout would get it, and by an old clock none that one would be refused now.
\* The two rules differ on a reserved row without booking, or without time;
\* checkout leaves no such row.
OccupancyFollowsBooking ==
    \A e \in Events : \A t \in 0 .. now + BOOKING_TTL :
        /\ AvailableSeats(e, t) = BookableSeats(e, t)
        /\ t <= now => AvailableSeats(e, t) \subseteq BookableSeats(e, now)
=============================================================================
