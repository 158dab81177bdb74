----------------------------- MODULE SeatLedger -----------------------------
(***************************************************************************)
(* What checkout promises, whatever its transactions and retries look      *)
(* like: seats change hands as one indivisible step per booking, a booking *)
(* is granted only seats that are free or whose time has run out, and a    *)
(* client is told "confirmed" only of a booking that was granted and       *)
(* "refused" only of one that holds nothing.                               *)
(*                                                                         *)
(* It promises less than a reader may expect: a confirmed booking may have *)
(* run out before its confirmation (see ReturnedBookingHoldsItsSeats in    *)
(* Checkout), and an outcome may stay unknown to the client with the seats *)
(* held until they run out.                                                *)
(***************************************************************************)
EXTENDS Naturals

CONSTANTS
    Bookings,             \* every booking that may ever be asked for
    Seats,                \* the seats on sale
    TTL,                  \* how long a booking holds its seats at most
    None                  \* no booking, no time

VARIABLES
    now,                  \* the time
    holder,               \* the booking each seat was last granted to, or None
    until,                \* when each booking runs out; None before its grant
    outcome               \* what the client of each booking knows of it

ledger == <<now, holder, until, outcome>>

Init ==
    /\ now = 0
    /\ holder = [s \in Seats |-> None]
    /\ until = [b \in Bookings |-> None]
    /\ outcome = [b \in Bookings |-> "pending"]

Grantable(s) == holder[s] # None => until[holder[s]] <= now

\* A booking is granted all of its seats at once, and holds them for no longer
\* than TTL from now; the client may lose sight of it at that very moment.
Grant(b, S) ==
    /\ outcome[b] = "pending"
    /\ until[b] = None
    /\ S # {}
    /\ \A s \in S : Grantable(s)
    /\ holder' = [s \in Seats |-> IF s \in S THEN b ELSE holder[s]]
    /\ \E t \in 0 .. now + TTL : until' = [until EXCEPT ![b] = t]
    /\ \E o \in {"pending", "unknown"} : outcome' = [outcome EXCEPT ![b] = o]
    /\ UNCHANGED now

Confirm(b) ==
    /\ outcome[b] = "pending"
    /\ until[b] # None
    /\ outcome' = [outcome EXCEPT ![b] = "confirmed"]
    /\ UNCHANGED <<now, holder, until>>

\* The booking gives up all it holds, and nothing else.
Withdraw(b) ==
    /\ outcome[b] = "pending"
    /\ holder' = [s \in Seats |-> IF holder[s] = b THEN None ELSE holder[s]]
    /\ \E o \in {"refused", "unknown"} : outcome' = [outcome EXCEPT ![b] = o]
    /\ UNCHANGED <<now, until>>

\* A failure: the client knows nothing, the booking stays as it is.
LoseSight(b) ==
    /\ outcome[b] = "pending"
    /\ outcome' = [outcome EXCEPT ![b] = "unknown"]
    /\ UNCHANGED <<now, holder, until>>

Pass == now' = now + 1 /\ UNCHANGED <<holder, until, outcome>>

Next ==
    \/ \E b \in Bookings :
         \/ \E S \in SUBSET Seats : Grant(b, S)
         \/ Confirm(b) \/ Withdraw(b) \/ LoseSight(b)
    \/ Pass

Spec == Init /\ [][Next]_ledger
=============================================================================
