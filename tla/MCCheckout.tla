----------------------------- MODULE MCCheckout -----------------------------
(***************************************************************************)
(* Small instances of Checkout and Dashboard.  Event "e2" has one seat of   *)
(* its own, so a request for it may name a seat that exists only in "e1";   *)
(* the row ids of "e1" run against its seat ids, so that locking by seat    *)
(* would show.                                                             *)
(***************************************************************************)
EXTENDS Dashboard, TLC

MCEventOf == 1 :> "e1" @@ 2 :> "e1" @@ 3 :> "e1" @@ 4 :> "e2"
MCSeatOf == 1 :> 13 @@ 2 :> 12 @@ 3 :> 11 @@ 4 :> 11

Ask(event, seats) == [event_id |-> event, seat_ids |-> seats]

\* Overlapping pairs of seats.
ContendedRequests == {Ask("e1", <<13, 12>>), Ask("e1", <<12>>)}

\* Every way prepare_checkout refuses its arguments, beside two good ones.
MixedRequests ==
    {Ask("e1", <<13, 12>>), Ask("e1", <<12>>), Ask("e1", <<12, 12>>),
     Ask("e2", <<11, 12>>), Ask("e3", <<11>>)}

Symmetry == Permutations(Checkouts)
=============================================================================
