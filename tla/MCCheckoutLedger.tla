-------------------------- MODULE MCCheckoutLedger --------------------------
(***************************************************************************)
(* The instances of MCCheckout, for the refinement of SeatLedger.           *)
(***************************************************************************)
EXTENDS CheckoutLedger, MCCheckout
=============================================================================
