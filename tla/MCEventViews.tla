---------------------------- MODULE MCEventViews ----------------------------
(***************************************************************************)
(* Small instances of EventViews.                                          *)
(***************************************************************************)
EXTENDS EventViews, TLC

Symmetry == Permutations(Processes)
=============================================================================
