---------------------------- MODULE MCEventCache ----------------------------
(***************************************************************************)
(* Small instances of EventCache.                                          *)
(***************************************************************************)
EXTENDS EventCache, TLC

Symmetry == Permutations(Readers)
=============================================================================
