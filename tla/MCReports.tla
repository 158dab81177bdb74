----------------------------- MODULE MCReports -----------------------------
(***************************************************************************)
(* Small instances of Reports.                                             *)
(***************************************************************************)
EXTENDS Reports, TLC

Symmetry == Permutations(Jobs)
=============================================================================
