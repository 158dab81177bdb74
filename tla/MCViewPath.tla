----------------------------- MODULE MCViewPath -----------------------------
(***************************************************************************)
(* A small instance of ViewPath: three requests of one client to two server *)
(* processes, of which one may die and may fail to start.  The clock of the *)
(* dedupe keys runs for a window and its end.                              *)
(***************************************************************************)
EXTENDS ViewPath, TLC

CONSTANTS r1, r2, r3, c1, p1, p2

MCRequests == {r1, r2, r3}
MCClientOf == r1 :> c1 @@ r2 :> c1 @@ r3 :> c1
MCProcessOf == r1 :> p1 @@ r2 :> p2 @@ r3 :> p1

\* The requests of one client to one process.
Symmetry == Permutations({r1, r3})
=============================================================================
