----------------------------- MODULE MCReceipts -----------------------------
(***************************************************************************)
(* A small instance of Receipts: a month with two jobs of the admin and    *)
(* one of another user, and a cut-off day that cuts the month after job    *)
(* j1, so that the monthly run and the admin's own receipt can collide.    *)
(***************************************************************************)
EXTENDS Receipts, TLC

CONSTANTS j1, j2, j3, admin, user, jan, early, r1, r2, r3, p1, p2, s1, s2

MCJobUser == (j1 :> admin) @@ (j2 :> user) @@ (j3 :> admin)
MCJobsIn == (jan :> {j1, j2, j3}) @@ (early :> {j1})

\* Receipt, payment and session identities are interchangeable; jobs are not
\* (each has a user and windows of its own).
Symmetry == Permutations({r1, r2, r3}) \cup Permutations({p1, p2})
                \cup Permutations({s1, s2})
=============================================================================
