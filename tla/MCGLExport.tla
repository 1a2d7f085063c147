----------------------------- MODULE MCGLExport -----------------------------
(***************************************************************************)
(* A small instance of GLExport: two overlapping windows.                  *)
(***************************************************************************)
EXTENDS GLExport, TLC

CONSTANTS b1, b2, b3, jan, quarter, x1, x2, x3

MCBatchesIn == (jan :> {b1, b2}) @@ (quarter :> {b1, b2, b3})
=============================================================================
