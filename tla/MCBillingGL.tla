----------------------------- MODULE MCBillingGL -----------------------------
(***************************************************************************)
(* Small instances of BillingGL.  Amounts are in satang: a receipt of 1070 *)
(* baht with 7% VAT, for which every rate of the provision matrix gives a  *)
(* whole number.                                                           *)
(***************************************************************************)
EXTENDS BillingGL, TLC

CONSTANTS r1, r2, w1, w2

OneGross == r1 :> 107000
OneNet == r1 :> 100000
TwoGross == (r1 :> 107000) @@ (r2 :> 107000)
TwoNet == (r1 :> 100000) @@ (r2 :> 100000)

Receipt2 == Permutations({r1, r2})
Worker2 == Permutations({w1, w2})
=============================================================================
