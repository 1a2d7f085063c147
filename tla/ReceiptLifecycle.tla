-------------------------- MODULE ReceiptLifecycle --------------------------
(***************************************************************************)
(* The life of a receipt as the rest of the system may rely on it: created *)
(* pending, paid and reverted any number of times, voided for good while   *)
(* it is pending (models/billing_store.py).                                *)
(***************************************************************************)
CONSTANT ReceiptIds
VARIABLE status

Init == status = [r \in ReceiptIds |-> "absent"]

Move(R, from, to) ==
    /\ \A r \in R : status[r] = from
    /\ status' = [r \in ReceiptIds |-> IF r \in R THEN to ELSE status[r]]

Next == \/ \E r \in ReceiptIds : \/ Move({r}, "absent", "pending")
                                 \/ Move({r}, "pending", "paid")
                                 \/ Move({r}, "paid", "pending")
        \/ \E R \in SUBSET ReceiptIds : Move(R, "pending", "void")

Spec == Init /\ [][Next]_status
=============================================================================
