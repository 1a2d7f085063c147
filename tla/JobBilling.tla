----------------------------- MODULE JobBilling -----------------------------
(***************************************************************************)
(* What the billing store promises about jobs and receipts, with every     *)
(* operation atomic: a finished job is on at most one receipt at a time, a *)
(* settled receipt keeps exactly the jobs it was issued for, and a job     *)
(* becomes billable again only when the unsettled receipt that held it is  *)
(* voided.  Receipt numbers are never used twice.                          *)
(* Module Receipts, with its stale reads and row locks, implements it.     *)
(***************************************************************************)
CONSTANTS Jobs,        \* canonical job keys
          ReceiptIds,  \* receipts.id, a sequence
          None         \* a value that is no receipt

VARIABLES billedTo,    \* the receipt that holds each job, or None
          issued,      \* receipt numbers used so far
          settled      \* the receipts that are paid

vars == <<billedTo, issued, settled>>

JobsOf(r) == {j \in Jobs : billedTo[j] = r}

Init == /\ billedTo = [j \in Jobs |-> None]
        /\ issued = {}
        /\ settled = {}

\* A new receipt takes a set of jobs that no receipt holds.
Bill(r, J) == /\ r \notin issued
              /\ J # {}
              /\ \A j \in J : billedTo[j] = None
              /\ billedTo' = [j \in Jobs |-> IF j \in J THEN r ELSE billedTo[j]]
              /\ issued' = issued \cup {r}
              /\ UNCHANGED settled

\* Only a receipt that holds jobs can be paid.
Settle(r) == /\ r \in issued \ settled
             /\ JobsOf(r) # {}
             /\ settled' = settled \cup {r}
             /\ UNCHANGED <<billedTo, issued>>

Unsettle(r) == /\ r \in settled
               /\ settled' = settled \ {r}
               /\ UNCHANGED <<billedTo, issued>>

\* Voiding a batch of unsettled receipts makes their jobs billable again.
Release(R) == /\ R \subseteq issued \ settled
              /\ billedTo' = [j \in Jobs |-> IF billedTo[j] \in R THEN None
                                                                 ELSE billedTo[j]]
              /\ UNCHANGED <<issued, settled>>

Next == \/ \E r \in ReceiptIds, J \in SUBSET Jobs : Bill(r, J)
        \/ \E r \in ReceiptIds : Settle(r) \/ Unsettle(r)
        \/ \E R \in SUBSET ReceiptIds : Release(R)

Spec == Init /\ [][Next]_vars
=============================================================================
