------------------------------ MODULE Handover ------------------------------
(***************************************************************************)
(* What the formal export promises an auditor: each posted batch is handed *)
(* over in at most one package, a package is put together in one step from *)
(* batches of its window that nobody has yet, and never changes after.     *)
(***************************************************************************)
CONSTANTS Batches, Windows, BatchesIn, Runs, None

VARIABLES posted,    \* the batches in the ledger
          package    \* the run that handed a batch over, or None

Init == /\ posted = {}
        /\ package = [b \in Batches |-> None]

Post(b) == /\ posted' = posted \cup {b}
           /\ UNCHANGED package

HandOver(r, w, B) ==
    /\ \A b \in Batches : package[b] # r
    /\ B # {} /\ B \subseteq posted \cap BatchesIn[w]
    /\ \A b \in B : package[b] = None
    /\ package' = [b \in Batches |-> IF b \in B THEN r ELSE package[b]]
    /\ UNCHANGED posted

Next == \/ \E b \in Batches : Post(b)
        \/ \E r \in Runs, w \in Windows, B \in SUBSET Batches : HandOver(r, w, B)

Spec == Init /\ [][Next]_<<posted, package>>
=============================================================================
