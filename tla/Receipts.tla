------------------------------ MODULE Receipts ------------------------------
(***************************************************************************)
(* The receipt store, models/billing_store.py, as concurrent requests see  *)
(* it on PostgreSQL (READ COMMITTED).  A request is a database session.    *)
(* Its unlocked reads (the jobs already billed, the invoices a user        *)
(* already has) are steps of their own and may be stale when it writes;    *)
(* mark-paid, revert and bulk void read their rows FOR UPDATE and keep the *)
(* row locks until they commit or roll back.                               *)
(***************************************************************************)
CONSTANTS Jobs,          \* canonical job keys (receipt_items.job_key)
          Users,
          JobUser,       \* the user each job ran as
          Admins,        \* users who may bill themselves
          MonthWindows,  \* [first day, last day] of a month: monthly invoices
          SelfWindows,   \* ["1970-01-01", before]: an admin's own receipt
          JobsIn,        \* the jobs whose End falls in a window
          StartInMonth,  \* TRUE if a month's receipt, read back from the
                         \* database, still starts in that month
          ReceiptIds,
          PaymentIds,
          Sessions,
          None

Windows == MonthWindows \cup SelfWindows

ASSUME WindowAssumption == /\ MonthWindows \cap SelfWindows = {}
                           /\ JobsIn \in [Windows -> SUBSET Jobs]
ASSUME UserAssumption   == /\ JobUser \in [Jobs -> Users]
                           /\ Admins \subseteq Users
                           /\ StartInMonth \in BOOLEAN
ASSUME NoneAssumption   == None \notin Users \cup Windows \cup ReceiptIds \cup PaymentIds

VARIABLES finished,   \* the jobs Slurm's accounting reports (external)
          status,     \* receipts.status, "absent" before the row exists
          head,       \* receipts.username and the window [start, end]
          items,      \* rows of receipt_items, <<receipt_id, job_key>>
          payment,    \* rows of payments: receipt_id and status
          txRef,      \* receipts.tx_ref, the payment that settled the receipt
          sess        \* what each session has read and holds locked

rows == <<status, head, items, payment, txRef>>
vars == <<finished, rows, sess>>

-----------------------------------------------------------------------------
\* Local state of a session.  target: the receipts it has locked; seen: those
\* whose locked row it read in the status the operation starts from.
Idle == [op |-> "idle", window |-> None, user |-> None, jobs |-> {},
         target |-> {}, seen |-> {}]

NoHead == [user |-> None, window |-> None]
NoPayment == [of |-> None, status |-> "absent"]

Live(r) == status[r] \in {"pending", "paid"}
ItemsOf(r) == {j \in Jobs : <<r, j>> \in items}
BilledJobs == {j \in Jobs : \E r \in ReceiptIds : <<r, j>> \in items}
Succeeded(r) == {p \in PaymentIds : payment[p] = [of |-> r, status |-> "succeeded"]}
\* fetch_jobs_with_fallbacks, less billed_job_ids().
Unbilled(w) == (JobsIn[w] \cap finished) \ BilledJobs
JobsOfUser(J, u) == {j \in J : JobUser[j] = u}

\* Mutant of Unlocked: the rows are read without FOR UPDATE.
NoRowLock(R) == TRUE

\* SELECT ... FOR UPDATE goes through once no other session holds the rows.
Unlocked(R) == \A t \in Sessions : sess[t].target \cap R = {}

Init == /\ finished = {}
        /\ status = [r \in ReceiptIds |-> "absent"]
        /\ head = [r \in ReceiptIds |-> NoHead]
        /\ items = {}
        /\ payment = [p \in PaymentIds |-> NoPayment]
        /\ txRef = [r \in ReceiptIds |-> None]
        /\ sess = [s \in Sessions |-> Idle]

-----------------------------------------------------------------------------
\* A job ends and shows up in the accounting data, in any order.
JobFinishes(j) ==
    /\ j \notin finished
    /\ finished' = finished \cup {j}
    /\ UNCHANGED <<rows, sess>>

\* create_month_invoices: the jobs of the month, less those billed already.
FetchMonth(s, w) ==
    /\ sess[s] = Idle
    /\ Unbilled(w) # {}
    /\ sess' = [sess EXCEPT ![s] = [Idle EXCEPT !.op = "invoice", !.window = w,
                                                !.jobs = Unbilled(w)]]
    /\ UNCHANGED <<finished, rows>>

\* create_self_receipt: the admin's own unbilled jobs up to a cut-off day.
FetchSelf(s, u, w) ==
    /\ sess[s] = Idle
    /\ JobsOfUser(Unbilled(w), u) # {}
    /\ sess' = [sess EXCEPT ![s] = [Idle EXCEPT !.op = "self", !.window = w, !.user = u,
                                                !.jobs = JobsOfUser(Unbilled(w), u)]]
    /\ UNCHANGED <<finished, rows>>

\* The request goes on with the jobs J it has not dealt with, or is done.
Remaining(s, J) == IF J = {} THEN Idle
                   ELSE [sess[s] EXCEPT !.user = None, !.jobs = J]

HasInvoice(u, w) == StartInMonth /\ \E r \in ReceiptIds :
                        head[r] = [user |-> u, window |-> w] /\ Live(r)

\* The loop over users of create_month_invoices: skip a user who has a live
\* invoice for the month, otherwise go on to create one.
CheckUser(s, u) ==
    /\ sess[s].op = "invoice" /\ sess[s].user = None
    /\ JobsOfUser(sess[s].jobs, u) # {}
    /\ sess' = [sess EXCEPT ![s] =
                   IF HasInvoice(u, sess[s].window)
                   THEN Remaining(s, sess[s].jobs \ JobsOfUser(sess[s].jobs, u))
                   ELSE [sess[s] EXCEPT !.user = u]]
    /\ UNCHANGED <<finished, rows>>

\* Mutant of JobKeysFree: no unique key on job_key.
NoJobKey(J) == TRUE

\* uq_receipt_items_job_key: the insert fails if any job has a row by now.
JobKeysFree(J) == J \cap BilledJobs = {}

InsertReceipt(r, u, w, J) ==
    /\ status' = [status EXCEPT ![r] = "pending"]
    /\ head' = [head EXCEPT ![r] = [user |-> u, window |-> w]]
    /\ items' = items \cup ({r} \X J)

\* Mutant of CreateReceipt: the receipt row outlives the failed item insert.
CreateWithoutItems(s, r) ==
    LET J == JobsOfUser(sess[s].jobs, sess[s].user) IN
    /\ sess[s].user # None
    /\ status[r] = "absent"
    /\ InsertReceipt(r, sess[s].user, sess[s].window, IF JobKeysFree(J) THEN J ELSE {})
    /\ sess' = [sess EXCEPT ![s] = Remaining(s, sess[s].jobs \ J)]
    /\ UNCHANGED <<finished, payment, txRef>>

\* create_receipt_from_rows for the user at hand: the receipt with all its
\* items, or (duplicate job key) nothing at all; the monthly run then goes on
\* with the next user.
CreateReceipt(s, r) ==
    LET J == JobsOfUser(sess[s].jobs, sess[s].user) IN
    /\ sess[s].user # None
    /\ status[r] = "absent"
    /\ IF JobKeysFree(J) THEN InsertReceipt(r, sess[s].user, sess[s].window, J)
                         ELSE UNCHANGED <<status, head, items>>
    /\ sess' = [sess EXCEPT ![s] = Remaining(s, sess[s].jobs \ J)]
    /\ UNCHANGED <<finished, payment, txRef>>

-----------------------------------------------------------------------------
\* Lock the rows R and note which of them are in status st.
LockRows(s, op, R, st) ==
    /\ sess[s] = Idle
    /\ Unlocked(R)
    /\ sess' = [sess EXCEPT ![s] = [Idle EXCEPT !.op = op, !.target = R,
                                                !.seen = {r \in R : status[r] = st}]]
    /\ UNCHANGED <<finished, rows>>

\* Mutant of LockToPay: a paid receipt is paid once more.
LockToPayAgain(s, r) == status[r] # "absent" /\ LockRows(s, "pay", {r}, status[r])

\* mark_receipt_paid up to its checks: only a pending receipt is settled, a
\* void one is refused and a paid one left as it is.
LockToPay(s, r) == status[r] # "absent" /\ LockRows(s, "pay", {r}, "pending")

\* revert_receipt_to_pending up to its checks: only a paid receipt reverts.
LockToRevert(s, r) == status[r] # "absent" /\ LockRows(s, "revert", {r}, "paid")

\* Mutant of LockToVoid: the loop takes the paid receipts.
LockToVoidPaid(s, w) ==
    LockRows(s, "void", {r \in ReceiptIds : head[r].window = w}, "paid")

\* bulk_void_pending_invoices_for_month locks every receipt of the month.
LockToVoid(s, w) ==
    LockRows(s, "void", {r \in ReceiptIds : head[r].window = w}, "pending")

\* Mutant of Settle: the payment gets the receipt's status.
SettleAsPaid(r, p) ==
    /\ payment[p] = NoPayment
    /\ payment' = [payment EXCEPT ![p] = [of |-> r, status |-> "paid"]]
    /\ status' = [status EXCEPT ![r] = "paid"]
    /\ txRef' = [txRef EXCEPT ![r] = p]

\* The row updates of mark_receipt_paid: a succeeded payment, then the receipt.
Settle(r, p) ==
    /\ payment[p] = NoPayment
    /\ payment' = [payment EXCEPT ![p] = [of |-> r, status |-> "succeeded"]]
    /\ status' = [status EXCEPT ![r] = "paid"]
    /\ txRef' = [txRef EXCEPT ![r] = p]

PayCommit(s) ==
    /\ sess[s].op = "pay"
    /\ \/ sess[s].seen = {} /\ UNCHANGED <<status, payment, txRef>>
       \/ \E r \in sess[s].seen, p \in PaymentIds : Settle(r, p)
    /\ sess' = [sess EXCEPT ![s] = Idle]
    /\ UNCHANGED <<finished, head, items>>

\* The row updates of revert_receipt_to_pending: every succeeded payment of
\* the receipt is canceled and its paid fields are cleared.
RevertCommit(s) ==
    /\ sess[s].op = "revert"
    /\ LET R == sess[s].seen IN
       /\ payment' = [p \in PaymentIds |->
                        IF p \in UNION {Succeeded(r) : r \in R}
                        THEN [payment[p] EXCEPT !.status = "canceled"] ELSE payment[p]]
       /\ status' = [r \in ReceiptIds |-> IF r \in R THEN "pending" ELSE status[r]]
       /\ txRef' = [r \in ReceiptIds |-> IF r \in R THEN None ELSE txRef[r]]
    /\ sess' = [sess EXCEPT ![s] = Idle]
    /\ UNCHANGED <<finished, head, items>>

\* Mutant of VoidCommit: the items stay.
VoidKeepsItems(s) ==
    /\ sess[s].op = "void"
    /\ status' = [r \in ReceiptIds |-> IF r \in sess[s].seen THEN "void" ELSE status[r]]
    /\ sess' = [sess EXCEPT ![s] = Idle]
    /\ UNCHANGED <<finished, head, items, payment, txRef>>

\* The loop of bulk_void_pending_invoices_for_month: a pending receipt loses
\* its items, which frees their job keys, and becomes void.
VoidCommit(s) ==
    /\ sess[s].op = "void"
    /\ LET R == sess[s].seen IN
       /\ items' = {i \in items : i[1] \notin R}
       /\ status' = [r \in ReceiptIds |-> IF r \in R THEN "void" ELSE status[r]]
    /\ sess' = [sess EXCEPT ![s] = Idle]
    /\ UNCHANGED <<finished, head, payment, txRef>>

\* The transaction rolls back: the process dies, a statement fails, or the
\* revert is refused because the payment month is closed.
Abandon(s) ==
    /\ sess[s] # Idle
    /\ sess' = [sess EXCEPT ![s] = Idle]
    /\ UNCHANGED <<finished, rows>>

-----------------------------------------------------------------------------
Start(s) == \/ \E w \in MonthWindows : FetchMonth(s, w) \/ LockToVoid(s, w)
            \/ \E u \in Admins, w \in SelfWindows : FetchSelf(s, u, w)
            \/ \E r \in ReceiptIds : LockToPay(s, r) \/ LockToRevert(s, r)

Finish(s) == \/ \E u \in Users : CheckUser(s, u)
             \/ \E r \in ReceiptIds : CreateReceipt(s, r)
             \/ PayCommit(s)
             \/ RevertCommit(s)
             \/ VoidCommit(s)
             \/ Abandon(s)

Next == \/ \E j \in Jobs : JobFinishes(j)
        \/ \E s \in Sessions : Start(s) \/ Finish(s)

Spec == Init /\ [][Next]_vars

-----------------------------------------------------------------------------
Session == [op : {"idle", "invoice", "self", "pay", "revert", "void"},
            window : Windows \cup {None}, user : Users \cup {None},
            jobs : SUBSET Jobs, target : SUBSET ReceiptIds, seen : SUBSET ReceiptIds]

\* The shape of the tables (schema.py) and of a session's local state.
TypeOK ==
    /\ finished \subseteq Jobs
    /\ status \in [ReceiptIds -> {"absent", "pending", "paid", "void"}]
    /\ head \in [ReceiptIds -> [user : Users \cup {None}, window : Windows \cup {None}]]
    /\ items \in SUBSET (ReceiptIds \X Jobs)
    /\ payment \in [PaymentIds -> [of : ReceiptIds \cup {None},
                                   status : {"absent", "succeeded", "canceled"}]]
    /\ txRef \in [ReceiptIds -> PaymentIds \cup {None}]
    /\ sess \in [Sessions -> Session]

\* No job is billed twice, although invoices are cut from stale reads of the
\* billed jobs: the monthly run and an admin's own receipt overlap.
JobBilledOnce ==
    \A r1, r2 \in ReceiptIds : r1 # r2 => ItemsOf(r1) \cap ItemsOf(r2) = {}

\* A live receipt bills at least one job and only its own user's jobs of its
\* own window; a void one bills nothing, so its jobs can be billed again.
ReceiptHoldsItsJobs ==
    \A r \in ReceiptIds :
        IF Live(r)
        THEN /\ ItemsOf(r) # {}
             /\ ItemsOf(r) \subseteq JobsOfUser(JobsIn[head[r].window], head[r].user)
        ELSE ItemsOf(r) = {}

\* A receipt is paid exactly when one payment for it has succeeded, and that
\* payment is the one tx_ref names: double clicks, reverts and voids that
\* overlap leave neither two payments nor a payment without its receipt.
PaidHasOneSucceededPayment ==
    \A r \in ReceiptIds :
        Succeeded(r) = IF status[r] = "paid" THEN {txRef[r]} ELSE {}

\* Paid receipts keep their items, and void receipts stay void.
SettledReceiptsKeepTheirItems ==
    [][\A r \in ReceiptIds :
         /\ status[r] = "paid" => ItemsOf(r)' = ItemsOf(r) /\ status'[r] # "void"
         /\ status[r] = "void" => status'[r] = "void"]_vars

\* A user has at most one live invoice per month: the loop of
\* create_month_invoices skips users who have one.
OneInvoicePerUserMonth ==
    \A r1, r2 \in ReceiptIds :
        (r1 # r2 /\ Live(r1) /\ Live(r2) /\ head[r1] = head[r2])
            => head[r1].window \notin MonthWindows

\* Every row lock is held by one session only, and what a session read under
\* its lock is still true when it writes.
LocksProtectReads ==
    \A s \in Sessions :
        /\ \A t \in Sessions \ {s} : sess[s].target \cap sess[t].target = {}
        /\ \A r \in sess[s].seen :
              status[r] = IF sess[s].op = "revert" THEN "paid" ELSE "pending"

-----------------------------------------------------------------------------
\* With all its stale reads, the store does what JobBilling promises.
HolderOf(j) == IF j \in BilledJobs
               THEN CHOOSE r \in ReceiptIds : <<r, j>> \in items ELSE None

Promise == INSTANCE JobBilling WITH
              billedTo <- [j \in Jobs |-> HolderOf(j)],
              issued   <- {r \in ReceiptIds : status[r] # "absent"},
              settled  <- {r \in ReceiptIds : status[r] = "paid"}

ImplementsJobBilling == Promise!Spec
=============================================================================
