------------------------------ MODULE BillingGL ------------------------------
(***************************************************************************)
(* The receipt handlers of controllers/admin.py together with the posted   *)
(* general ledger of services/gl_posting.py.                               *)
(*                                                                         *)
(* A handler is a sequence of database transactions.  Each posting is two  *)
(* steps: it reads what it decides on (receipt, period status, existing    *)
(* batches) and prepares a batch; later it inserts the batch, which fails  *)
(* if a batch with the same (source_ref, kind) has been committed by then  *)
(* (uq_batch_source_ref_kind).  Between any two steps another worker may   *)
(* run, the month may change, and the worker may die.                      *)
(***************************************************************************)
EXTENDS Integers, Sequences, FiniteSets, Functions, Journal

CONSTANTS ReceiptIds,
          Gross,       \* receipts.total
          Net,         \* the part of it that is not VAT (_split_net_vat)
          LastMonth,   \* bound: months are 1 .. LastMonth
          Lead,        \* a receipt's window may end Lead months after its creation
          Workers,     \* requests served at the same time
          Ops          \* the handlers in use

Months == 1 .. LastMonth
AllOps == {"create", "pay", "revert", "void", "uiClose", "close", "reopen",
           "bootstrap", "crash"}

ASSUME AmountAssumption ==
    /\ Gross \in [ReceiptIds -> Nat]
    /\ Net \in [ReceiptIds -> Nat]
    /\ \A r \in ReceiptIds : Net[r] <= Gross[r]
ASSUME ReceiptAssumption == IsFiniteSet(ReceiptIds)
ASSUME MonthAssumption == /\ LastMonth \in Nat \ {0}
                          /\ Lead \in Nat
                          /\ ReceiptIds \cap Int = {}
ASSUME OpsAssumption == Ops \subseteq AllOps

VARIABLES now,      \* the current month (UTC)
          period,   \* accounting_periods.status, "none" without a row
          rcpt,     \* receipts: status, the months of created_at, end and paid_at,
                    \* and whether it is a monthly invoice
          gl,       \* the committed batches in order of insertion
          req       \* what each worker is doing

vars == <<now, period, rcpt, gl, req>>

-----------------------------------------------------------------------------
NoReceipt == [status |-> "absent", created |-> 0, service |-> 0, paidAt |-> 0,
              monthly |-> FALSE]
NoBatch == [ref |-> 0, kind |-> "none", period |-> 0, lines |-> NoLines]
Batch(ref, kind, m, lines) ==
    [ref |-> ref, kind |-> kind, period |-> m, lines |-> lines]

\* A request: where it is, the posting function it runs and for which
\* receipts, the batch it is about to insert, where it goes when all are done,
\* the month it closes or reopens, the period status it read, the row it locks.
Task(at, job, R, after, m) ==
    [at |-> at, job |-> job, todo |-> R, batch |-> NoBatch, after |-> after,
     month |-> m, saw |-> "none", held |-> {}]
Idle == Task("idle", "none", {}, "idle", 0)

Exists(r) == rcpt[r].status # "absent"
Closed(m) == period[m] = "closed"
Posted(ref, kind) == \E i \in DOMAIN gl : gl[i].ref = ref /\ gl[i].kind = kind
Find(ref, kind) == gl[CHOOSE i \in DOMAIN gl : gl[i].ref = ref /\ gl[i].kind = kind]

\* The balance (debit less credit) of an account over the batches I.
BalanceOf(a, I) == SumFunctionOnSet([i \in I |-> gl[i].lines[a]], I)

Init == /\ now = 1
        /\ period = [m \in Months |-> "none"]
        /\ rcpt = [r \in ReceiptIds |-> NoReceipt]
        /\ gl = <<>>
        /\ req = [w \in Workers |-> Idle]

Go(w, next) == req' = [req EXCEPT ![w] = next]

\* Run posting function job for each receipt of R, then go on at step after.
PostEach(job, R, after) == Task("post", job, R, after, 0)

\* close_period for month m: the provision first, then the closing batch.
ToClose(m) == Task("ecl", "none", {}, "idle", m)

\* Mutant of RowsFree: the rows are read without FOR UPDATE.
RowsUnlocked(R) == TRUE

\* A receipt row can be locked FOR UPDATE once no other worker holds it.
RowsFree(R) == \A w \in Workers : req[w].held \cap R = {}

-----------------------------------------------------------------------------
(* controllers/admin.py: the requests *)

\* create_month_invoices for one user, about jobs that have ended, or
\* create_self_receipt, up to any day the admin names: the receipt is committed
\* first, post_receipt_issued follows in a transaction of its own.
CreateReceipt(w, r, service, monthly) ==
    /\ "create" \in Ops /\ req[w] = Idle
    /\ ~Exists(r)
    /\ monthly => service <= now
    /\ rcpt' = [rcpt EXCEPT ![r] = [status |-> "pending", created |-> now,
                                    service |-> service, paidAt |-> 0,
                                    monthly |-> monthly]]
    /\ Go(w, PostEach("issue", {r}, "idle"))
    /\ UNCHANGED <<now, period, gl>>

\* mark_paid: mark_receipt_paid (a paid receipt is left as it is, a void one
\* refused), then post_receipt_paid.
MarkPaid(w, r) ==
    /\ "pay" \in Ops /\ req[w] = Idle
    /\ RowsFree({r})
    /\ rcpt[r].status \in {"pending", "paid"}
    /\ rcpt' = IF rcpt[r].status = "paid" THEN rcpt
               ELSE [rcpt EXCEPT ![r].status = "paid", ![r].paidAt = now]
    /\ Go(w, PostEach("payment", {r}, "idle"))
    /\ UNCHANGED <<now, period, gl>>

\* revert_paid on a receipt that is pending already: only the postings are
\* reversed.
RevertPending(w, r) ==
    /\ "revert" \in Ops /\ req[w] = Idle
    /\ RowsFree({r})
    /\ rcpt[r].status = "pending"
    /\ Go(w, PostEach("undoPayment", {r}, "idle"))
    /\ UNCHANGED <<now, period, rcpt, gl>>

\* Mutant of RevertPaid: the revert commits before anything is reversed.
RevertBeforeReversal(w, r) ==
    /\ "revert" \in Ops /\ req[w] = Idle
    /\ RowsFree({r})
    /\ rcpt[r].status = "paid"
    /\ ~Closed(rcpt[r].paidAt)
    /\ Go(w, [Task("revert", "none", {}, "idle", 0) EXCEPT !.held = {r}])
    /\ UNCHANGED <<now, period, rcpt, gl>>

\* revert_paid on a paid receipt whose payment month is not closed: the row
\* stays locked while reverse_receipt_postings runs in a transaction of its own.
RevertPaid(w, r) ==
    /\ "revert" \in Ops /\ req[w] = Idle
    /\ RowsFree({r})
    /\ rcpt[r].status = "paid"
    /\ ~Closed(rcpt[r].paidAt)
    /\ Go(w, [PostEach("undoPayment", {r}, "revert") EXCEPT !.held = {r}])
    /\ UNCHANGED <<now, period, rcpt, gl>>

\* Mutant of CommitRevert: a status the table does not allow.
CommitCancelled(w) ==
    /\ req[w].at = "revert"
    /\ rcpt' = [r \in ReceiptIds |->
                  IF r \in req[w].held
                  THEN [rcpt[r] EXCEPT !.status = "canceled", !.paidAt = 0]
                  ELSE rcpt[r]]
    /\ Go(w, PostEach("undoPayment", req[w].held, "idle"))
    /\ UNCHANGED <<now, period, gl>>

\* revert_receipt_to_pending commits; revert_paid then reverses once more.
CommitRevert(w) ==
    /\ req[w].at = "revert"
    /\ rcpt' = [r \in ReceiptIds |->
                  IF r \in req[w].held
                  THEN [rcpt[r] EXCEPT !.status = "pending", !.paidAt = 0]
                  ELSE rcpt[r]]
    /\ Go(w, PostEach("undoPayment", req[w].held, "idle"))
    /\ UNCHANGED <<now, period, gl>>

\* bulk_revert_month_invoices: the pending invoices of a month become void in
\* one transaction, then their issue postings are reversed one by one.  (An
\* admin's own receipt starts in 1970 and so is in no month.)
BulkVoid(w, m) ==
    LET InMonth == {r \in ReceiptIds : rcpt[r].monthly /\ rcpt[r].service = m}
        Pending == {r \in InMonth : rcpt[r].status = "pending"} IN
    /\ "void" \in Ops /\ req[w] = Idle
    /\ RowsFree(InMonth)
    /\ Pending # {}
    /\ rcpt' = [r \in ReceiptIds |-> IF r \in Pending
                                     THEN [rcpt[r] EXCEPT !.status = "void"]
                                     ELSE rcpt[r]]
    /\ Go(w, PostEach("undoIssue", Pending, "idle"))
    /\ UNCHANGED <<now, period, gl>>

\* Mutant of UiClose: it closes without accruing and without the check.
CloseUnaccrued(w, m) ==
    /\ "uiClose" \in Ops /\ req[w] = Idle
    /\ Go(w, ToClose(m))
    /\ UNCHANGED <<now, period, rcpt, gl>>

\* ui_close_period: accrue every receipt whose service ends in the month
\* (post_service_accruals_for_period does nothing for a closed month), check
\* coverage, close.
UiClose(w, m) ==
    /\ "uiClose" \in Ops /\ req[w] = Idle
    /\ LET R == IF Closed(m) THEN {}
                ELSE {r \in ReceiptIds : Exists(r) /\ rcpt[r].service = m} IN
       Go(w, Task("post", "accrual", R, "coverage", m))
    /\ UNCHANGED <<now, period, rcpt, gl>>

\* The coverage check: every receipt of the month with a positive total has
\* an accrual batch in that month, or the close is blocked.
CheckCoverage(w) ==
    LET m == req[w].month
        Accrued(r) == \E i \in DOMAIN gl : /\ gl[i].ref = r /\ gl[i].kind = "accrual"
                                           /\ gl[i].period = m IN
    /\ req[w].at = "coverage"
    /\ IF \A r \in ReceiptIds :
             (Exists(r) /\ rcpt[r].service = m /\ Gross[r] > 0) => Accrued(r)
       THEN Go(w, ToClose(m))
       ELSE Go(w, Idle)
    /\ UNCHANGED <<now, period, rcpt, gl>>

\* close_period_endpoint: close_period with no accruals and no check.
CloseEndpoint(w, m) ==
    /\ "close" \in Ops /\ req[w] = Idle
    /\ Go(w, ToClose(m))
    /\ UNCHANGED <<now, period, rcpt, gl>>

\* reopen_period: the reversal of the closing batch, if there is one, is
\* prepared for the current month, whatever the status of that month.
Reopen(w, m) ==
    /\ "reopen" \in Ops /\ req[w] = Idle
    /\ Closed(m)
    /\ Go(w, [Task("insert", "reopening", {}, "idle", m) EXCEPT
                !.batch = IF Posted(m, "closing")
                          THEN Batch(m, "reversal", now, Reversed(Find(m, "closing").lines))
                          ELSE NoBatch])
    /\ UNCHANGED <<now, period, rcpt, gl>>

\* bootstrap_periods: an open row for every month some receipt mentions.
Bootstrap(w) ==
    /\ "bootstrap" \in Ops /\ req[w] = Idle
    /\ period' = [m \in Months |->
                    IF period[m] = "none" /\ \E r \in ReceiptIds :
                           m \in {rcpt[r].created, rcpt[r].service, rcpt[r].paidAt}
                    THEN "open" ELSE period[m]]
    /\ UNCHANGED <<now, rcpt, gl, req>>

-----------------------------------------------------------------------------
(* services/gl_posting.py: what each posting function reads and prepares *)

\* Mutant of PrepareIssue: is_period_closed is not asked.
PrepareIssueAnyway(r) ==
    LET m == rcpt[r].created
        ThroughContractAsset == Posted(r, "accrual") \/ rcpt[r].service < m IN
    IF Posted(r, "issue") \/ Gross[r] = 0 THEN NoBatch
    ELSE Batch(r, "issue", m, IssueLines(Gross[r], Net[r], ThroughContractAsset))

\* post_receipt_issued, into the month of created_at.
PrepareIssue(r) ==
    LET m == rcpt[r].created
        ThroughContractAsset == Posted(r, "accrual") \/ rcpt[r].service < m IN
    IF Closed(m) \/ Posted(r, "issue") \/ Gross[r] = 0 THEN NoBatch
    ELSE Batch(r, "issue", m, IssueLines(Gross[r], Net[r], ThroughContractAsset))

\* post_receipt_paid, into the month of paid_at.
PreparePayment(r) ==
    LET m == rcpt[r].paidAt IN
    IF rcpt[r].status # "paid" THEN NoBatch
    ELSE IF Closed(m) \/ Posted(r, "payment") \/ Gross[r] = 0 THEN NoBatch
    ELSE Batch(r, "payment", m, PaymentLines(Gross[r]))

\* Mutant of PrepareAccrual: the issue batch is not looked for.
PrepareAccrualTwice(r) ==
    LET m == rcpt[r].service IN
    IF Closed(m) \/ Posted(r, "accrual") \/ Net[r] = 0 THEN NoBatch
    ELSE Batch(r, "accrual", m, AccrualLines(Net[r]))

\* Mutant of PrepareAccrual: a receipt issued in the month gets no marker.
PrepareAccrualUnmarked(r) ==
    IF Posted(r, "issue") /\ Find(r, "issue").period = rcpt[r].service THEN NoBatch
    ELSE PrepareAccrualTwice(r)

\* post_service_accrual_for_receipt, into the month of end: a zero marker if
\* the receipt was issued in that same month.
PrepareAccrual(r) ==
    LET m == rcpt[r].service
        IssuedSameMonth == Posted(r, "issue") /\ Find(r, "issue").period = m IN
    IF Closed(m) \/ Posted(r, "accrual") THEN NoBatch
    ELSE IF IssuedSameMonth THEN Batch(r, "accrual", m, NoLines)
    ELSE IF Net[r] = 0 THEN NoBatch
    ELSE Batch(r, "accrual", m, AccrualLines(Net[r]))

\* Mutant of PrepareReversal: debit and credit are not swapped.
PrepareCopy(r, kind) ==
    IF ~Posted(r, kind) \/ Closed(now) THEN NoBatch
    ELSE Batch(r, "reversal", now, Find(r, kind).lines)

\* reverse_receipt_postings, into the current month.
PrepareReversal(r, kind) ==
    IF ~Posted(r, kind) \/ Closed(now) THEN NoBatch
    ELSE Batch(r, "reversal", now, Reversed(Find(r, kind).lines))

Prepare(job, r) == CASE job = "issue"       -> PrepareIssue(r)
                     [] job = "payment"     -> PreparePayment(r)
                     [] job = "accrual"     -> PrepareAccrual(r)
                     [] job = "undoIssue"   -> PrepareReversal(r, "issue")
                     [] job = "undoPayment" -> PrepareReversal(r, "payment")

\* _ensure_open_period, called once there is something to reverse.
EnsurePeriod(job, r) ==
    IF \/ job = "undoIssue" /\ Posted(r, "issue")
       \/ job = "undoPayment" /\ Posted(r, "payment")
    THEN period' = [period EXCEPT ![now] = IF @ = "none" THEN "open" ELSE @]
    ELSE UNCHANGED period

\* The posting function reads for its next receipt.  With nothing to post
\* (blocked, already posted, zero) it returns.
ReadForPosting(w, r) ==
    LET b == Prepare(req[w].job, r) IN
    /\ req[w].at = "post" /\ r \in req[w].todo
    /\ EnsurePeriod(req[w].job, r)
    /\ Go(w, [req[w] EXCEPT !.at = IF b = NoBatch THEN "post" ELSE "insert",
                            !.batch = b, !.todo = @ \ {r}])
    /\ UNCHANGED <<now, rcpt, gl>>

\* All receipts are done; the handler goes on.
DonePosting(w) ==
    /\ req[w].at = "post" /\ req[w].todo = {}
    /\ Go(w, IF req[w].after = "idle" THEN Idle
             ELSE [req[w] EXCEPT !.at = req[w].after, !.job = "none"])
    /\ UNCHANGED <<now, period, rcpt, gl>>

\* post_ecl_provision(ar_due_days=30): the allowance the receivables (due 30
\* days after the invoice) and contract assets (from the service end) open at
\* the end of month m require, less what is there.
MonthDays == 30
UpTo(m) == {i \in DOMAIN gl : gl[i].period <= m}
Outstanding(r, a, m) == BalanceOf(a, {i \in UpTo(m) : gl[i].ref = r})
Required(a, m) ==
    LET Days(r) == IF a = "ar" THEN MonthDays * (m - rcpt[r].created - 1)
                               ELSE MonthDays * (m - rcpt[r].service)
        loss == [r \in ReceiptIds |->
                   IF Outstanding(r, a, m) <= 0 THEN 0
                   ELSE Outstanding(r, a, m) * LossRate(Days(r))]
    IN (SumFunctionOnSet(loss, ReceiptIds) + 500) \div 1000
Delta(a, allowance, m) == Required(a, m) + BalanceOf(allowance, UpTo(m))

ReadProvision(w) ==
    LET m == req[w].month
        dAr == Delta("ar", "alwAr", m)
        dCa == Delta("ca", "alwCa", m)
        b == IF (dAr = 0 /\ dCa = 0) \/ Closed(m) THEN NoBatch
             ELSE Batch(m, "impairment", m, ImpairmentLines(dAr, dCa)) IN
    /\ req[w].at = "ecl"
    /\ Go(w, [req[w] EXCEPT !.at = IF b = NoBatch THEN "close" ELSE "insert",
                            !.job = "provision", !.batch = b])
    /\ UNCHANGED <<now, period, rcpt, gl>>

\* close_period: nothing for a closed month; otherwise the closing batch over
\* the month's lines, or none for an empty month.
ReadForClosing(w) ==
    LET m == req[w].month
        I == {i \in DOMAIN gl : gl[i].period = m /\ gl[i].kind # "closing"} IN
    /\ req[w].at = "close"
    /\ IF Closed(m) THEN Go(w, Idle)
       ELSE Go(w, [req[w] EXCEPT
                     !.at = "insert", !.job = "closing", !.saw = period[m],
                     !.batch = IF I = {} THEN NoBatch
                               ELSE Batch(m, "closing", m,
                                      ClosingLines([a \in Accounts |-> BalanceOf(a, I)]))])
    /\ UNCHANGED <<now, period, rcpt, gl>>

-----------------------------------------------------------------------------
(* The insert *)

\* Mutant of KeyFree: the table has no unique key.
NoUniqueKey(b) == TRUE

\* uq_batch_source_ref_kind
KeyFree(b) == ~Posted(b.ref, b.kind)

\* A close that created the period row fails if someone else has by now
\* (uq_period_ym).
RowFree(w) == req[w].job = "closing" /\ req[w].saw = "none"
                 => period[req[w].month] = "none"

\* The batch is committed, with the period's new status if the posting closes
\* or reopens one.
Insert(w) ==
    LET b == req[w].batch
        m == req[w].month IN
    /\ req[w].at = "insert"
    /\ KeyFree(b) /\ RowFree(w)
    /\ gl' = IF b = NoBatch THEN gl ELSE Append(gl, b)
    /\ period' = CASE req[w].job = "closing"   -> [period EXCEPT ![m] = "closed"]
                   [] req[w].job = "reopening" -> [period EXCEPT ![m] = "open"]
                   [] OTHER -> period
    /\ Go(w, CASE req[w].job \in {"closing", "reopening"} -> Idle
               [] req[w].job = "provision" -> [req[w] EXCEPT !.at = "close", !.batch = NoBatch]
               [] OTHER -> [req[w] EXCEPT !.at = "post", !.batch = NoBatch])
    /\ UNCHANGED <<now, rcpt>>

\* IntegrityError: the posting rolls back.  Handlers of receipts swallow it
\* and go on; an accrual run or a close ends with it.
InsertFails(w) ==
    /\ req[w].at = "insert"
    /\ ~(KeyFree(req[w].batch) /\ RowFree(w))
    /\ Go(w, IF req[w].job \in {"issue", "payment", "undoIssue", "undoPayment"}
             THEN [req[w] EXCEPT !.at = "post", !.batch = NoBatch] ELSE Idle)
    /\ UNCHANGED <<now, period, rcpt, gl>>

-----------------------------------------------------------------------------
\* The worker dies: its open transaction rolls back, its locks are released.
Crash(w) == /\ "crash" \in Ops /\ req[w] # Idle
            /\ Go(w, Idle)
            /\ UNCHANGED <<now, period, rcpt, gl>>

NextMonth == /\ now < LastMonth
             /\ now' = now + 1
             /\ UNCHANGED <<period, rcpt, gl, req>>

Begin(w) ==
    \/ \E r \in ReceiptIds, m \in Months, monthly \in BOOLEAN :
          m \in (now - 1) .. (now + Lead) /\ CreateReceipt(w, r, m, monthly)
    \/ \E r \in ReceiptIds : MarkPaid(w, r) \/ RevertPending(w, r) \/ RevertPaid(w, r)
    \/ \E m \in Months : BulkVoid(w, m) \/ UiClose(w, m) \/ CloseEndpoint(w, m)
                           \/ Reopen(w, m)
    \/ Bootstrap(w)

Step(w) == \/ CommitRevert(w) \/ CheckCoverage(w)
           \/ \E r \in ReceiptIds : ReadForPosting(w, r)
           \/ DonePosting(w) \/ ReadProvision(w) \/ ReadForClosing(w)
           \/ Insert(w) \/ InsertFails(w)

Next == NextMonth \/ \E w \in Workers : Begin(w) \/ Step(w) \/ Crash(w)

Spec == Init /\ [][Next]_vars

\* Every started handler runs to its end and the admin keeps closing months.
FairSpec == /\ Spec
            /\ \A w \in Workers : WF_vars(Step(w))
            /\ \A m \in Months : SF_vars(\E w \in Workers : UiClose(w, m))

-----------------------------------------------------------------------------
Jobs == {"none", "issue", "payment", "accrual", "undoIssue", "undoPayment",
         "provision", "closing", "reopening"}
Places == {"idle", "post", "revert", "coverage", "ecl", "close", "insert"}
Kinds == {"issue", "payment", "accrual", "reversal", "impairment", "closing"}

BatchType == [ref : ReceiptIds \cup Months, kind : Kinds, period : Months, lines : Lines]
ReceiptType == [status : {"absent", "pending", "paid", "void"},
                created : 0 .. LastMonth, service : 0 .. LastMonth,
                paidAt : 0 .. LastMonth, monthly : BOOLEAN]
Request == [at : Places, job : Jobs, todo : SUBSET ReceiptIds,
            batch : BatchType \cup {NoBatch}, after : Places,
            month : 0 .. LastMonth, saw : {"none", "open", "closed"},
            held : SUBSET ReceiptIds]

\* The shape of the tables (models/gl.py, schema.py) and of a request.
TypeOK == /\ now \in Months
          /\ period \in [Months -> {"none", "open", "closed"}]
          /\ rcpt \in [ReceiptIds -> ReceiptType]
          /\ gl \in Seq(BatchType)
          /\ req \in [Workers -> Request]

\* Whatever requests overlap and crash, a receipt's money comes in at most
\* once and is taken out at most once, by a later batch of the same amount:
\* post_receipt_paid and reverse_receipt_postings decide on unlocked reads.
CashMovesOnce ==
    \A i \in DOMAIN gl :
        LET cash == gl[i].lines["cash"] IN
        /\ cash # 0 => \A j \in DOMAIN gl :
              gl[j].ref = gl[i].ref /\ gl[j].lines["cash"] = cash => j = i
        /\ cash > 0 => cash = Gross[gl[i].ref]
        /\ cash < 0 => \E j \in 1 .. i - 1 :
              gl[j].ref = gl[i].ref /\ gl[j].lines["cash"] = -cash

\* Debits equal credits in every batch, so the trial balance agrees at any
\* moment, also between the steps of a handler and after a crash.
BooksBalance == \A i \in DOMAIN gl : Total(gl[i].lines) = 0

\* A reversal takes back exactly one earlier batch, of the same receipt or
\* the closing of the month reopened, and no batch is taken back twice.
ReversalsUndoOneBatch ==
    \A i \in DOMAIN gl : gl[i].kind = "reversal" =>
        /\ \E j \in 1 .. i - 1 :
              /\ gl[j].ref = gl[i].ref
              /\ gl[j].kind \in {"issue", "payment", "closing"}
              /\ gl[i].lines = Reversed(gl[j].lines)
        /\ \A k \in DOMAIN gl \ {i} :
              ~(gl[k].ref = gl[i].ref /\ gl[k].kind = "reversal")

CashOf(r) == BalanceOf("cash", {i \in DOMAIN gl : gl[i].ref = r})
Quiet == \A w \in Workers : req[w] = Idle

\* As long as no month is closed and requests come one at a time, a receipt
\* that is not paid has no cash in the books, wherever mark_paid or revert_paid
\* died: revert_receipt_to_pending reverses the payment before it commits.
NoCashWithoutPayment ==
    (Quiet /\ \A m \in Months : ~Closed(m)) =>
        \A r \in ReceiptIds : rcpt[r].status # "paid" => CashOf(r) = 0

\* The accrual and the issue of a receipt recognise its revenue once, in the
\* month of the service.  (Not if an admin's own receipt ends after the month
\* it is created in: post_receipt_issued then credits revenue at once, and the
\* accrual of the later month credits it again.)
Recognises(i, r) == /\ gl[i].ref = r /\ gl[i].kind \in {"accrual", "issue"}
                    /\ gl[i].lines["rev"] # 0
RevenueRecognisedOnce ==
    \A r \in ReceiptIds : rcpt[r].service <= rcpt[r].created =>
        \A i \in DOMAIN gl : Recognises(i, r) =>
            /\ gl[i].period = rcpt[r].service
            /\ \A j \in DOMAIN gl \ {i} : ~Recognises(j, r)

\* A closed month keeps its batches: none changes, none is added.
ClosedMonthsAreFrozen ==
    [][\A m \in Months : Closed(m) /\ Closed(m)' =>
         \A i \in DOMAIN gl' : gl'[i].period = m => i \in DOMAIN gl /\ gl[i] = gl'[i]]_vars

\* A month is closed only when every receipt whose service ends in it has
\* been accrued in it.
CloseCoversReceipts ==
    [][\A m \in Months : ~Closed(m) /\ Closed(m)' =>
         \A r \in ReceiptIds :
            Exists(r) /\ rcpt[r].service = m /\ Gross[r] > 0 =>
              \E i \in DOMAIN gl :
                 gl[i].ref = r /\ gl[i].kind = "accrual" /\ gl[i].period = m]_vars

\* The closing batch leaves no income or expense in a closed month.
ClosedIncomeIsZero ==
    \A m \in Months : Closed(m) =>
        \A a \in Nominal : BalanceOf(a, {i \in DOMAIN gl : gl[i].period = m}) = 0

\* A paid receipt's cash is in the books once the handlers are done.
PaidIsInCash ==
    Quiet => \A r \in ReceiptIds : rcpt[r].status = "paid" => CashOf(r) = Gross[r]

\* A month that is open is closed in the end, at the first attempt or later.
MonthsGetClosed == \A m \in Months : [](~Closed(m) => <>Closed(m))

-----------------------------------------------------------------------------
\* The handlers move receipts only as ReceiptLifecycle says.
Lifecycle == INSTANCE ReceiptLifecycle WITH
                status <- [r \in ReceiptIds |-> rcpt[r].status]
ImplementsLifecycle == Lifecycle!Spec
=============================================================================
