# A verification project for hpc_flask

hpc_flask bills the jobs of an HPC cluster: it reads Slurm accounting data,
prices finished jobs, cuts receipts, records payments, and posts a double-entry
general ledger with monthly periods.  Around the
billing there are an audit log chained by hashes, a forum and a help desk.  It
runs as one gunicorn worker in `docker-compose.yml`, as several workers and
threads where `docs/10-performance.md` is followed, possibly as several replicas
(`docs/02-architecture.md`), over one PostgreSQL database.  No state of the
billing part lives in a process: what can go wrong is how transactions of
different requests interleave, and what is left when a request dies between two
of its transactions.  That is what this project models.

Run everything from this directory: `tlc -config <run>.cfg <MC module>.tla` for
a run, `tlapm <module>_proofs.tla` for the proofs.

## 1. Inventory

| Component | Files | State | Operations | Talks to | Hard behaviour |
|---|---|---|---|---|---|
| Receipt store | `models/billing_store.py`, `models/schema.py` | `receipts`, `receipt_items`, `payments` | create from jobs, mark paid, revert, bulk void | handlers; the ledger (revert reverses a posting) | stale reads of billed jobs, row locks, a unique key as the only guard against double billing |
| Receipt handlers | `controllers/admin.py` | none | monthly run, own receipt, mark paid, revert, bulk revert, two ways to close, reopen, bootstrap | store, ledger, audit | several transactions per request, errors swallowed, crash in between |
| Posted ledger | `services/gl_posting.py`, `models/gl.py` | `accounting_periods`, `gl_batches`, `gl_entries` | accrual, issue, payment, reversal, provision, closing, reopening | reads receipts | check-then-insert, period locks read without a lock, keys that outlive a reopen |
| Formal export | `services/accounting_export.py` | `gl_export_runs`, `gl_export_run_batches`, `exported_at` | run an export | ledger | two runs at once, SKIP LOCKED, what is never exported |
| Derived journal | `services/accounting.py` | none (computed) | derive, trial balance | receipts | the tax in a total, split again |
| Audit chain | `models/audit_store.py` | `audit_log` (hash chain), signing keys | append, verify, list | every handler | appends that read the same last hash, ids drawn before the commit, key rotation |
| Login throttle | `models/security_throttle.py`, `controllers/auth.py` | `auth_throttle` | register failure, lock, reset | login | window and lock arithmetic, read-modify-write |
| Rates and tiers | `models/rates_store.py`, `models/tiers_store.py` | `rates`, `user_tier_overrides` | load, save, override | receipt creation | load-modify-save of a table |
| Forum | `controllers/forum.py` | threads, comments, solutions, votes | post, solve, vote, lock, pin, delete | users, audit | counts before inserts, unflushed deletes, updates of single columns |
| Tickets | `controllers/tickets.py` | tickets, comments | open, reply, assign, change status and priority | users, audit | two parties change one row |
| Costing | `services/billing.py` | none | hours and cost of a job | data sources, rates, overrides | what stands in for a figure that is missing |
| Data sources | `services/data_sources.py`, `services/slurm_rest.py` | none | fetch with fallbacks | Slurm | one source failing |
| The rest | `app.py`, `services/forecast.py`, `services/pricing_sim.py`, `services/copilot.py`, `controllers/user.py`, `controllers/api.py`, migrations, templates | none of its own | pages, statistics, wiring | all | none that a model checker reaches |

What makes the billing components correct:

- *Receipt store*: no job is billed twice; a receipt bills only its user's jobs
  of its own window; a receipt is paid exactly when one payment for it has
  succeeded; a paid receipt keeps its items; a void one stays void.
- *Handlers*: a receipt's life is pending, paid and back, or void for good,
  whatever requests overlap; one receipt per user and month.
- *Rates and receipts*: what was saved last is in force; a receipt is charged at
  a rate that was in force, shows one that was, adds up, and the books find its
  subtotal and tax again.
- *Audit*: what `verify_chain` accepts is what was written; what it refuses is a
  fork or a forgery, never the order of commits, a rollback or a new key.
- *Forum, tickets*: a deleted thread stays deleted and untouched; solutions are
  few, and of a solved thread; a ticket has a closing date exactly while it is
  closed; nobody loses sight of what he wrote.
- *Ledger*: every batch balances; cash comes in once and goes out once per
  receipt; a reversal takes back one batch and none twice; revenue is
  recognised once, in the month of the service; a closed month is accrued and
  frozen; a month can be closed.

`PROJECT.json` lists the hazards at their lines, with the property that covers
each or why none does yet.

## 2. Modules

| Module | Models | Kind |
|---|---|---|
| `JobBilling` | what the store promises, every operation atomic | abstract specification |
| `Receipts` | `billing_store.py` under concurrent database sessions | detailed, implements `JobBilling` |
| `Receipts_proofs` | theorems of `Receipts` | proofs |
| `Journal` | the lines each kind of batch posts | pure operators |
| `ReceiptLifecycle` | how a receipt may change status | abstract specification |
| `BillingGL` | the handlers of `admin.py` composed with `gl_posting.py` | detailed, implements `ReceiptLifecycle` |
| `SumTheorems` | sums over finite sets, which the ledger's amounts and the usage of a job are | lemmas |
| `BillingGL_proofs` | theorems of `BillingGL` | proofs |
| `BillingGLOneWorker_proofs` | theorems of `BillingGL` when requests are served one at a time | proofs |
| `Handover` | what the formal export promises | abstract specification |
| `GLExport` | `run_formal_gl_export` under concurrent runs | detailed, implements `Handover` |
| `GLExport_proofs` | theorems of `GLExport` | proofs |
| `AuditChain` | `audit` as the transaction it is, and `verify_chain` | detailed |
| `AuditChain_proofs` | theorems of `AuditChain` | proofs |
| `ReceiptMath` | usage, cost and tax of `billing.py` and `billing_store.py`, the split of `gl_posting.py` and `accounting.py` | pure operators |
| `Pricing` | `rates_store.py`, `tiers_store.py`, and the pricing of receipts | detailed, uses `ReceiptMath` |
| `Pricing_proofs` | theorems of `ReceiptMath` and `Pricing` | proofs |
| `Requests` | a request as `session_scope` and SQLAlchemy carry it out: statements at the end, only columns that changed | common part of the next two |
| `Forum` | the handlers of `forum.py` | detailed, on `Requests` |
| `Tickets` | the handlers of `tickets.py` | detailed, on `Requests` |
| `Support` | both, served by the same workers over one database | composition |
| `Support_proofs` | theorems of `Support`, `Forum` and `Tickets` | proofs |
| `MCReceipts`, `MCBillingGL`, `MCGLExport`, `MCAuditChain`, `MCPricing`, `MCSupport` | small instances for TLC | model checking |

### Receipts

A session (`sess[s]`) is a request with its open transaction.  `FetchMonth` and
`FetchSelf` are the reads of `create_month_invoices` and `create_self_receipt`:
jobs that have finished and are not in `billed_job_ids()`.  They are steps of
their own because the code does them in transactions of their own; by the time
`CreateReceipt` inserts, another session may have billed the same jobs.  The
insert of the receipt, its total and all its items is one transaction
(`session_scope`), so it is one step, and it does nothing at all if
`uq_receipt_items_job_key` refuses an item.  `CheckUser` is the loop over users
with its check for an existing receipt.

`mark_receipt_paid`, `revert_receipt_to_pending` and
`bulk_void_pending_invoices_for_month` are two steps each: `LockTo...` takes
the rows FOR UPDATE and decides on their status, `...Commit` writes and
releases them.  `Abandon` is a rollback at any point.  Jobs appear in the
accounting data in any order (`JobFinishes`, external).

Data left out: amounts and tax, dates within a window, user tiers, the payment
events (written and never read).  `void_receipt` has no caller and is not an
action.  Payments of a provider other than the administrator are read by the
code but never created by it.

`StartInMonth` says whether a month's receipt, read back from the database,
still starts in that month.  `create_receipt_from_rows` stores the start of the
local day in UTC, `create_month_invoices` compares the month of what it reads;
with the default zone, Asia/Bangkok, it is FALSE.

### BillingGL

A worker (`req[w]`) runs one handler.  Each posting function opens its own
transaction, and its idempotence rests on a read (is there a batch of this
kind?) that nothing locks, so a posting is `ReadForPosting`, which prepares
the batch from what it reads, and `Insert`, which commits it or, if
`uq_batch_source_ref_kind` refuses it, `InsertFails`.  The handlers swallow the
failure of issue, payment and reversal postings and go on; an accrual run or a
close ends with it.

- `CreateReceipt`, `MarkPaid`, `RevertPending`, `BulkVoid` commit the receipt,
  then post (`PostEach`).
- `RevertPaid` keeps the receipt's row locked (`held`) while the reversal runs
  in a transaction of its own, then `CommitRevert` commits and the handler asks
  for the reversal a second time, as the code does.
- `UiClose` accrues the receipts of a month, `CheckCoverage` compares receipts
  with accruals, then `close_period` runs: `ReadProvision` (the ECL provision,
  its own transaction) and `ReadForClosing`.  `CloseEndpoint` goes straight to
  `close_period`.
- `Reopen` prepares the reversal of the closing batch for the current month.
- `Crash` drops a worker's request and its locks at any step; `NextMonth`
  moves the clock (external).

A batch is a reference (a receipt, or the month of a closing or provision), a
kind, a month and its lines; lines are one signed amount per account, debit
positive.  Amounts are satang; VAT and net are constants of a receipt.  The
provision ages a receivable in months of 30 days from its due date, and rounds
half up to a satang.  The sign of every line, the absolute values of
`close_period` included, is the code's.

Simplifications that a reader should know: receipts are created on the last
day of a month; the service month of a receipt is at least the month before;
only an admin's own receipt may end in a later month (the cut-off day is a form
field), at most `Lead` months later; `bootstrap_periods` is one step; periods
opened by `_ensure_open_period` commit with the read that follows it.

### GLExport

A run (`tx[r]`) is one transaction.  `StartExport` takes the snapshot of its
`SELECT ... FOR UPDATE SKIP LOCKED`; `Visit` comes to one row after the other,
leaves it out if another run holds it, and asks again whether it is still
unmarked, as PostgreSQL does once it has the lock.  Two runs can therefore
share out the batches of a window between them.  `Commit` is the rest of the
function: file, links, marks and success in one step, since nobody sees them
earlier.  `Fail` is a rollback at any point.  A signed file is the set of its
batches (hash and signature are taken of nothing else); `Rebuilt` is what
`redownload_export_run` puts together from the links.  Which batches exist is
the business of `BillingGL`; here `Post` adds one at any time, of a kind that
is exported.  A noop run's number is used again in the model.

### AuditChain

`audit` opens a transaction of its own: `Read` takes the hash of the latest
committed row and builds the entry, `Insert` draws the id from the sequence,
`Commit` makes the row visible; `Abort` is the rollback of
`audit_session_scope`, which `audit` swallows, and leaves a gap in the ids.
Nothing is locked, so calls overlap freely.  `Restart` starts the application
with other settings (key id, secret, key ring).  `Edit` and `Remove` are a hand
with access to the table and to no secret: an entry's contents changed, its
hash made to fit or not, a row deleted.  `Verdict` is what `verify_chain`
returns, for any limit, with the reasons in the order of the code.

Cryptography is ideal: the hash of an entry is the list of payloads that went
into it, a signature the pair of secret and hash.  Of a payload the model keeps
what was reported (`event`, unique because of the request id and the time) and
the key id.  The user agent is hashed before it is stored unless
`AUDIT_STORE_RAW_UA=1`, and then the row cannot be verified, as a comment in the
source says; the model has the default.

`docs/16-glossary.md:246` promises "a contiguous HMAC chain".  Two overlapping
calls fork it: `VerdictBlamesForks` says that this, and nothing else that the
application does, makes an untouched log fail.

### ReceiptMath and Pricing

`ReceiptMath` has the sums of `compute_costs` over the steps of a job (each step
by its TotalCPU or its CPUTimeRAW), its fallbacks (measured by the steps, by the
job, else as allocated), the cost rounded to whole satang for each job, the two
ways of `create_receipt_from_rows` to compute tax, and the division by which the
ledger and the exports get the net amount back.  Money is in satang, times are
in seconds, memory is in GB; text is parsed outside.  The code computes costs in
binary fractions before it rounds them, so what is exactly half a satang there
may be a hair away from it; `HalfEven` is exact.

`Pricing` is the two tables around it.  `LoadRates`, `SaveRates`,
`CommitRates` are `admin_update` and the API's `update_formula`: the whole table
is loaded, changed in one tier and saved, and of the saving only columns that
differ from the rows it finds are written.  `LoadOverrides`, then `SaveNatural`
or `FindOverride` and `CommitOverride` are `save_tiers` for one name.
`BillTier`, `BillCosts`, `BillSnapshot`, `BillCommit` are a billing run with its
four transactions.  Loading fills in missing rates (`Seeded`).  The history
variables `asked`, `raced` and the field `seen` of a request say what was saved
last, whether two savings overlapped, and which rates were in force while a
receipt was made.

The two rates of a receipt may differ: costs are computed at one read and the
snapshot is taken at a later one, although `docs/03-data-model.md:251` says that
all costs are at the locked snapshot rate.  `PricedAtRatesInForce` says what
remains true.  `BooksMatchReceipt` asks for an odd tax rate: where 100 + rate is
even the division can end in a half satang, and the code rounds binary
fractions, which may go either way.

### Requests, Forum, Tickets, Support

The session factory turns autoflush off, so a handler's reads see the database
as it is, its assignments become statements when the handler returns, and an
UPDATE names the columns that changed.  `Requests` is that: `Serve` is a handler
up to its last line (its reads are one step), holding the statements it will
send; `Commit` sends them all, unless one does not fit (a key that exists, a row
to update that is gone); `Rollback` sends none.  `raced` keeps the threads,
tickets and votes on which requests have overlapped, `removed` who has deleted
which thread or comment (`ServeRemoval` is `Serve` of such a request; the pair
is kept when it commits).  What a commit makes of the
tables is `Applied`, a function of the tables and the statements.  A handler
that a guard refuses changes nothing and is no step.  Each action of `Forum` and
`Tickets` is one handler, named after it; what `view_ticket` shows is `Seen`.
Texts, dates, replies' parents and the listings are left out; the audit entries
the handlers write are those of `AuditChain`.  `Support` puts the two together
over tables that start empty; the theorems are about it.  `MCSupport` starts
later, with a thread and its comments or with a ticket.

Two things the code does that a reader may not expect: `unmark_solution` counts
the solutions left before its own DELETE is sent, so a thread whose last
solution is taken back stays solved (the comment at `controllers/forum.py:595`
intends the opposite); and nothing but the lock that `thread_delete` leaves
keeps comments off a deleted thread.

A third is what is left of the label of a deletion when two overlap.  The author
reads a thread, an administrator deletes it, then the author's request commits:
it writes its own name and date, and since it found `deleted_by_admin` false and
leaves it false, its UPDATE does not name that column.  The page then says
"removed by an admin" beside the name of the author.  `DeletionLabel` therefore asks of
every deleted thread and comment, overlap or not, that the name and the label
are each of someone whose deletion was carried out, and that they are of the
same one where requests have not overlapped.

## 3. Runs

| Run | Instance | What it shows |
|---|---|---|
| `receipts` | 3 jobs, 2 users, 1 month and one cut-off day inside it, 3 receipts, 2 payments, 2 sessions; 213 806 states | `TypeOK`, `JobBilledOnce`, `ReceiptHoldsItsJobs`, `PaidHasOneSucceededPayment`, `LocksProtectReads`, `SettledReceiptsKeepTheirItems`, and the refinement `ImplementsJobBilling` |
| `gl_two_workers` | 1 receipt, 2 workers, 1 month, every handler, crashes; 1 255 164 states | `TypeOK`, `BooksBalance`, `CashMovesOnce`, `ReversalsUndoOneBatch`, and the refinement `ImplementsLifecycle` |
| `gl_one_worker` | 1 receipt, 1 worker, 2 months, `Lead` 1, all handlers but reopening and the unchecked close, crashes; 257 054 states | `NoCashWithoutPayment`, `RevenueRecognisedOnce`, `ClosedMonthsAreFrozen`, `CloseCoversReceipts` |
| `gl_live` | 1 receipt, 1 worker, 2 months, fair, no crash, no reopening; 7 024 states | `MonthsGetClosed` |
| `gl_export` | 3 batches, 2 overlapping windows, 3 runs, fair; 42 473 states | `TypeOK`, `RecordsAgree`, `PickedIsFree`, `EveryBatchHandedOver`, and the refinement `ImplementsHandover` |
| `audit_chain` | 2 writers, 3 entries, 4 ids, 4 settings with 2 keys, 1 change by hand; 67 776 states | `TypeOK`, `VerdictIsSound`, `VerdictBlamesForks`, `SerialCallsChain`, `LinksPointBack`, `RotationKeepsVerdict` |
| `pricing` | 2 workers, 4 requests, 2 tiers, 2 rates to ask for, 1 user whose name is written in 2 ways, 2 jobs, 3 taxes; 603 339 states | `TypeOK`, `SettingsAreAsSaved`, `PricedAtRatesInForce`, `BooksMatchReceipt` |
| `support` | a thread with 3 comments or a ticket, an author and an administrator, 2 workers, 4 requests, 2 solutions at most; 387 551 states | `TypeOK`, `SolutionsBounded`, `SolutionMeansSolved`, `DeletionLabel`, `DeletionIsFinal`, `DeletedThreadsAreFrozen`, `ClosedAtMatchesStatus`, `AuthorsSeeTheirNotes` |

The bounds are the smallest at which the interesting cases happen.  Two
sessions are enough for every stale read (one reads, the other writes); three
receipts allow a job to be billed, voided and billed again while a second
receipt competes for it; two payments allow pay, revert, pay.  In the ledger a
posting, a close and a reopening of the same receipt and month already
collide; months matter for accrual before issue and for reversals in a later
month, which need two.  The theorems below say that what they state does not
depend on the bounds.  Every run of the export that succeeds takes a batch, so
as many runs as batches are all there can be; three show a run that skips two
others.  In `audit_chain` two writers fork, three entries let a third continue
either branch, and four ids leave room for one gap.  In `pricing` four requests
are a saving, a billing run that it overlaps, and another of each; in `support`
they are, for instance, two marks that overlap after a first one, or a deletion
between the reading and the writing of another request.  The limit of three
solutions is a constant, two here.  Forum and tickets share no row, so a
behaviour of `support` is about one of them; it starts with a thread that has
comments, since four requests would be spent on making one.

Deadlock is checked in every run but `gl_export`, where the model stops when
every batch has been handed over and every number used, and the three last ones,
which stop when the ids or the requests they may serve are used up.

`gl_live` assumes `FairSpec`: weak fairness of a worker's steps (a request that
was started runs on: nothing in the code waits but for a row lock that its
holder releases) and strong fairness of `UiClose` (the administrator keeps
closing; strong, because the only worker is busy again and again).  In
`gl_export` runs that were started run on, exports of every window are asked
for again and again, and failures end some day: while every run fails, nothing
can be handed over.

### Runs that refute something the repository says

| Run | Property | Shows |
|---|---|---|
| `receipts_bangkok` | `OneInvoicePerUserMonth` | One administrator runs the month twice, a job having turned up in between; the second run does not recognise the first receipt (`controllers/admin.py:1570`) and cuts another. |
| `gl_pay_again` | `PaidIsInCash` | Pay, revert, pay: `post_receipt_paid` finds the first payment batch and posts nothing (`services/gl_posting.py:400`); the reversal stands, and the paid receipt is in A/R for good. |
| `gl_reclose` | `MonthsGetClosed` | Close, reopen, close: the second closing batch has the key of the first (`services/gl_posting.py:559`), so the month stays open for ever, however often it is tried. |
| `gl_closing_sign` | `ClosedIncomeIsZero` | The provision of month 2 is smaller than that of month 1, so its expense balance is a credit; `close_period` takes its absolute value (`services/gl_posting.py:579`) and doubles it. |

Several properties of the last three runs except what `raced` or `overlapped`
records: the lost update is real there (the same hazards, at their lines, in
`PROJECT.json`), and the property says how far it reaches.  Two savings of the
rates may undo each other, two changes of a ticket may leave a closing date on
an open one, an unlock that read the thread before its deletion opens it to
comments.  Solutions beyond the limit are bounded even then, and
`DeletionLabel` says of overlapping deletions what stays true of name and label.

Four of the properties that hold in `gl_one_worker` hold only there, and the
hazards list says so at the lines: `ClosedMonthsAreFrozen` fails with a second
worker (period read, then closed, then posted to) and with reopening (the
reversal goes into the current month, open or not); `CloseCoversReceipts`
fails for `close_period_endpoint`; `RevenueRecognisedOnce` fails with a second
worker (accrual and issue each read before the other inserts) and for an own
receipt whose window ends in a later month than it is created in;
`NoCashWithoutPayment` fails when a month is closed, for then
`reverse_receipt_postings` posts nothing and the revert goes through.
`MonthsGetClosed` fails with crashes: a close that dies after its provision can
find its own provision in the way (`services/gl_posting.py:814`).

## 4. Proofs

TLAPS checks, for every value of the constants that satisfies the assumptions
named in the modules:

| Theorem | States |
|---|---|
| `Receipts_proofs!TypeCorrect` | `TypeOK` |
| `Receipts_proofs!JobsBilledOnce` | `JobBilledOnce` |
| `Receipts_proofs!OnePayment` | `PaidHasOneSucceededPayment` |
| `Receipts_proofs!HoldsItsJobs` | `ReceiptHoldsItsJobs` |
| `Receipts_proofs!LocksHold` | `LocksProtectReads` |
| `Receipts_proofs!SettledKeepItems` | `SettledReceiptsKeepTheirItems` |
| `Receipts_proofs!Refinement` | `ImplementsJobBilling` |
| `BillingGL_proofs!TypeCorrect` | `TypeOK` |
| `BillingGL_proofs!BooksBalanced` | `BooksBalance` |
| `BillingGL_proofs!TrialBalanceAgrees` | the trial balance of any posted batches adds up to zero |
| `BillingGL_proofs!CashOnce` | `CashMovesOnce` |
| `BillingGL_proofs!OneReversal` | `ReversalsUndoOneBatch` |
| `BillingGL_proofs!LifecycleHolds` | `ImplementsLifecycle` |
| `BillingGLOneWorker_proofs!ClosedMonthsFrozen` | `ClosedMonthsAreFrozen`, one request at a time, no `Reopen` |
| `BillingGLOneWorker_proofs!ClosesCoverReceipts` | `CloseCoversReceipts`, one request at a time, no `CloseEndpoint` |
| `BillingGLOneWorker_proofs!RevenueOnlyOnce` | `RevenueRecognisedOnce`, one request at a time |
| `BillingGLOneWorker_proofs!UnpaidHasNoCash` | `NoCashWithoutPayment`, one request at a time, no `Reopen` |
| `GLExport_proofs!TypeCorrect` | `TypeOK` |
| `GLExport_proofs!HandedOverOnce` | `RecordsAgree` |
| `GLExport_proofs!PickedStaysFree` | `PickedIsFree` |
| `GLExport_proofs!HandoverHolds` | `ImplementsHandover` |
| `AuditChain_proofs!TypeCorrect` | `TypeOK` |
| `AuditChain_proofs!LinksHold` | `LinksPointBack` |
| `AuditChain_proofs!ForksAreBlamed` | `VerdictBlamesForks` |
| `AuditChain_proofs!SerialHolds` | `SerialCallsChain` |
| `AuditChain_proofs!SoundVerdict` | `VerdictIsSound` |
| `AuditChain_proofs!RotationHolds` | `RotationKeepsVerdict` |
| `Pricing_proofs!TypeCorrect` | `TypeOK` |
| `Pricing_proofs!SettingsHold` | `SettingsAreAsSaved` |
| `Pricing_proofs!PricesHold` | `PricedAtRatesInForce` |
| `Pricing_proofs!BooksAgree` | `BooksMatchReceipt` |
| `Support_proofs!TypeCorrect` | `TypeOK` |
| `Support_proofs!SolutionsStayBounded` | `SolutionsBounded` |
| `Support_proofs!SolvedIsShown` | `SolutionMeansSolved` |
| `Support_proofs!LabelsAreTrue` | `DeletionLabel` |
| `Support_proofs!DeletedForGood` | `DeletionIsFinal` |
| `Support_proofs!DeletedStayFrozen` | `DeletedThreadsAreFrozen` |
| `Support_proofs!ClosingDates` | `ClosedAtMatchesStatus` |
| `Support_proofs!NotesAreSeen` | `AuthorsSeeTheirNotes` |

*Receipts.*  The inductive invariant `IInv` is the conjunction of the checked
invariants with `SessionsHold`, what a session carries between its steps: the
jobs it read belong to its window and to its user, a row it holds has been
created, the rows it will write are among those it holds.  The parts need each
other: that a payment is the only one for its receipt rests on the receipt still
being pending when the session writes, which is `LocksProtectReads`; that a live
receipt holds only its user's jobs rests on what the session carried.  That no
job is billed twice rests on the unique key alone and not on the stale read of
the billed jobs, and the proof shows so.  The refinement maps a job to the
receipt that holds an item for it, and every step of a session to one step of
`JobBilling` or a stutter.

*BillingGL.*  `LedgerInv` says that the ledger holds one batch per key
(`PostedOnce`), that each batch has the lines of its kind and each reversal
undoes an earlier batch (`Accounted`), and that the batch a worker is about to
insert would do so too (`Prepared`).  The last part is what makes it inductive: a
prepared batch stays justified because batches are never removed, and the
unique key is checked at the insert.  `CashMovesOnce` and
`ReversalsUndoOneBatch` follow from it.  `LifecycleHolds` rests on a second
invariant, `Locking`: rows held across a reversal are held by one worker and
are still paid.

The amounts of a provision and of a closing batch are sums over the ledger:
`SumFunctionOnSet`, which adds in the order in which `CHOOSE` takes the members.
`SumTheorems` shows, by a least counterexample in cardinality, that this
recursion has a solution, that a sum of integers is one, and that the order does
not matter.  `BooksInv` adds to `LedgerInv` and `Locking` that every batch,
posted or prepared, has integer amounts that add up to zero, and `Dated`:
receipts, and payments of them, have their months.  It gives `TypeOK` and
`BooksBalance`; that every trial balance agrees follows by exchanging the two
sums.  All that is assumed of the receipts is that there are finitely many
(`ReceiptAssumption`).

*One request at a time.*  The four theorems of `BillingGLOneWorker_proofs`
assume `OneAtATime`, two of them that months are not reopened and one that they
are closed by the form only.  They are the properties of `gl_one_worker`, and
TLC refutes each of them when its hypothesis is dropped, so they say exactly
how far these promises of the code reach.  One lemma, the list of what a step of the
only worker does (`Reads`, `Inserts`, `Closes` and so on), serves all of them; each has
an invariant of its own.  `OpenInv`: the month of a batch about to be inserted
is open (the read of `is_period_closed` is still true at the insert).
`CoverInv`: between the check of coverage and the closing nothing becomes
uncovered.  `RevenueInv`: no two batches, one of them perhaps about to be
inserted, both recognise the revenue of a receipt.  `CashInv`: an unpaid receipt has no
payment batch that a reversal has not undone, or the worker is about to post
that reversal.

*GLExport.*  The invariant joins `PickedIsFree` (the lock and the second look
at the row) with `RecordsAgree`: a run that commits has signed nothing yet, so
its links and marks are exactly what it picked, and no other run loses a mark,
because what it picked was unmarked.

*AuditChain.*  `ChainInv` has four parts: the types; `WellSigned`, every
signature in the table was made by `audit` for an entry it wrote; `Untouched`,
while nobody edits, the rows are those entries and each continues one with a
lower id; `OneByOne`, while calls do not overlap, each continues the row right
before it.  From these it is one argument about `verify_chain`: a row it accepts
carries a signature of its recomputed hash, so it is an entry `audit` wrote.
That the hash lists what all rows before it say is an induction over the rows.
Since the library's induction theorems take an operator, it is done by the least
row for which the claim fails (`LeastMember`, from the well-foundedness of the
naturals).  In `ForksAreBlamed` the same device finds, from a row that does not
continue the one before it, two rows that continue the same one.

*Pricing.*  That a cost is a natural number rests on `SumTheorems`.  The
rounding lemmas come first: `HalfUp(a, b)` is the only integer
within half of `a / b`, so a total divides back into its subtotal when tax was
added, for every rate, and when it was included, for odd ones.  `PricingInv`
adds to the types that rates which a request has loaded are all there, and that
what a billing run has read, and what it would read next, is among the rates it
has seen.  `SettingsInv` adds the two forms: while savings do not overlap at
most one request is saving, the table it loaded is the one in force but for the
tier it changes, and the columns it will write are those that differ.

*Forum and tickets.*  What a request will send was decided on the tables as they
were when its handler read them.  Two kinds of facts survive until it commits.
`WellFormed` holds of every request: its statements touch rows of its subject
only, they set columns to values of their types, and none of them clears
`deleted`, moves a comment to another thread or changes an author, whatever was
read.  From it follow the types with all references between rows,
`DeletionIsFinal` and `AuthorsSeeTheirNotes`, for requests that overlap in any
way.  `Settled` holds of a request that nothing overlaps: the tables it will
make are `Good` (solved, labels and closing dates as they should be) and keep
what is `Frozen`; it stays true while others commit, because they touch
other subjects.  `Counted` bounds the solutions a thread has and those about to
be added together, and gives `SolutionsBounded` with and without overlaps.
`Labelled` is the inductive invariant behind `DeletionLabel` where requests
overlap.  Of a row it says that its name is of someone who deleted it and that
its label is true of such a user, or that it was never deleted and has none
(`RowSigned`); of a request, that only a deletion sends name or label, its own
ones, and that what it does not send it has found in the row (`Signs`).  What it
found may be gone when it commits, but then someone else has deleted the row,
and the label is his.

Only model-checked: the two liveness properties, `MonthsGetClosed` and
`EveryBatchHandedOver`, which the prover cannot reach.  Every other property
that a passing run checks is a theorem.

## 5. Plan

Done: the receipt store, its handlers, the posted ledger, its formal export, the
audit log, rates, tiers and the arithmetic of receipts, the forum and the help
desk (sections 2 and 3), and proofs of all their safety properties (section 4).

Next, in this order:

1. The derived journal of `accounting.py` against the posted one: for a month
   whose receipts have all been posted, do the two agree, account by account?
2. The fallback order of `data_sources.py`, as it decides which jobs a billing
   run sees.
3. Safety facts under the liveness properties: that a worker under way always
   has a step to take, and a bound on the steps a request may still take.

## 6. Not modelled

- *Login throttle.*  `_parse_iso` (`models/security_throttle.py:12`) is written
  for text and gets the `datetime` the column holds, so it always gives no time:
  every failure starts a window of its own and, with the default of five, no
  lock is ever set.  What the code promises does not come about in any order of
  attempts, and no interleaving adds to that.
- *Derived journal.*  A read-only report over the receipts; of it only the
  division of totals is modelled (`ReceiptMath!VatOf`), and its chart of
  accounts (`Journal`).
- *Data sources, REST client, copilot, pages, application shell*: input and
  output; the fallbacks between sources change no state.
- *Users and login, forecast, pricing simulation*: no interleaving that reaches
  further than one row, and statistics on data frames.
- *Migrations and the SQLite import*: they run once, outside the service.
- An audit entry and the transaction it reports are two transactions, and
  nothing in the data relates them; so a business transaction that rolls back
  after its entry was written is not visible to any property.
