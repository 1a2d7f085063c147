---------------------- MODULE BillingGLOneWorker_proofs ----------------------
(***************************************************************************)
(* Theorems about module BillingGL when requests are served one at a time: *)
(* any number of receipts, amounts and months, crashes at any point, the   *)
(* month changing at any point.  With two workers TLC finds each of these  *)
(* properties violated, so the hypothesis is needed: every one of them     *)
(* relies on nothing happening between a handler's reads and its insert.   *)
(***************************************************************************)
EXTENDS BillingGL_proofs

OneAtATime == \A v, w \in Workers : v = w

Unchanged == rcpt' = rcpt /\ gl' = gl /\ \A m \in Months : Closed(m)' <=> Closed(m)

\* What a step of worker w under way does: the request x it goes on with, and
\* the tables.  x differs from req[w] in the fields the code assigns.
Keeps(w, x) == x.after = req[w].after /\ x.month = req[w].month /\ x.held = req[w].held
At(x, at, job, R, b) == x.at = at /\ x.job = job /\ x.todo = R /\ x.batch = b

Covered(m) == \A r \in ReceiptIds : Exists(r) /\ rcpt[r].service = m /\ Gross[r] > 0 =>
                 \E i \in DOMAIN gl : gl[i].ref = r /\ gl[i].kind = "accrual" /\ gl[i].period = m

Ends(x) == x = Idle /\ Unchanged
Commits(w, x) == CommitRevert(w) /\ x = PostEach("undoPayment", req[w].held, "idle")
Covers(w, x) == x = ToClose(req[w].month) /\ Covered(req[w].month) /\ Unchanged
Reads(w, x) == \E r \in req[w].todo :
    /\ req[w].at = "post" /\ r \in ReceiptIds /\ Keeps(w, x)
    /\ x.job = req[w].job /\ x.todo = req[w].todo \ {r} /\ x.batch = Prepare(req[w].job, r)
    /\ x.at = IF x.batch = NoBatch THEN "post" ELSE "insert"
    /\ Unchanged
GoesBack(w, x) == /\ req[w].at = "post" /\ req[w].todo = {} /\ Keeps(w, x)
                  /\ At(x, req[w].after, "none", {}, req[w].batch)
                  /\ Unchanged
Provides(w, x) ==
    /\ req[w].at = "ecl" /\ Keeps(w, x) /\ x.job = "provision"
    /\ \/ x.at = "close" /\ x.batch = NoBatch
       \/ /\ x.at = "insert" /\ x.batch.kind = "impairment"
          /\ x.batch.period = req[w].month /\ ~Closed(req[w].month)
    /\ Unchanged
Closes(w, x) ==
    /\ req[w].at = "close" /\ Keeps(w, x) /\ x.job = "closing" /\ x.at = "insert"
    /\ \/ x.batch = NoBatch
       \/ x.batch.kind = "closing" /\ x.batch.period = req[w].month
    /\ ~Closed(req[w].month)
    /\ Unchanged
Inserts(w, x) ==
    /\ req[w].at = "insert" /\ rcpt' = rcpt
    /\ gl' = IF req[w].batch = NoBatch THEN gl ELSE Append(gl, req[w].batch)
    /\ \A m \in Months : Closed(m)' /\ ~Closed(m) => req[w].job = "closing" /\ m = req[w].month
    /\ req[w].job # "reopening" => \A m \in Months : Closed(m) => Closed(m)'
    /\ \/ x = Idle
       \/ /\ req[w].job = "provision" /\ Keeps(w, x)
          /\ At(x, "close", req[w].job, req[w].todo, NoBatch)
       \/ /\ req[w].job \in PostingJobs /\ Keeps(w, x)
          /\ At(x, "post", req[w].job, req[w].todo, NoBatch)
Swallows(w, x) ==
    /\ req[w].at = "insert" /\ Posted(req[w].batch.ref, req[w].batch.kind)
    /\ req[w].job \in PostingJobs /\ Keeps(w, x)
    /\ At(x, "post", req[w].job, req[w].todo, NoBatch)
    /\ Unchanged

Does(w, x) == \/ Ends(x) \/ Commits(w, x) \/ Covers(w, x) \/ Reads(w, x) \/ GoesBack(w, x)
              \/ Provides(w, x) \/ Closes(w, x) \/ Inserts(w, x) \/ Swallows(w, x)

LEMMA StepDoes ==
    ASSUME BooksInv, NEW w \in Workers, Step(w) \/ Crash(w)
    PROVE  \E x : Go(w, x) /\ Does(w, x)
<1>1. /\ req[w] \in RequestOver({req[w].batch}) /\ req[w].todo \subseteq ReceiptIds
      /\ Consistent(req[w]) /\ period \in [Months -> {"none", "open", "closed"}]
  BY RequestFields DEF BooksInv, LedgerInv, Shape
<1>2. UNCHANGED <<period, rcpt, gl>> => Unchanged
  BY DEF Unchanged, Closed
<1>3. CASE Crash(w)
  BY <1>2, <1>3 DEF Crash, Does, Ends
<1>4. CASE CommitRevert(w)
  BY <1>4 DEF CommitRevert, Does, Commits
<1>5. CASE CheckCoverage(w)
  BY <1>2, <1>5 DEF CheckCoverage, Does, Ends, Covers, Covered
<1>6. ASSUME NEW r \in ReceiptIds, ReadForPosting(w, r) PROVE \E x : Go(w, x) /\ Does(w, x)
  <2> DEFINE b == Prepare(req[w].job, r)
             at == IF b = NoBatch THEN "post" ELSE "insert"
             x == [req[w] EXCEPT !.at = at, !.batch = b, !.todo = @ \ {r}]
  <2>1. \A m \in Months : Closed(m)' <=> Closed(m)
    BY <1>1, <1>6 DEF ReadForPosting, EnsurePeriod, Closed
  <2>2. rcpt' = rcpt /\ gl' = gl /\ req[w].at = "post" /\ r \in req[w].todo /\ Go(w, x)
    BY <1>6 DEF ReadForPosting
  <2> HIDE DEF b
  <2> DEFINE y == [req[w] EXCEPT !.at = at, !.batch = b, !.todo = req[w].todo \ {r}]
  <2>3. /\ y.job = req[w].job /\ y.todo = req[w].todo \ {r} /\ y.batch = b /\ y.at = at
        /\ Keeps(w, y)
    BY <1>1 DEF RequestOver, Keeps
  <2>4. Reads(w, y)
    <3> HIDE DEF y
    <3> QED BY <2>1, <2>2, <2>3 DEF Reads, Unchanged, b
  <2>5. Go(w, y)
    BY <2>2
  <2> HIDE DEF y
  <2> QED BY <2>4, <2>5 DEF Does
<1>7. CASE DonePosting(w)
  <2> DEFINE x == [req[w] EXCEPT !.at = req[w].after, !.job = "none"]
  <2>1. (Go(w, Idle) \/ Go(w, x)) /\ Unchanged /\ req[w].at = "post" /\ req[w].todo = {}
    BY <1>2, <1>7 DEF DonePosting
  <2>2. At(x, req[w].after, "none", req[w].todo, req[w].batch) /\ Keeps(w, x)
    BY <1>1 DEF RequestOver, At, Keeps
  <2> HIDE DEF x
  <2> QED BY <2>1, <2>2 DEF Does, Ends, GoesBack
<1>8. CASE ReadProvision(w)
  <2> DEFINE m == req[w].month
             dAr == Delta("ar", "alwAr", m)
             dCa == Delta("ca", "alwCa", m)
             b == IF (dAr = 0 /\ dCa = 0) \/ Closed(m) THEN NoBatch
                  ELSE Batch(m, "impairment", m, ImpairmentLines(dAr, dCa))
             at == IF b = NoBatch THEN "close" ELSE "insert"
             x == [req[w] EXCEPT !.at = at, !.job = "provision", !.batch = b]
  <2>1. Unchanged /\ req[w].at = "ecl" /\ Go(w, x)
    BY <1>2, <1>8 DEF ReadProvision
  <2>2. \/ b = NoBatch
        \/ b.kind = "impairment" /\ b.period = m /\ ~Closed(m)
    BY DEF Batch
  <2> HIDE DEF b
  <2>3. x.job = "provision" /\ x.batch = b /\ x.at = at /\ Keeps(w, x)
    BY <1>1 DEF RequestOver, Keeps
  <2> HIDE DEF x
  <2> QED BY <2>1, <2>2, <2>3 DEF Does, Provides
<1>9. CASE ReadForClosing(w)
  <2> DEFINE m == req[w].month
             I == {i \in DOMAIN gl : gl[i].period = m /\ gl[i].kind # "closing"}
             b == IF I = {} THEN NoBatch
                  ELSE Batch(m, "closing", m, ClosingLines([a \in Accounts |-> BalanceOf(a, I)]))
             x == [req[w] EXCEPT !.at = "insert", !.job = "closing", !.saw = period[m], !.batch = b]
  <2>1. /\ Unchanged /\ req[w].at = "close"
        /\ Go(w, Idle) \/ (Go(w, x) /\ ~Closed(m))
    BY <1>2, <1>9 DEF ReadForClosing
  <2>2. b = NoBatch \/ (b.kind = "closing" /\ b.period = m)
    BY DEF Batch
  <2> HIDE DEF b
  <2>3. x.job = "closing" /\ x.batch = b /\ x.at = "insert" /\ Keeps(w, x)
    BY <1>1 DEF RequestOver, Keeps
  <2> HIDE DEF x
  <2> QED BY <2>1, <2>2, <2>3 DEF Does, Ends, Closes
<1>10. CASE Insert(w)
  <2> DEFINE toClose == [req[w] EXCEPT !.at = "close", !.batch = NoBatch]
             toPost == [req[w] EXCEPT !.at = "post", !.batch = NoBatch]
  <2>1. /\ At(toClose, "close", req[w].job, req[w].todo, NoBatch) /\ Keeps(w, toClose)
        /\ At(toPost, "post", req[w].job, req[w].todo, NoBatch) /\ Keeps(w, toPost)
    BY <1>1 DEF RequestOver, At, Keeps
  <2>2. /\ req[w].at = "insert" /\ rcpt' = rcpt
        /\ gl' = IF req[w].batch = NoBatch THEN gl ELSE Append(gl, req[w].batch)
        /\ \/ req[w].job \in {"closing", "reopening"} /\ Go(w, Idle)
           \/ req[w].job = "provision" /\ Go(w, toClose)
           \/ req[w].job \notin {"closing", "reopening", "provision"} /\ Go(w, toPost)
    BY <1>10 DEF Insert
  <2>3. /\ \A m \in Months : Closed(m)' /\ ~Closed(m) => req[w].job = "closing" /\ m = req[w].month
        /\ req[w].job # "reopening" => \A m \in Months : Closed(m) => Closed(m)'
    BY <1>1, <1>10 DEF Insert, Closed
  <2>4. req[w].job \in Jobs /\ req[w].job # "none"
    BY <1>1, <2>2 DEF RequestOver, Consistent
  <2> HIDE DEF toClose, toPost
  <2>5. CASE req[w].job \in {"closing", "reopening"}
    BY <2>2, <2>3, <2>5 DEF Does, Inserts
  <2>6. CASE req[w].job = "provision"
    BY <2>1, <2>2, <2>3, <2>6 DEF Does, Inserts
  <2>7. CASE req[w].job \notin {"closing", "reopening", "provision"}
    <3>1. req[w].job \in PostingJobs
      BY <2>4, <2>7 DEF Jobs, PostingJobs
    <3>2. Inserts(w, toPost)
      BY <2>1, <2>2, <2>3, <3>1 DEF Inserts
    <3> QED BY <2>2, <2>7, <3>2 DEF Does
  <2> QED BY <2>5, <2>6, <2>7
<1>11. CASE InsertFails(w)
  <2> DEFINE toPost == [req[w] EXCEPT !.at = "post", !.batch = NoBatch]
  <2>1. At(toPost, "post", req[w].job, req[w].todo, NoBatch) /\ Keeps(w, toPost)
    BY <1>1 DEF RequestOver, At, Keeps
  <2>2. /\ req[w].at = "insert" /\ Unchanged
        /\ ~(KeyFree(req[w].batch) /\ RowFree(w))
        /\ \/ req[w].job \in {"issue", "payment", "undoIssue", "undoPayment"} /\ Go(w, toPost)
           \/ Go(w, Idle)
    BY <1>2, <1>11 DEF InsertFails
  <2> HIDE DEF toPost
  <2>3. CASE req[w].job \in {"issue", "payment", "undoIssue", "undoPayment"} /\ Go(w, toPost)
    <3>1. RowFree(w) /\ req[w].job \in PostingJobs
      BY <2>3 DEF RowFree, PostingJobs
    <3>2. Swallows(w, toPost)
      BY <2>1, <2>2, <3>1 DEF Swallows, KeyFree
    <3> QED BY <2>3, <3>2 DEF Does
  <2>4. CASE Go(w, Idle)
    BY <2>2, <2>4 DEF Does, Ends
  <2> QED BY <2>2, <2>3, <2>4
<1> QED BY <1>3, <1>4, <1>5, <1>6, <1>7, <1>8, <1>9, <1>10, <1>11 DEF Step
-----------------------------------------------------------------------------
\* The only worker's next request.
LEMMA TheOnly ==
    ASSUME BooksInv, OneAtATime, NEW w \in Workers, NEW x, Go(w, x)
    PROVE  \A v \in Workers : req'[v] = x
BY DEF Go, OneAtATime, BooksInv, LedgerInv, Shape

\* What is in flight.
InFlight(w) == req[w].at = "insert" /\ req[w].batch # NoBatch

\* Appending to the ledger.
LEMMA Appended ==
    ASSUME BooksInv, NEW b, gl' = IF b = NoBatch THEN gl ELSE Append(gl, b)
    PROVE  /\ \A i \in DOMAIN gl : i \in DOMAIN gl' /\ gl'[i] = gl[i]
           /\ \A i \in DOMAIN gl' : i \notin DOMAIN gl => gl'[i] = b /\ b # NoBatch /\ i = Len(gl) + 1
           /\ b # NoBatch => \E i \in DOMAIN gl' : gl'[i] = b
<1>1. PICK B : gl \in Seq(B)
  BY DEF BooksInv, LedgerInv, Shape
<1>2. gl \in Seq(B \cup {b}) /\ b \in B \cup {b}
  BY <1>1, OverLarger
<1>3. CASE b = NoBatch
  BY <1>3
<1>4. CASE b # NoBatch
  <2>1. gl' = Append(gl, b)
    BY <1>4
  <2>2. /\ Len(gl) \in Nat /\ DOMAIN gl = 1 .. Len(gl) /\ DOMAIN gl' = 1 .. (Len(gl) + 1)
        /\ \A i \in DOMAIN gl : gl'[i] = gl[i]
        /\ gl'[Len(gl) + 1] = b
    BY <1>2, <2>1
  <2> QED BY <1>4, <2>2
<1> QED BY <1>3, <1>4

-----------------------------------------------------------------------------
\* A closed month keeps its batches.  Each posting asks is_period_closed and
\* inserts in another transaction; what it then inserts goes into a month that
\* is still open.  Reopening is left out: it posts into the current month,
\* closed or not, and TLC then finds a batch in a closed month.
StillOpen == /\ \A w \in Workers : req[w].job # "reopening"
             /\ \A w \in Workers : InFlight(w) => ~Closed(req[w].batch.period)
OpenInv == BooksInv /\ StillOpen

\* A handler begins with postings or a close, unless it reopens a month.
Starts(x) == /\ x.batch = NoBatch
             /\ \/ x.at = "post" /\ x.job \in PostingJobs
                \/ x.at = "ecl" /\ x.job = "none" /\ "close" \in Ops

LEMMA BeginStarts ==
    ASSUME NEW w, Begin(w), ~Bootstrap(w), ~ \E m \in Months : Reopen(w, m)
    PROVE  \E x : Go(w, x) /\ Starts(x)
<1>1. ASSUME NEW job \in PostingJobs, NEW R, NEW after PROVE Starts(PostEach(job, R, after))
  BY DEF Starts, PostEach, Task
<1>2. /\ "issue" \in PostingJobs /\ "payment" \in PostingJobs /\ "undoPayment" \in PostingJobs
      /\ "undoIssue" \in PostingJobs
  BY DEF PostingJobs
<1>3. ASSUME NEW r \in ReceiptIds, NEW m \in Months, NEW monthly, CreateReceipt(w, r, m, monthly)
      PROVE  \E x : Go(w, x) /\ Starts(x)
  BY <1>1, <1>2, <1>3 DEF CreateReceipt
<1>4. ASSUME NEW r \in ReceiptIds, MarkPaid(w, r) \/ RevertPending(w, r)
      PROVE  \E x : Go(w, x) /\ Starts(x)
  BY <1>1, <1>2, <1>4 DEF MarkPaid, RevertPending
<1>5. ASSUME NEW r \in ReceiptIds, RevertPaid(w, r) PROVE \E x : Go(w, x) /\ Starts(x)
  <2>1. Starts([PostEach("undoPayment", {r}, "revert") EXCEPT !.held = {r}])
    BY DEF Starts, PostEach, Task, PostingJobs
  <2> QED BY <1>5, <2>1 DEF RevertPaid
<1>6. ASSUME NEW m \in Months, BulkVoid(w, m) PROVE \E x : Go(w, x) /\ Starts(x)
  BY <1>1, <1>2, <1>6 DEF BulkVoid
<1>7. ASSUME NEW m \in Months, UiClose(w, m) PROVE \E x : Go(w, x) /\ Starts(x)
  <2>1. \A R : Starts(Task("post", "accrual", R, "coverage", m))
    BY DEF Starts, Task, PostingJobs
  <2> QED BY <1>7, <2>1 DEF UiClose
<1>8. ASSUME NEW m \in Months, CloseEndpoint(w, m) PROVE \E x : Go(w, x) /\ Starts(x)
  <2>1. "close" \in Ops => Starts(ToClose(m))
    BY DEF Starts, ToClose, Task
  <2> QED BY <1>8, <2>1 DEF CloseEndpoint
<1> QED BY <1>3, <1>4, <1>5, <1>6, <1>7, <1>8 DEF Begin

LEMMA PreparedOpen ==
    ASSUME BooksInv, NEW job \in PostingJobs, NEW r
    PROVE  Prepare(job, r) = NoBatch \/ ~Closed(Prepare(job, r).period)
<1>1. PrepareIssue(r) = NoBatch \/ ~Closed(PrepareIssue(r).period)
  BY DEF PrepareIssue, Batch
<1>2. PreparePayment(r) = NoBatch \/ ~Closed(PreparePayment(r).period)
  BY DEF PreparePayment, Batch
<1>3. PrepareAccrual(r) = NoBatch \/ ~Closed(PrepareAccrual(r).period)
  BY DEF PrepareAccrual, Batch
<1>4. \A kind : PrepareReversal(r, kind) = NoBatch \/ ~Closed(PrepareReversal(r, kind).period)
  BY DEF PrepareReversal, Batch
<1> QED BY <1>1, <1>2, <1>3, <1>4 DEF Prepare, PostingJobs

LEMMA BeginKeepsOpen ==
    ASSUME OpenInv, OneAtATime, "reopen" \notin Ops, NEW w \in Workers, Begin(w)
    PROVE  StillOpen'
<1>1. CASE Bootstrap(w)
  <2>1. req[w] = Idle /\ req' = req
    BY <1>1 DEF Bootstrap
  <2>2. \A v \in Workers : req'[v].job = "none" /\ req'[v].at = "idle"
    BY <2>1 DEF OneAtATime, Idle, Task
  <2> QED BY <2>2 DEF StillOpen, InFlight
<1>2. CASE ~Bootstrap(w)
  <2>1. ~ \E m \in Months : Reopen(w, m)
    BY DEF Reopen
  <2>2. PICK x : Go(w, x) /\ Starts(x)
    BY <1>2, <2>1, BeginStarts
  <2>3. x.job # "reopening" /\ x.at # "insert"
    BY <2>2 DEF Starts, PostingJobs
  <2> QED BY <2>2, <2>3, TheOnly DEF OpenInv, StillOpen, InFlight
<1> QED BY <1>1, <1>2

LEMMA StepKeepsOpen ==
    ASSUME OpenInv, BooksInv', OneAtATime, NEW w \in Workers, Step(w) \/ Crash(w)
    PROVE  StillOpen'
<1>1. PICK x : Go(w, x) /\ Does(w, x)
  BY StepDoes DEF OpenInv
<1>2. /\ Consistent(req[w]) /\ req[w].todo \subseteq ReceiptIds
      /\ req[w].job # "reopening" /\ \A v \in Workers : req'[v] = x
  BY <1>1, TheOnly, RequestFields DEF OpenInv, BooksInv, StillOpen
<1>3. x.job # "reopening"
  BY <1>1, <1>2 DEF Does, Ends, Commits, Covers, Reads, GoesBack, Provides, Closes, Inserts,
                    Swallows, At, Idle, PostEach, ToClose, Task, PostingJobs
<1>4. ASSUME x.at = "insert", x.batch # NoBatch
      PROVE  x.batch.period \in Months /\ ~Closed(x.batch.period) /\ Unchanged
  <2>1. Reads(w, x) \/ Provides(w, x) \/ Closes(w, x)
    BY <1>1, <1>2, <1>4 DEF Does, Ends, Commits, Covers, GoesBack, Inserts, Swallows, At,
                            Idle, PostEach, ToClose, Task, Consistent
  <2>2. ~Closed(x.batch.period) /\ Unchanged
    BY <1>2, <1>4, <2>1, PreparedOpen DEF Reads, Provides, Closes, Consistent, OpenInv
  <2>3. x.batch.period \in Months
    BY <1>2, <1>4 DEF BooksInv, SoundBatches, SoundBatch, BatchType, Months
  <2> QED BY <2>2, <2>3
<1>5. x.at = "insert" /\ x.batch # NoBatch => period'[x.batch.period] # "closed"
  BY <1>4 DEF Unchanged, Closed
<1> QED BY <1>2, <1>3, <1>5 DEF StillOpen, InFlight, Closed

LEMMA OpenInductive ==
    ASSUME OneAtATime, "reopen" \notin Ops
    PROVE  (Init => OpenInv) /\ (OpenInv /\ [Next]_vars => OpenInv')
<1>1. Init => OpenInv
  <2>1. Init => StillOpen
    BY DEF Init, StillOpen, InFlight, Idle, Task
  <2> QED BY <2>1, BooksInductive DEF OpenInv
<1>2. ASSUME OpenInv, [Next]_vars PROVE OpenInv'
  <2>1. BooksInv'
    BY <1>2, BooksInductive DEF OpenInv
  <2>2. ASSUME NextMonth \/ UNCHANGED vars PROVE StillOpen'
    BY <1>2, <2>2 DEF NextMonth, vars, OpenInv, StillOpen, InFlight, Closed
  <2>3. StillOpen'
    BY <1>2, <2>1, <2>2, BeginKeepsOpen, StepKeepsOpen DEF Next
  <2> QED BY <2>1, <2>3 DEF OpenInv
<1> QED BY <1>1, <1>2

\* What a step adds to the ledger goes into a month that is open.
Frozen == \A m \in Months : Closed(m) /\ Closed(m)' =>
             \A i \in DOMAIN gl' : gl'[i].period = m => i \in DOMAIN gl /\ gl[i] = gl'[i]

LEMMA StepFreezes ==
    ASSUME OpenInv, OneAtATime, "reopen" \notin Ops, Next
    PROVE  Frozen
<1>1. CASE gl' = gl
  BY <1>1 DEF Frozen
<1>2. ASSUME NEW w \in Workers, Step(w) \/ Crash(w), gl' # gl PROVE Frozen
  <2> DEFINE b == req[w].batch
  <2>1. PICK x : Go(w, x) /\ Does(w, x)
    BY <1>2, StepDoes DEF OpenInv
  <2>2. Inserts(w, x)
    BY <1>2, <2>1 DEF Does, Ends, Commits, CommitRevert, Covers, Reads, GoesBack, Provides,
                      Closes, Swallows, Unchanged
  <2>3. gl' = (IF b = NoBatch THEN gl ELSE Append(gl, b)) /\ (b # NoBatch => ~Closed(b.period))
    BY <2>2 DEF Inserts, OpenInv, StillOpen, InFlight
  <2>4. /\ \A i \in DOMAIN gl : i \in DOMAIN gl' /\ gl'[i] = gl[i]
        /\ \A i \in DOMAIN gl' : i \notin DOMAIN gl => gl'[i] = b /\ b # NoBatch
    BY <2>3, Appended DEF OpenInv
  <2> HIDE DEF b
  <2> QED BY <2>3, <2>4 DEF Frozen
<1>3. ASSUME NEW w \in Workers, Begin(w) PROVE gl' = gl
  BY <1>3 DEF Begin, CreateReceipt, MarkPaid, RevertPending, RevertPaid, BulkVoid, UiClose,
              CloseEndpoint, Reopen, Bootstrap
<1> QED BY <1>1, <1>2, <1>3 DEF Next, NextMonth

\* A closed month keeps its batches: no handler adds one, whatever it read
\* before the month was closed (is_period_closed in every posting function).
THEOREM ClosedMonthsFrozen ==
    ASSUME OneAtATime, "reopen" \notin Ops
    PROVE  Spec => ClosedMonthsAreFrozen
<1>1. (Init => OpenInv) /\ (OpenInv /\ [Next]_vars => OpenInv')
  BY OpenInductive
<1>2. OpenInv /\ [Next]_vars =>
        [\A m \in Months : Closed(m) /\ Closed(m)' =>
            \A i \in DOMAIN gl' : gl'[i].period = m => i \in DOMAIN gl /\ gl[i] = gl'[i]]_vars
  BY StepFreezes DEF Frozen
<1> QED BY <1>1, <1>2, PTL DEF Spec, ClosedMonthsAreFrozen

-----------------------------------------------------------------------------
\* A month is closed only if its receipts are accrued.  The check of
\* ui_close_period and the insert of the closing batch are steps apart.
Closing(x) == \/ x.at \in {"ecl", "close"}
              \/ x.at = "insert" /\ x.job \in {"provision", "closing"}
StillCovered == \A w \in Workers : Closing(req[w]) => Covered(req[w].month)
CoverInv == BooksInv /\ StillCovered

LEMMA CoveredStays ==
    ASSUME BooksInv, NEW m, Covered(m), rcpt' = rcpt,
           \A i \in DOMAIN gl : i \in DOMAIN gl' /\ gl'[i] = gl[i]
    PROVE  Covered(m)'
BY DEF Covered, Exists

LEMMA BeginKeepsCover ==
    ASSUME CoverInv, OneAtATime, "close" \notin Ops, NEW w \in Workers, Begin(w)
    PROVE  StillCovered'
<1>1. CASE Bootstrap(w)
  <2>1. \A v \in Workers : req'[v].at = "idle"
    BY <1>1 DEF Bootstrap, OneAtATime, Idle, Task
  <2> QED BY <2>1 DEF StillCovered, Closing
<1>2. ASSUME NEW m \in Months, Reopen(w, m) PROVE StillCovered'
  <2>1. PICK b : Go(w, [Task("insert", "reopening", {}, "idle", m) EXCEPT !.batch = b])
    BY <1>2 DEF Reopen
  <2> DEFINE x == [Task("insert", "reopening", {}, "idle", m) EXCEPT !.batch = b]
  <2>2. x.at = "insert" /\ x.job = "reopening"
    BY DEF Task
  <2>3. Go(w, x)
    BY <2>1
  <2> HIDE DEF x
  <2> QED BY <2>2, <2>3, TheOnly DEF CoverInv, StillCovered, Closing
<1>3. CASE ~Bootstrap(w) /\ ~ \E m \in Months : Reopen(w, m)
  <2>1. PICK x : Go(w, x) /\ Starts(x)
    BY <1>3, BeginStarts
  <2> QED BY <2>1, TheOnly DEF CoverInv, StillCovered, Closing, Starts
<1> QED BY <1>1, <1>2, <1>3

LEMMA StepKeepsCover ==
    ASSUME CoverInv, OneAtATime, NEW w \in Workers, Step(w) \/ Crash(w)
    PROVE  StillCovered'
<1>1. PICK x : Go(w, x) /\ Does(w, x)
  BY StepDoes DEF CoverInv
<1>2. /\ Consistent(req[w]) /\ \A v \in Workers : req'[v] = x
  BY <1>1, TheOnly, RequestFields DEF CoverInv, BooksInv
<1>3. ASSUME Closing(x)
      PROVE  /\ Covered(x.month)
             /\ rcpt' = rcpt /\ \A i \in DOMAIN gl : i \in DOMAIN gl' /\ gl'[i] = gl[i]
  <2>1. ~Ends(x) /\ ~Commits(w, x) /\ ~Swallows(w, x)
    BY <1>3 DEF Closing, Ends, Commits, Swallows, Idle, PostEach, Task, At
  <2>2. ~Reads(w, x) /\ ~GoesBack(w, x)
    BY <1>2, <1>3 DEF Closing, Reads, GoesBack, At, Consistent, PostingJobs
  <2>3. CASE Covers(w, x)
    BY <2>3 DEF Covers, ToClose, Task, Unchanged
  <2>4. CASE Provides(w, x) \/ Closes(w, x)
    BY <2>4 DEF Provides, Closes, Keeps, Unchanged, CoverInv, StillCovered, Closing
  <2>5. CASE Inserts(w, x)
    <3>1. req[w].at = "insert" /\ req[w].job = "provision" /\ x.month = req[w].month
      BY <1>3, <2>5 DEF Inserts, Closing, At, Keeps, Idle, Task, PostingJobs
    <3>2. \A i \in DOMAIN gl : i \in DOMAIN gl' /\ gl'[i] = gl[i]
      BY <2>5, Appended DEF Inserts, CoverInv
    <3> QED BY <2>5, <3>1, <3>2 DEF Inserts, CoverInv, StillCovered, Closing
  <2> QED BY <1>1, <2>1, <2>2, <2>3, <2>4, <2>5 DEF Does
<1>4. Closing(x) => Covered(x.month)'
  BY <1>3, CoveredStays DEF CoverInv
<1> QED BY <1>2, <1>4 DEF StillCovered, Covered

LEMMA CoverInductive ==
    ASSUME OneAtATime, "close" \notin Ops
    PROVE  (Init => CoverInv) /\ (CoverInv /\ [Next]_vars => CoverInv')
<1>1. Init => CoverInv
  <2>1. Init => StillCovered
    BY DEF Init, StillCovered, Closing, Idle, Task
  <2> QED BY <2>1, BooksInductive DEF CoverInv
<1>2. ASSUME CoverInv, [Next]_vars PROVE CoverInv'
  <2>1. BooksInv'
    BY <1>2, BooksInductive DEF CoverInv
  <2>2. ASSUME NextMonth \/ UNCHANGED vars PROVE StillCovered'
    BY <1>2, <2>2 DEF NextMonth, vars, CoverInv, StillCovered, Closing, Covered, Exists
  <2>3. StillCovered'
    BY <1>2, <2>2, BeginKeepsCover, StepKeepsCover DEF Next
  <2> QED BY <2>1, <2>3 DEF CoverInv
<1> QED BY <1>1, <1>2

LEMMA ClosingIsCovered ==
    ASSUME CoverInv, Next, NEW m \in Months, ~Closed(m), Closed(m)'
    PROVE  Covered(m)
<1>1. ASSUME NEW w \in Workers, Begin(w) PROVE FALSE
  BY <1>1 DEF Begin, CreateReceipt, MarkPaid, RevertPending, RevertPaid, BulkVoid, UiClose,
              CloseEndpoint, Reopen, Bootstrap, Closed
<1>2. ASSUME NEW w \in Workers, Step(w) \/ Crash(w) PROVE Covered(m)
  <2>1. PICK x : Go(w, x) /\ Does(w, x)
    BY <1>2, StepDoes DEF CoverInv
  <2>2. ~Commits(w, x)
    BY DEF Commits, CommitRevert, Closed
  <2>3. Inserts(w, x)
    BY <2>1, <2>2 DEF Does, Ends, Covers, Reads, GoesBack, Provides, Closes, Swallows, Unchanged
  <2>4. req[w].at = "insert" /\ req[w].job = "closing" /\ m = req[w].month
    BY <2>3 DEF Inserts
  <2> QED BY <2>4 DEF CoverInv, StillCovered, Closing
<1> QED BY <1>1, <1>2 DEF Next, NextMonth, Closed

\* A month is closed only when every receipt whose service ends in it has been
\* accrued in it, although ui_close_period checks this some steps earlier.
THEOREM ClosesCoverReceipts ==
    ASSUME OneAtATime, "close" \notin Ops
    PROVE  Spec => CloseCoversReceipts
<1>1. (Init => CoverInv) /\ (CoverInv /\ [Next]_vars => CoverInv')
  BY CoverInductive
<1>2. CoverInv /\ [Next]_vars =>
        [\A m \in Months : ~Closed(m) /\ Closed(m)' =>
           \A r \in ReceiptIds :
              Exists(r) /\ rcpt[r].service = m /\ Gross[r] > 0 =>
                \E i \in DOMAIN gl :
                   gl[i].ref = r /\ gl[i].kind = "accrual" /\ gl[i].period = m]_vars
  BY ClosingIsCovered DEF Covered
<1> QED BY <1>1, <1>2, PTL DEF Spec, CloseCoversReceipts

-----------------------------------------------------------------------------
\* Revenue is recognised once.  post_receipt_issued looks for the accrual and
\* post_service_accrual_for_receipt for the issue; each posts revenue only if
\* the other has not.
Own(b) ==
    /\ b.kind = "issue" => /\ b.ref \in ReceiptIds /\ Exists(b.ref)
                           /\ b.period = rcpt[b.ref].created
                           /\ b.lines["rev"] # 0 => rcpt[b.ref].service >= b.period
    /\ b.kind = "accrual" => /\ b.ref \in ReceiptIds /\ Exists(b.ref)
                             /\ b.period = rcpt[b.ref].service
Twice(b, c) == /\ b.ref = c.ref /\ b.kind = "issue" /\ c.kind = "accrual"
               /\ b.lines["rev"] # 0 /\ c.lines["rev"] # 0
               /\ rcpt[b.ref].service <= rcpt[b.ref].created
Clash(b, c) == Twice(b, c) \/ Twice(c, b)
LedgerOnce == \A i \in DOMAIN gl : Own(gl[i]) /\ \A j \in DOMAIN gl : ~Clash(gl[i], gl[j])
FlightOnce == \A w \in Workers : InFlight(w) =>
                 Own(req[w].batch) /\ \A j \in DOMAIN gl : ~Clash(req[w].batch, gl[j])
RevenueOnce == LedgerOnce /\ FlightOnce
RevenueInv == BooksInv /\ RevenueOnce

\* A receipt keeps the two months it is created with.
SameDates == \A r \in ReceiptIds : Exists(r) => /\ Exists(r)'
                                                /\ rcpt'[r].created = rcpt[r].created
                                                /\ rcpt'[r].service = rcpt[r].service

LEMMA NextKeepsDates == BooksInv /\ Next => SameDates
<1> SUFFICES ASSUME BooksInv, Next PROVE SameDates
  OBVIOUS
<1>1. rcpt \in [ReceiptIds -> ReceiptType]
  BY DEF BooksInv, LedgerInv, Shape
<1>2. CASE rcpt' = rcpt
  BY <1>2 DEF SameDates, Exists
<1>3. ASSUME NEW w \in Workers, NEW r \in ReceiptIds, NEW m, NEW monthly,
             CreateReceipt(w, r, m, monthly)
      PROVE  SameDates
  BY <1>1, <1>3 DEF CreateReceipt, SameDates, Exists
<1>4. ASSUME NEW w \in Workers, NEW r \in ReceiptIds, MarkPaid(w, r) PROVE SameDates
  BY <1>1, <1>4 DEF MarkPaid, SameDates, Exists, ReceiptType
<1>5. ASSUME NEW w \in Workers, NEW m \in Months, BulkVoid(w, m) PROVE SameDates
  BY <1>1, <1>5 DEF BulkVoid, SameDates, Exists, ReceiptType
<1>6. ASSUME NEW w \in Workers, CommitRevert(w) PROVE SameDates
  BY <1>1, <1>6 DEF CommitRevert, SameDates, Exists, ReceiptType
<1>7. ASSUME NEW w \in Workers, Begin(w) PROVE SameDates
  BY <1>2, <1>3, <1>4, <1>5, <1>7
     DEF Begin, RevertPending, RevertPaid, UiClose, CloseEndpoint, Reopen, Bootstrap
<1>8. ASSUME NEW w \in Workers, Step(w) \/ Crash(w) PROVE SameDates
  <2>1. PICK x : Go(w, x) /\ Does(w, x)
    BY <1>8, StepDoes
  <2> QED BY <1>2, <1>6, <2>1 DEF Does, Ends, Commits, Covers, Reads, GoesBack, Provides, Closes,
                                  Inserts, Swallows, Unchanged
<1> QED BY <1>2, <1>7, <1>8 DEF Next, NextMonth

LEMMA OwnStays ==
    ASSUME SameDates, NEW b, NEW c, Own(b)
    PROVE  Own(b)' /\ (~Clash(b, c) => ~Clash(b, c)')
<1>1. Own(b)'
  BY DEF SameDates, Own
<1>2. Twice(b, c)' => Twice(b, c)
  BY DEF SameDates, Own, Twice
<1>3. Twice(c, b)' => Twice(c, b)
  BY DEF SameDates, Own, Twice
<1> QED BY <1>1, <1>2, <1>3 DEF Clash

\* What a posting function prepares is its own, and not recognised yet.
LEMMA PreparedOnce ==
    ASSUME RevenueInv, NEW r \in ReceiptIds, NEW job \in PostingJobs,
           job \in {"issue", "accrual"} => Exists(r)
    PROVE  \/ Prepare(job, r) = NoBatch
           \/ Own(Prepare(job, r)) /\ \A j \in DOMAIN gl : ~Clash(Prepare(job, r), gl[j])
<1>1. rcpt[r].created \in Int /\ rcpt[r].service \in Int
  BY DEF RevenueInv, BooksInv, LedgerInv, Shape, ReceiptType
<1>2. CASE job = "issue"
  <2> DEFINE m == rcpt[r].created
             ca == Posted(r, "accrual") \/ rcpt[r].service < m
             b == Batch(r, "issue", m, IssueLines(Gross[r], Net[r], ca))
  <2>1. Prepare(job, r) \in {NoBatch, b}
    BY <1>2 DEF Prepare, PrepareIssue
  <2>2. b.ref = r /\ b.kind = "issue" /\ b.period = m
    BY DEF Batch
  <2>3. ca => b.lines["rev"] = 0
    BY DEF Batch, IssueLines, NoLines, Accounts
  <2> HIDE DEF b
  <2>4. Own(b)
    BY <1>1, <1>2, <2>2, <2>3 DEF Own
  <2>5. ASSUME NEW j \in DOMAIN gl PROVE ~Clash(b, gl[j])
    BY <2>2, <2>3 DEF Clash, Twice, Posted
  <2> QED BY <2>1, <2>4, <2>5
<1>3. CASE job = "payment"
  <2>1. Prepare(job, r) = NoBatch \/ Prepare(job, r).kind = "payment"
    BY <1>3 DEF Prepare, PreparePayment, Batch
  <2> QED BY <2>1 DEF Own, Clash, Twice
<1>4. CASE job = "accrual"
  <2> DEFINE m == rcpt[r].service
             Issued == Posted(r, "issue") /\ Find(r, "issue").period = m
             b == Prepare(job, r)
  <2>1. \/ b = NoBatch
        \/ /\ b.ref = r /\ b.kind = "accrual" /\ b.period = m
           /\ Issued => b.lines["rev"] = 0
    BY <1>4 DEF Prepare, PrepareAccrual, Batch, NoLines, Accounts
  <2> HIDE DEF b
  <2>2. CASE b = NoBatch
    BY <2>2 DEF b
  <2>3. CASE b # NoBatch
    <3>1. Own(b)
      BY <1>4, <2>1, <2>3 DEF Own
    <3>2. ASSUME NEW j \in DOMAIN gl, Twice(gl[j], b) PROVE FALSE
      <4>1. /\ gl[j].ref = r /\ gl[j].kind = "issue" /\ gl[j].lines["rev"] # 0
            /\ rcpt[r].service <= rcpt[r].created /\ ~Issued
        BY <2>1, <2>3, <3>2 DEF Twice
      <4>2. gl[j].period = m
        BY <1>1, <4>1 DEF RevenueInv, RevenueOnce, LedgerOnce, Own
      <4>3. /\ Posted(r, "issue")
            /\ \E i \in DOMAIN gl : /\ gl[i].ref = r /\ gl[i].kind = "issue"
                                    /\ Find(r, "issue") = gl[i]
        <5>1. Posted(r, "issue")
          BY <4>1 DEF Posted
        <5> QED BY <5>1, FindsBatch DEF RevenueInv, BooksInv, LedgerInv, Shape
      <4>4. Find(r, "issue") = gl[j]
        BY <4>1, <4>3 DEF RevenueInv, BooksInv, LedgerInv, PostedOnce
      <4> QED BY <4>1, <4>2, <4>3, <4>4
    <3>3. ASSUME NEW j \in DOMAIN gl PROVE ~Clash(b, gl[j])
      BY <2>1, <2>3, <3>2 DEF Clash, Twice
    <3> QED BY <3>1, <3>3 DEF b
  <2> QED BY <2>2, <2>3
<1>5. CASE job \in {"undoIssue", "undoPayment"}
  <2>1. Prepare(job, r) = NoBatch \/ Prepare(job, r).kind = "reversal"
    BY <1>5 DEF Prepare, PrepareReversal, Batch
  <2> QED BY <2>1 DEF Own, Clash, Twice
<1> QED BY <1>2, <1>3, <1>4, <1>5 DEF PostingJobs

\* A batch takes off when a posting function, the provision or the close has
\* read what it needs; the tables stay.
LEMMA TakesOff ==
    ASSUME BooksInv, NEW w \in Workers, NEW x, Does(w, x), x.at = "insert", x.batch # NoBatch
    PROVE  (Reads(w, x) \/ Provides(w, x) \/ Closes(w, x)) /\ Unchanged
<1>1. Consistent(req[w])
  BY RequestFields DEF BooksInv
<1>2. Reads(w, x) \/ Provides(w, x) \/ Closes(w, x)
  BY <1>1 DEF Does, Ends, Commits, Covers, GoesBack, Inserts, Swallows, At, Idle, PostEach,
              ToClose, Task, Consistent
<1> QED BY <1>2 DEF Reads, Provides, Closes

LEMMA LedgerKeepsOnce ==
    ASSUME RevenueInv, Next, NEW b,
           gl' = IF b = NoBatch THEN gl ELSE Append(gl, b),
           b # NoBatch => Own(b) /\ \A j \in DOMAIN gl : ~Clash(b, gl[j])
    PROVE  LedgerOnce'
<1>1. SameDates
  BY NextKeepsDates DEF RevenueInv
<1>2. \A i \in DOMAIN gl' : (i \in DOMAIN gl /\ gl'[i] = gl[i]) \/ (gl'[i] = b /\ b # NoBatch)
  BY Appended DEF RevenueInv
<1>3. ~Clash(b, b)
  BY DEF Clash, Twice
<1>4. ASSUME NEW i \in DOMAIN gl', NEW j \in DOMAIN gl'
      PROVE  Own(gl'[i]) /\ ~Clash(gl'[i], gl'[j])
  <2>1. \A c, d : Clash(c, d) <=> Clash(d, c)
    BY DEF Clash
  <2> QED BY <1>2, <1>3, <2>1 DEF RevenueInv, RevenueOnce, LedgerOnce
<1>5. ASSUME NEW i \in DOMAIN gl', NEW j \in DOMAIN gl', NEW c, NEW d, c = gl'[i], d = gl'[j]
      PROVE  Own(c)' /\ ~Clash(c, d)'
  BY <1>1, <1>4, <1>5, OwnStays
<1>6. ASSUME NEW i \in DOMAIN gl', NEW j \in DOMAIN gl'
      PROVE  Own(gl[i])' /\ ~Clash(gl[i], gl[j])'
  BY <1>5, SMTT(30) DEF Own, Clash, Twice
<1> QED BY <1>6 DEF LedgerOnce

LEMMA StepKeepsRevenue ==
    ASSUME RevenueInv, Next, OneAtATime, NEW w \in Workers, Step(w) \/ Crash(w)
    PROVE  RevenueOnce'
<1>1. PICK x : Go(w, x) /\ Does(w, x)
  BY StepDoes DEF RevenueInv
<1>2. /\ Consistent(req[w]) /\ req[w].todo \subseteq ReceiptIds
      /\ \A v \in Workers : req'[v] = x
  BY <1>1, TheOnly, RequestFields DEF RevenueInv, BooksInv
<1>3. LedgerOnce'
  <2>1. CASE Inserts(w, x)
    <3>1. req[w].batch # NoBatch =>
             Own(req[w].batch) /\ \A j \in DOMAIN gl : ~Clash(req[w].batch, gl[j])
      BY <2>1 DEF Inserts, RevenueInv, RevenueOnce, FlightOnce, InFlight
    <3> QED BY <2>1, <3>1, LedgerKeepsOnce DEF Inserts
  <2>2. CASE ~Inserts(w, x)
    <3>1. gl' = IF NoBatch = NoBatch THEN gl ELSE Append(gl, NoBatch)
      BY <1>1, <2>2 DEF Does, Ends, Commits, CommitRevert, Covers, Reads, GoesBack, Provides,
                        Closes, Swallows, Unchanged
    <3> QED BY <3>1, LedgerKeepsOnce
  <2> QED BY <2>1, <2>2
<1>4. ASSUME x.at = "insert", x.batch # NoBatch
      PROVE  gl' = gl /\ Own(x.batch) /\ \A j \in DOMAIN gl : ~Clash(x.batch, gl[j])
  <2>1. (Reads(w, x) \/ Provides(w, x) \/ Closes(w, x)) /\ gl' = gl
    BY <1>1, <1>4, TakesOff DEF RevenueInv, Unchanged
  <2>2. CASE Reads(w, x)
    <3>1. PICK r \in ReceiptIds : /\ r \in req[w].todo /\ x.batch = Prepare(req[w].job, r)
                                  /\ req[w].at = "post"
      BY <2>2 DEF Reads
    <3>2. req[w].job \in PostingJobs /\ (req[w].job \in {"issue", "accrual"} => Exists(r))
      BY <1>2, <3>1 DEF Consistent, RevenueInv, BooksInv, Dated
    <3> QED BY <1>4, <2>1, <3>1, <3>2, PreparedOnce
  <2>3. CASE Provides(w, x) \/ Closes(w, x)
    <3>1. x.batch.kind \in {"impairment", "closing"}
      BY <1>4, <2>3 DEF Provides, Closes
    <3> QED BY <2>1, <3>1 DEF Own, Clash, Twice
  <2> QED BY <2>1, <2>2, <2>3
<1>5. SameDates
  BY NextKeepsDates DEF RevenueInv
<1>6. ASSUME NEW d, Own(x.batch), ~Clash(x.batch, d) PROVE Own(x.batch)' /\ ~Clash(x.batch, d)'
  BY <1>5, <1>6, OwnStays
<1>7. FlightOnce'
  <2>1. ASSUME x.at = "insert", x.batch # NoBatch
        PROVE  Own(x.batch)' /\ \A j \in DOMAIN gl : ~Clash(x.batch, gl[j])'
    BY <1>4, <1>6, <2>1 DEF Clash, Twice
  <2> QED BY <1>2, <1>4, <2>1 DEF FlightOnce, InFlight, Own, Clash, Twice
<1> QED BY <1>3, <1>7 DEF RevenueOnce

LEMMA BeginKeepsRevenue ==
    ASSUME RevenueInv, Next, OneAtATime, NEW w \in Workers, Begin(w)
    PROVE  RevenueOnce'
<1>1. gl' = IF NoBatch = NoBatch THEN gl ELSE Append(gl, NoBatch)
  BY DEF Begin, CreateReceipt, MarkPaid, RevertPending, RevertPaid, BulkVoid, UiClose,
         CloseEndpoint, Reopen, Bootstrap
<1>2. LedgerOnce'
  BY <1>1, LedgerKeepsOnce
<1>3. CASE Bootstrap(w)
  <2>1. \A v \in Workers : req'[v].at = "idle"
    BY <1>3 DEF Bootstrap, OneAtATime, Idle, Task
  <2> QED BY <1>2, <2>1 DEF RevenueOnce, FlightOnce, InFlight
<1>4. ASSUME NEW m \in Months, Reopen(w, m) PROVE RevenueOnce'
  <2> DEFINE b == IF Posted(m, "closing")
                  THEN Batch(m, "reversal", now, Reversed(Find(m, "closing").lines)) ELSE NoBatch
             x == [Task("insert", "reopening", {}, "idle", m) EXCEPT !.batch = b]
  <2>1. Go(w, x)
    BY <1>4 DEF Reopen
  <2>2. b.kind \in {"none", "reversal"}
    BY DEF NoBatch, Batch
  <2> HIDE DEF b
  <2>3. x.batch = b
    BY DEF Task
  <2> HIDE DEF x
  <2>4. \A v \in Workers : req'[v].batch.kind \in {"none", "reversal"}
    BY <2>1, <2>2, <2>3, TheOnly DEF RevenueInv
  <2> QED BY <1>2, <2>4 DEF RevenueOnce, FlightOnce, InFlight, Own, Clash, Twice
<1>5. CASE ~Bootstrap(w) /\ ~ \E m \in Months : Reopen(w, m)
  <2>1. PICK x : Go(w, x) /\ Starts(x)
    BY <1>5, BeginStarts
  <2>2. \A v \in Workers : req'[v].at # "insert"
    BY <2>1, TheOnly DEF RevenueInv, Starts
  <2> QED BY <1>2, <2>2 DEF RevenueOnce, FlightOnce, InFlight
<1> QED BY <1>3, <1>4, <1>5

LEMMA RevenueInductive ==
    ASSUME OneAtATime
    PROVE  (Init => RevenueInv) /\ (RevenueInv /\ [Next]_vars => RevenueInv')
<1>1. Init => RevenueInv
  <2>1. Init => RevenueOnce
    BY DEF Init, RevenueOnce, LedgerOnce, FlightOnce, InFlight, Idle, Task
  <2> QED BY <2>1, BooksInductive DEF RevenueInv
<1>2. ASSUME RevenueInv, [Next]_vars PROVE RevenueInv'
  <2>1. BooksInv'
    BY <1>2, BooksInductive DEF RevenueInv
  <2>2. ASSUME NextMonth \/ UNCHANGED vars PROVE RevenueOnce'
    BY <1>2, <2>2 DEF NextMonth, vars, RevenueInv, RevenueOnce, LedgerOnce, FlightOnce, InFlight,
                      Own, Clash, Twice, Exists
  <2>3. RevenueOnce'
    BY <1>2, <2>2, BeginKeepsRevenue, StepKeepsRevenue DEF Next
  <2> QED BY <2>1, <2>3 DEF RevenueInv
<1> QED BY <1>1, <1>2

LEMMA RevenueFromInv == RevenueInv => RevenueRecognisedOnce
<1> SUFFICES ASSUME RevenueInv, NEW r \in ReceiptIds, rcpt[r].service <= rcpt[r].created,
                    NEW i \in DOMAIN gl, Recognises(i, r)
             PROVE  /\ gl[i].period = rcpt[r].service
                    /\ \A j \in DOMAIN gl \ {i} : ~Recognises(j, r)
  BY DEF RevenueRecognisedOnce
<1>1. rcpt[r].created \in Int /\ rcpt[r].service \in Int
  BY DEF RevenueInv, BooksInv, LedgerInv, Shape, ReceiptType
<1>2. gl[i].period = rcpt[r].service
  BY <1>1 DEF RevenueInv, RevenueOnce, LedgerOnce, Own, Recognises
<1>3. ASSUME NEW j \in DOMAIN gl \ {i}, Recognises(j, r) PROVE FALSE
  <2>1. gl[i].kind # gl[j].kind
    BY <1>3 DEF Recognises, RevenueInv, BooksInv, LedgerInv, PostedOnce
  <2>2. Clash(gl[i], gl[j])
    BY <1>3, <2>1 DEF Recognises, Clash, Twice
  <2> QED BY <1>3, <2>2 DEF RevenueInv, RevenueOnce, LedgerOnce
<1> QED BY <1>2, <1>3

\* A receipt whose service does not end after its month of creation is
\* recognised as revenue once, in the month of the service, whichever of its
\* issue and its accrual is posted first and whatever is closed, reopened or
\* cut short in between.
THEOREM RevenueOnlyOnce ==
    ASSUME OneAtATime
    PROVE  Spec => []RevenueRecognisedOnce
<1>1. (Init => RevenueInv) /\ (RevenueInv /\ [Next]_vars => RevenueInv')
  BY RevenueInductive
<1> QED BY <1>1, RevenueFromInv, PTL DEF Spec

-----------------------------------------------------------------------------
\* No cash without payment.  While no month is closed every reversal goes
\* through, so what a receipt that is not paid has taken in has been paid back;
\* revert_paid reverses before it commits the status, and the unique key that
\* refuses a second reversal tells that there is a first.
TakesBackCash(b) == b.kind = "reversal" /\ b.ref \in ReceiptIds /\ rcpt[b.ref].status # "void"
                       => b.lines["cash"] = -Gross[b.ref]
PaidBack(r) == \E i \in DOMAIN gl : /\ gl[i].ref = r /\ gl[i].kind = "reversal"
                                    /\ gl[i].lines["cash"] = -Gross[r]
Refunded(r) == Posted(r, "payment") => PaidBack(r)
NoneClosed == \A m \in Months : ~Closed(m)

LedgerTakesBack == \A i \in DOMAIN gl : TakesBackCash(gl[i])
FlightTakesBack ==
    \A w \in Workers : InFlight(w) =>
        /\ TakesBackCash(req[w].batch)
        /\ req[w].batch.kind = "payment" => rcpt[req[w].batch.ref].status = "paid"
UndoesVoid == \A w \in Workers : /\ req[w].job # "reopening"
                                 /\ req[w].job = "undoIssue" =>
                                       \A r \in req[w].todo : rcpt[r].status = "void"

\* A request on its way to commit a revert: it takes back the payment of the
\* one receipt it has locked.
OnTheWay(x) ==
    /\ x.at = "revert" => x.after = "revert"
    /\ x.after = "revert" =>
          /\ x.at \in {"post", "insert", "revert"}
          /\ x.at # "revert" => x.job = "undoPayment"
          /\ x.todo \subseteq x.held
          /\ x.at = "revert" => x.todo = {}
          /\ x.at = "insert" => /\ x.batch # NoBatch /\ x.batch.kind = "reversal"
                                /\ x.held = {x.batch.ref}
Reverting == \A w \in Workers : OnTheWay(req[w])

UnpaidIsRefunded == NoneClosed => \A r \in ReceiptIds : rcpt[r].status # "paid" => Refunded(r)
RevertIsRefunded == NoneClosed => \A w \in Workers :
                       req[w].after = "revert" /\ req[w].at \in {"post", "revert"} =>
                          \A r \in req[w].held \ req[w].todo : Refunded(r)
CashSafe == /\ LedgerTakesBack /\ FlightTakesBack /\ UndoesVoid /\ Reverting
            /\ UnpaidIsRefunded /\ RevertIsRefunded
CashInv == BooksInv /\ CashSafe

-----------------------------------------------------------------------------
\* The receipts: void is for good, and paid ends with a committed revert.
LEMMA VoidStays ==
    ASSUME BooksInv, Next, NEW r \in ReceiptIds, rcpt[r].status = "void"
    PROVE  rcpt'[r].status = "void"
<1>1. rcpt \in [ReceiptIds -> ReceiptType]
  BY DEF BooksInv, LedgerInv, Shape
<1>2. ASSUME NEW w \in Workers, NEW q \in ReceiptIds, NEW m, NEW monthly,
             CreateReceipt(w, q, m, monthly)
      PROVE  rcpt'[r].status = "void"
  BY <1>1, <1>2 DEF CreateReceipt, Exists
<1>3. ASSUME NEW w \in Workers, NEW q \in ReceiptIds, MarkPaid(w, q) PROVE rcpt'[r].status = "void"
  BY <1>1, <1>3 DEF MarkPaid
<1>4. ASSUME NEW w \in Workers, NEW m \in Months, BulkVoid(w, m) PROVE rcpt'[r].status = "void"
  BY <1>1, <1>4 DEF BulkVoid
<1>5. ASSUME NEW w \in Workers, CommitRevert(w) PROVE rcpt'[r].status = "void"
  <2>1. r \notin req[w].held
    BY DEF BooksInv, Locking
  <2> QED BY <1>5, <2>1 DEF CommitRevert
<1>6. ASSUME NEW w \in Workers, Begin(w) PROVE rcpt'[r].status = "void"
  BY <1>2, <1>3, <1>4, <1>6
     DEF Begin, RevertPending, RevertPaid, UiClose, CloseEndpoint, Reopen, Bootstrap
<1>7. ASSUME NEW w \in Workers, Step(w) \/ Crash(w) PROVE rcpt'[r].status = "void"
  <2>1. PICK x : Go(w, x) /\ Does(w, x)
    BY <1>7, StepDoes
  <2> QED BY <1>5, <2>1 DEF Does, Ends, Commits, Covers, Reads, GoesBack, Provides, Closes,
                            Inserts, Swallows, Unchanged
<1> QED BY <1>6, <1>7 DEF Next, NextMonth

LEMMA TakesBackStays ==
    ASSUME BooksInv, Next, NEW b, TakesBackCash(b)
    PROVE  TakesBackCash(b)'
BY VoidStays DEF TakesBackCash

LEMMA BeginKeepsPaid ==
    ASSUME BooksInv, NEW w \in Workers, Begin(w), NEW r \in ReceiptIds, rcpt[r].status = "paid"
    PROVE  rcpt'[r].status = "paid"
<1>1. rcpt \in [ReceiptIds -> ReceiptType]
  BY DEF BooksInv, LedgerInv, Shape
<1>2. ASSUME NEW q \in ReceiptIds, NEW m, NEW monthly, CreateReceipt(w, q, m, monthly)
      PROVE  rcpt'[r].status = "paid"
  BY <1>1, <1>2 DEF CreateReceipt, Exists
<1>3. ASSUME NEW q \in ReceiptIds, MarkPaid(w, q) PROVE rcpt'[r].status = "paid"
  BY <1>1, <1>3 DEF MarkPaid, ReceiptType
<1>4. ASSUME NEW m \in Months, BulkVoid(w, m) PROVE rcpt'[r].status = "paid"
  BY <1>1, <1>4 DEF BulkVoid
<1> QED BY <1>2, <1>3, <1>4
           DEF Begin, RevertPending, RevertPaid, UiClose, CloseEndpoint, Reopen, Bootstrap

LEMMA RefundedStays ==
    ASSUME BooksInv, NEW r, Refunded(r), NEW b, gl' = IF b = NoBatch THEN gl ELSE Append(gl, b),
           ~(b.ref = r /\ b.kind = "payment")
    PROVE  Refunded(r)'
<1>1. /\ \A i \in DOMAIN gl : i \in DOMAIN gl' /\ gl'[i] = gl[i]
      /\ \A i \in DOMAIN gl' : i \notin DOMAIN gl => gl'[i] = b
  BY Appended
<1> QED BY <1>1 DEF Refunded, Posted, PaidBack

LEMMA SameRefunds ==
    ASSUME gl' = gl
    PROVE  \A r : Refunded(r)' <=> Refunded(r)
BY DEF Refunded, Posted, PaidBack

-----------------------------------------------------------------------------
\* The requests that begin.
BeginsCash(x) ==
    /\ x.batch = NoBatch /\ x.at \in {"post", "ecl"} /\ x.job # "reopening"
    /\ x.after = "revert" => x.at = "post" /\ x.job = "undoPayment" /\ x.todo = x.held
    /\ x.job = "undoIssue" => \A r \in x.todo : rcpt'[r].status = "void"

LEMMA BeginDoes ==
    ASSUME BooksInv, NEW w \in Workers, Begin(w), ~Bootstrap(w), "reopen" \notin Ops
    PROVE  \E x : Go(w, x) /\ BeginsCash(x)
<1>1. ASSUME NEW job \in PostingJobs, NEW R, job # "undoIssue"
      PROVE  BeginsCash(PostEach(job, R, "idle"))
  BY <1>1 DEF BeginsCash, PostEach, Task, PostingJobs
<1>2. /\ "issue" \in PostingJobs /\ "payment" \in PostingJobs /\ "undoPayment" \in PostingJobs
  BY DEF PostingJobs
<1>3. ASSUME NEW r \in ReceiptIds, NEW m, NEW monthly, CreateReceipt(w, r, m, monthly)
      PROVE  \E x : Go(w, x) /\ BeginsCash(x)
  BY <1>1, <1>2, <1>3 DEF CreateReceipt
<1>4. ASSUME NEW r \in ReceiptIds, MarkPaid(w, r) \/ RevertPending(w, r)
      PROVE  \E x : Go(w, x) /\ BeginsCash(x)
  BY <1>1, <1>2, <1>4 DEF MarkPaid, RevertPending
<1>5. ASSUME NEW r \in ReceiptIds, RevertPaid(w, r) PROVE \E x : Go(w, x) /\ BeginsCash(x)
  <2>1. BeginsCash([PostEach("undoPayment", {r}, "revert") EXCEPT !.held = {r}])
    BY DEF BeginsCash, PostEach, Task
  <2> QED BY <1>5, <2>1 DEF RevertPaid
<1>6. ASSUME NEW m \in Months, BulkVoid(w, m) PROVE \E x : Go(w, x) /\ BeginsCash(x)
  <2> DEFINE InMonth == {r \in ReceiptIds : rcpt[r].monthly /\ rcpt[r].service = m}
             Pending == {r \in InMonth : rcpt[r].status = "pending"}
  <2>1. \A r \in Pending : rcpt'[r].status = "void"
    BY <1>6 DEF BulkVoid, BooksInv, LedgerInv, Shape, ReceiptType
  <2>2. Go(w, PostEach("undoIssue", Pending, "idle"))
    BY <1>6 DEF BulkVoid
  <2> HIDE DEF Pending
  <2>3. BeginsCash(PostEach("undoIssue", Pending, "idle"))
    BY <2>1 DEF BeginsCash, PostEach, Task
  <2> QED BY <2>2, <2>3
<1>7. ASSUME NEW m \in Months, UiClose(w, m) PROVE \E x : Go(w, x) /\ BeginsCash(x)
  <2>1. \A R : BeginsCash(Task("post", "accrual", R, "coverage", m))
    BY DEF BeginsCash, Task
  <2> QED BY <1>7, <2>1 DEF UiClose
<1>8. ASSUME NEW m \in Months, CloseEndpoint(w, m) PROVE \E x : Go(w, x) /\ BeginsCash(x)
  <2>1. BeginsCash(ToClose(m))
    BY DEF BeginsCash, ToClose, Task
  <2> QED BY <1>8, <2>1 DEF CloseEndpoint
<1> QED BY <1>3, <1>4, <1>5, <1>6, <1>7, <1>8 DEF Begin, Reopen

LEMMA BeginKeepsTables ==
    ASSUME NEW w, Begin(w), period \in [Months -> {"none", "open", "closed"}]
    PROVE  gl' = gl /\ \A m \in Months : Closed(m)' <=> Closed(m)
BY DEF Begin, CreateReceipt, MarkPaid, RevertPending, RevertPaid, BulkVoid, UiClose,
       CloseEndpoint, Reopen, Bootstrap, Closed

LEMMA BeginKeepsCash ==
    ASSUME CashInv, Next, OneAtATime, "reopen" \notin Ops, NEW w \in Workers, Begin(w)
    PROVE  CashSafe'
<1>1. BooksInv /\ period \in [Months -> {"none", "open", "closed"}]
  BY DEF CashInv, BooksInv, LedgerInv, Shape
<1>2. gl' = gl /\ \A m \in Months : Closed(m)' <=> Closed(m)
  BY <1>1, BeginKeepsTables
<1>3. LedgerTakesBack'
  BY <1>1, <1>2, TakesBackStays DEF CashInv, CashSafe, LedgerTakesBack, TakesBackCash
<1>4. UnpaidIsRefunded'
  <2>1. \A r \in ReceiptIds : rcpt'[r].status # "paid" => rcpt[r].status # "paid"
    BY <1>1, BeginKeepsPaid
  <2>2. NoneClosed' => NoneClosed
    BY <1>2 DEF NoneClosed, Months
  <2> QED BY <1>2, <2>1, <2>2, SameRefunds DEF CashInv, CashSafe, UnpaidIsRefunded
<1>5. PICK x : /\ \A v \in Workers : req'[v] = x
               /\ x.at # "insert" /\ x.at # "revert" /\ x.job # "reopening"
               /\ x.after = "revert" => x.at = "post" /\ x.job = "undoPayment" /\ x.todo = x.held
               /\ x.job = "undoIssue" => \A r \in x.todo : rcpt'[r].status = "void"
  <2>1. CASE Bootstrap(w)
    <3>1. \A v \in Workers : req'[v] = Idle
      BY <2>1 DEF Bootstrap, OneAtATime
    <3> QED BY <3>1 DEF Idle, Task
  <2>2. CASE ~Bootstrap(w)
    <3>1. PICK x : Go(w, x) /\ BeginsCash(x)
      BY <1>1, <2>2, BeginDoes
    <3> QED BY <1>1, <3>1, TheOnly DEF BeginsCash
  <2> QED BY <2>1, <2>2
<1>6. FlightTakesBack' /\ UndoesVoid' /\ Reverting' /\ RevertIsRefunded'
  BY <1>5 DEF FlightTakesBack, InFlight, UndoesVoid, Reverting, OnTheWay, RevertIsRefunded
<1> QED BY <1>3, <1>4, <1>6 DEF CashSafe

-----------------------------------------------------------------------------
\* The steps under way.

LEMMA PreparedTakesBack ==
    ASSUME CashInv, NEW r \in ReceiptIds, NEW job \in PostingJobs,
           job = "undoIssue" => rcpt[r].status = "void"
    PROVE  LET b == Prepare(job, r) IN
           b = NoBatch \/ (/\ TakesBackCash(b)
                           /\ b.kind = "payment" => rcpt[b.ref].status = "paid"
                           /\ job = "undoPayment" => b.kind = "reversal" /\ b.ref = r)
<1> DEFINE b == Prepare(job, r)
<1>1. CASE job \in {"issue", "accrual"}
  <2>1. b = NoBatch \/ b.kind \in {"issue", "accrual"}
    BY <1>1 DEF Prepare, PrepareIssue, PrepareAccrual, Batch
  <2> HIDE DEF b
  <2>2. b = NoBatch \/ (TakesBackCash(b) /\ b.kind # "payment" /\ job # "undoPayment")
    BY <1>1, <2>1 DEF TakesBackCash
  <2> QED BY <2>2 DEF b
<1>2. CASE job = "payment"
  <2>1. b = NoBatch \/ (b.kind = "payment" /\ b.ref = r /\ rcpt[r].status = "paid")
    BY <1>2 DEF Prepare, PreparePayment, Batch
  <2> QED BY <1>2, <2>1 DEF TakesBackCash
<1>3. CASE job = "undoIssue"
  <2>1. b = NoBatch \/ (b.kind = "reversal" /\ b.ref = r)
    BY <1>3 DEF Prepare, PrepareReversal, Batch
  <2> QED BY <1>3, <2>1 DEF TakesBackCash
<1>4. CASE job = "undoPayment"
  <2>1. \/ b = NoBatch
        \/ /\ Posted(r, "payment") /\ b.kind = "reversal" /\ b.ref = r
           /\ b.lines = Reversed(Find(r, "payment").lines)
    BY <1>4 DEF Prepare, PrepareReversal, Batch
  <2>2. ASSUME Posted(r, "payment") PROVE Find(r, "payment").lines["cash"] = Gross[r]
    <3>1. PICK i \in DOMAIN gl : /\ gl[i].ref = r /\ gl[i].kind = "payment"
                                 /\ Find(r, "payment") = gl[i]
      BY <2>2, FindsBatch DEF CashInv, BooksInv, LedgerInv, Shape
    <3>2. gl[i].lines = PaymentLines(Gross[r])
      BY <3>1 DEF CashInv, BooksInv, LedgerInv, Accounted, WellFormed
    <3> QED BY <3>1, <3>2, CashLines
  <2>3. b = NoBatch \/ b.lines["cash"] = -Gross[r]
    BY <2>1, <2>2, CashLines
  <2> QED BY <1>4, <2>1, <2>3 DEF TakesBackCash
<1> QED BY <1>1, <1>2, <1>3, <1>4 DEF PostingJobs

LEMMA StepKeepsLedger ==
    ASSUME CashInv, Next, NEW w \in Workers, NEW x, Does(w, x)
    PROVE  LedgerTakesBack'
<1>1. PICK b : /\ gl' = IF b = NoBatch THEN gl ELSE Append(gl, b)
               /\ b # NoBatch => TakesBackCash(b)
  <2>1. CASE Inserts(w, x)
    BY <2>1 DEF Inserts, CashInv, CashSafe, FlightTakesBack, InFlight
  <2>2. CASE ~Inserts(w, x)
    BY <2>2 DEF Does, Ends, Commits, CommitRevert, Covers, Reads, GoesBack, Provides, Closes,
                Swallows, Unchanged
  <2> QED BY <2>1, <2>2
<1>2. \A i \in DOMAIN gl' : (i \in DOMAIN gl /\ gl'[i] = gl[i]) \/ (gl'[i] = b /\ b # NoBatch)
  BY <1>1, Appended DEF CashInv
<1>3. \A i \in DOMAIN gl' : TakesBackCash(gl'[i])
  BY <1>1, <1>2 DEF CashInv, CashSafe, LedgerTakesBack
<1>4. ASSUME NEW i \in DOMAIN gl', NEW c, c = gl'[i] PROVE TakesBackCash(c)'
  BY <1>3, <1>4, TakesBackStays DEF CashInv
<1> QED BY <1>4 DEF LedgerTakesBack, TakesBackCash

\* One-worker facts about the step from req[w] to x.
Moves(w, x) == /\ w \in Workers /\ Go(w, x) /\ Does(w, x)
               /\ Consistent(req[w]) /\ req[w].todo \subseteq ReceiptIds
               /\ \A v \in Workers : req'[v] = x

LEMMA StepMovesOn ==
    ASSUME BooksInv, OneAtATime, NEW w \in Workers, Step(w) \/ Crash(w)
    PROVE  \E x : Moves(w, x)
<1>1. PICK x : Go(w, x) /\ Does(w, x)
  BY StepDoes
<1>2. /\ Consistent(req[w]) /\ req[w].todo \subseteq ReceiptIds
      /\ \A v \in Workers : req'[v] = x
  BY <1>1, TheOnly, RequestFields DEF BooksInv
<1> QED BY <1>1, <1>2 DEF Moves

LEMMA StepKeepsFlight ==
    ASSUME CashInv, Next, NEW w, NEW x, Moves(w, x)
    PROVE  FlightTakesBack'
<1>1. ASSUME x.at = "insert", x.batch # NoBatch
      PROVE  /\ TakesBackCash(x.batch) /\ rcpt' = rcpt
             /\ x.batch.kind = "payment" => rcpt[x.batch.ref].status = "paid"
  <2>1. (Reads(w, x) \/ Provides(w, x) \/ Closes(w, x)) /\ rcpt' = rcpt
    BY <1>1, TakesOff DEF CashInv, Moves, Unchanged
  <2>2. CASE Reads(w, x)
    <3>1. PICK r \in ReceiptIds : /\ r \in req[w].todo /\ x.batch = Prepare(req[w].job, r)
                                  /\ req[w].at = "post"
      BY <2>2 DEF Reads
    <3>2. req[w].job \in PostingJobs /\ (req[w].job = "undoIssue" => rcpt[r].status = "void")
      BY <3>1 DEF Moves, Consistent, CashInv, CashSafe, UndoesVoid
    <3> QED BY <1>1, <2>1, <3>1, <3>2, PreparedTakesBack
  <2>3. CASE Provides(w, x) \/ Closes(w, x)
    <3>1. x.batch.kind \in {"impairment", "closing"}
      BY <1>1, <2>3 DEF Provides, Closes
    <3> QED BY <2>1, <3>1 DEF TakesBackCash
  <2> QED BY <2>1, <2>2, <2>3
<1>2. ASSUME x.at = "insert", x.batch # NoBatch
      PROVE  /\ TakesBackCash(x.batch)'
             /\ x.batch.kind = "payment" => rcpt'[x.batch.ref].status = "paid"
  BY <1>1, <1>2, TakesBackStays DEF CashInv
<1> QED BY <1>2 DEF FlightTakesBack, InFlight, Moves, TakesBackCash

LEMMA StepKeepsUndoes ==
    ASSUME CashInv, Next, NEW w, NEW x, Moves(w, x)
    PROVE  UndoesVoid'
<1>1. x.job # "reopening"
  BY DEF Moves, Consistent, CashInv, CashSafe, UndoesVoid, Does, Ends, Commits, Covers, Reads,
         GoesBack, Provides, Closes, Inserts, Swallows, At, Idle, PostEach, ToClose, Task,
         PostingJobs
<1>2. ASSUME x.job = "undoIssue"
      PROVE  req[w].job = "undoIssue" /\ x.todo \subseteq req[w].todo
  BY <1>2 DEF Moves, Does, Ends, Commits, Covers, Reads, GoesBack, Provides, Closes, Inserts,
              Swallows, At, Idle, PostEach, ToClose, Task
<1>3. ASSUME x.job = "undoIssue", NEW r \in x.todo PROVE rcpt'[r].status = "void"
  <2>1. r \in ReceiptIds /\ rcpt[r].status = "void"
    BY <1>2, <1>3 DEF Moves, CashInv, CashSafe, UndoesVoid
  <2> QED BY <2>1, VoidStays DEF CashInv
<1> QED BY <1>1, <1>3 DEF UndoesVoid, Moves

LEMMA HeldReceipt ==
    ASSUME BooksInv, NEW w \in Workers, req[w].after = "revert"
    PROVE  \E r \in ReceiptIds : req[w].held = {r} /\ rcpt[r].status = "paid"
BY DEF BooksInv, Locking

LEMMA StepKeepsReverting ==
    ASSUME CashInv, NEW w, NEW x, Moves(w, x)
    PROVE  Reverting'
<1>1. OnTheWay(req[w]) /\ BooksInv /\ w \in Workers
  BY DEF Moves, CashInv, CashSafe, Reverting
<1>2. CASE Ends(x) \/ Commits(w, x) \/ Covers(w, x)
  <2>1. x.at \in {"idle", "post", "ecl"} /\ x.after = "idle"
    BY <1>2 DEF Ends, Commits, Covers, Idle, PostEach, ToClose, Task
  <2> QED BY <2>1 DEF OnTheWay, Moves, Reverting
<1>3. CASE Reads(w, x)
  <2>1. PICK r \in ReceiptIds :
           /\ r \in req[w].todo /\ req[w].at = "post" /\ Keeps(w, x)
           /\ x.job = req[w].job /\ x.todo = req[w].todo \ {r} /\ x.batch = Prepare(req[w].job, r)
           /\ x.at = IF x.batch = NoBatch THEN "post" ELSE "insert"
    BY <1>3 DEF Reads
  <2>2. ASSUME x.after = "revert", x.at = "insert"
        PROVE  x.batch # NoBatch /\ x.batch.kind = "reversal" /\ x.held = {x.batch.ref}
    <3>1. req[w].after = "revert" /\ req[w].job = "undoPayment" /\ req[w].todo \subseteq req[w].held
      BY <1>1, <2>1, <2>2 DEF OnTheWay, Keeps
    <3>2. req[w].held = {r}
      BY <1>1, <2>1, <3>1, HeldReceipt
    <3>3. "undoPayment" \in PostingJobs
      BY DEF PostingJobs
    <3>4. x.batch # NoBatch
      BY <2>1, <2>2
    <3>5. x.batch.kind = "reversal" /\ x.batch.ref = r
      BY <2>1, <3>1, <3>3, <3>4, PreparedTakesBack
    <3> QED BY <2>1, <3>2, <3>4, <3>5 DEF Keeps
  <2>3. OnTheWay(x)
    BY <1>1, <2>1, <2>2 DEF OnTheWay, Keeps
  <2> QED BY <2>3 DEF Moves, Reverting, OnTheWay
<1>4. CASE GoesBack(w, x)
  <2>1. OnTheWay(x)
    BY <1>1, <1>4 DEF GoesBack, At, Keeps, OnTheWay, Moves, Consistent
  <2> QED BY <2>1 DEF Moves, Reverting, OnTheWay
<1>5. CASE Provides(w, x) \/ Closes(w, x)
  <2>1. x.after # "revert" /\ x.at # "revert"
    BY <1>1, <1>5 DEF Provides, Closes, Keeps, OnTheWay
  <2> QED BY <2>1 DEF Moves, Reverting, OnTheWay
<1>6. CASE Inserts(w, x) \/ Swallows(w, x)
  <2>1. CASE x = Idle
    BY <2>1 DEF Moves, Reverting, OnTheWay, Idle, Task
  <2>2. CASE x # Idle
    <3>1. /\ Keeps(w, x) /\ x.at \in {"close", "post"} /\ x.job = req[w].job
          /\ x.todo = req[w].todo /\ req[w].at = "insert"
          /\ x.at = "close" => req[w].job = "provision"
      BY <1>6, <2>2 DEF Inserts, Swallows, At
    <3>2. OnTheWay(x)
      BY <1>1, <3>1 DEF Keeps, OnTheWay
    <3> QED BY <3>2 DEF Moves, Reverting, OnTheWay
  <2> QED BY <2>1, <2>2
<1> QED BY <1>2, <1>3, <1>4, <1>5, <1>6 DEF Moves, Does

-----------------------------------------------------------------------------
\* Refunds stay refunds, and a month that is closed stays closed.
LEMMA StepKeepsClosed ==
    ASSUME CashInv, NEW w, NEW x, Moves(w, x), NoneClosed'
    PROVE  NoneClosed
<1>1. w \in Workers /\ Does(w, x) /\ req[w].job # "reopening"
  BY DEF Moves, CashInv, CashSafe, UndoesVoid
<1>2. CASE Inserts(w, x)
  BY <1>1, <1>2 DEF Inserts, NoneClosed, Months
<1>3. CASE Commits(w, x)
  BY <1>3 DEF Commits, CommitRevert, NoneClosed, Closed, Months
<1>4. CASE ~Inserts(w, x) /\ ~Commits(w, x)
  <2>1. Unchanged
    BY <1>1, <1>4 DEF Does, Ends, Covers, Reads, GoesBack, Provides, Closes, Swallows
  <2> QED BY <2>1 DEF Unchanged, NoneClosed, Months
<1> QED BY <1>2, <1>3, <1>4

LEMMA StepKeepsUnpaid ==
    ASSUME CashInv, NEW w, NEW x, Moves(w, x)
    PROVE  UnpaidIsRefunded'
<1> SUFFICES ASSUME NoneClosed', NEW r \in ReceiptIds, rcpt'[r].status # "paid"
             PROVE  Refunded(r)'
  BY DEF UnpaidIsRefunded
<1>1. NoneClosed /\ BooksInv /\ w \in Workers
  BY StepKeepsClosed DEF CashInv, Moves
<1>2. CASE Commits(w, x)
  <2>1. gl' = gl
    BY <1>2 DEF Commits, CommitRevert
  <2>2. CASE r \in req[w].held
    <3>1. req[w].at = "revert" /\ OnTheWay(req[w])
      BY <1>1, <1>2 DEF Commits, CommitRevert, CashInv, CashSafe, Reverting
    <3>2. req[w].after = "revert" /\ req[w].todo = {}
      BY <3>1 DEF OnTheWay
    <3>3. Refunded(r)
      BY <1>1, <2>2, <3>1, <3>2 DEF CashInv, CashSafe, RevertIsRefunded
    <3> QED BY <2>1, <3>3, SameRefunds
  <2>3. CASE r \notin req[w].held
    <3>1. Refunded(r)
      BY <1>1, <1>2, <2>3 DEF Commits, CommitRevert, CashInv, CashSafe, UnpaidIsRefunded
    <3> QED BY <2>1, <3>1, SameRefunds
  <2> QED BY <2>2, <2>3
<1>3. CASE Inserts(w, x)
  <2> DEFINE b == req[w].batch
  <2>1. rcpt' = rcpt /\ gl' = (IF b = NoBatch THEN gl ELSE Append(gl, b)) /\ req[w].at = "insert"
    BY <1>3 DEF Inserts
  <2>2. Refunded(r)
    BY <1>1, <2>1 DEF CashInv, CashSafe, UnpaidIsRefunded
  <2>3. ~(b.ref = r /\ b.kind = "payment")
    <3>1. b # NoBatch => (b.kind = "payment" => rcpt[b.ref].status = "paid")
      BY <1>1, <2>1 DEF CashInv, CashSafe, FlightTakesBack, InFlight
    <3>2. NoBatch.kind = "none"
      BY DEF NoBatch
    <3> QED BY <2>1, <3>1, <3>2
  <2> HIDE DEF b
  <2> QED BY <1>1, <2>1, <2>2, <2>3, RefundedStays
<1>4. CASE ~Inserts(w, x) /\ ~Commits(w, x)
  <2>1. rcpt' = rcpt /\ gl' = gl
    BY <1>4 DEF Moves, Does, Ends, Covers, Reads, GoesBack, Provides, Closes, Swallows, Unchanged
  <2>2. Refunded(r)
    BY <1>1, <2>1 DEF CashInv, CashSafe, UnpaidIsRefunded
  <2> QED BY <2>1, <2>2, SameRefunds
<1> QED BY <1>2, <1>3, <1>4

\* Taking back a payment that is not in the books takes no batch; otherwise
\* the batch that goes in, or the one found there, pays it back.
LEMMA StepKeepsRefund ==
    ASSUME CashInv, NEW w, NEW x, Moves(w, x)
    PROVE  RevertIsRefunded'
<1> SUFFICES ASSUME NoneClosed', x.after = "revert", x.at \in {"post", "revert"},
                    NEW r \in x.held \ x.todo
             PROVE  Refunded(r)'
  BY DEF RevertIsRefunded, Moves
<1>1. NoneClosed /\ BooksInv /\ w \in Workers /\ OnTheWay(req[w])
  BY StepKeepsClosed DEF CashInv, CashSafe, Reverting, Moves
<1>2. ~Ends(x) /\ ~Commits(w, x) /\ ~Covers(w, x)
  BY DEF Ends, Commits, Covers, Idle, PostEach, ToClose, Task
<1>3. ~Provides(w, x) /\ ~Closes(w, x)
  BY <1>1 DEF Provides, Closes, Keeps, OnTheWay
<1>4. req[w].after = "revert" /\ x.held = req[w].held /\ x # Idle
  BY <1>2, <1>3 DEF Moves, Does, Reads, GoesBack, Inserts, Swallows, Ends, Keeps, Idle, Task
<1>5. PICK q \in ReceiptIds : req[w].held = {q} /\ rcpt[q].status = "paid"
  BY <1>1, <1>4, HeldReceipt
<1>6. r = q
  BY <1>4, <1>5
<1>7. CASE Reads(w, x)
  <2>1. PICK p \in ReceiptIds :
           /\ p \in req[w].todo /\ req[w].at = "post" /\ x.at = "post" /\ x.batch = NoBatch
           /\ x.batch = Prepare(req[w].job, p) /\ gl' = gl
    BY <1>7 DEF Reads, Unchanged
  <2>2. p = q /\ req[w].job = "undoPayment"
    BY <1>1, <1>4, <1>5, <2>1 DEF OnTheWay
  <2>3. PrepareReversal(q, "payment") = NoBatch
    BY <2>1, <2>2 DEF Prepare
  <2>4. ~Closed(now)
    BY <1>1 DEF NoneClosed, BooksInv, LedgerInv, Shape
  <2>5. ~Posted(q, "payment")
    BY <2>3, <2>4 DEF PrepareReversal, Batch, NoBatch
  <2>6. Refunded(r)
    BY <1>6, <2>5 DEF Refunded
  <2> QED BY <2>1, <2>6, SameRefunds
<1>8. CASE GoesBack(w, x)
  <2>1. req[w].at = "post" /\ req[w].todo = {} /\ gl' = gl
    BY <1>8 DEF GoesBack, Unchanged
  <2>2. Refunded(r)
    BY <1>1, <1>4, <1>5, <1>6, <2>1 DEF CashInv, CashSafe, RevertIsRefunded
  <2> QED BY <2>1, <2>2, SameRefunds
<1>9. ASSUME req[w].at = "insert"
      PROVE  /\ req[w].batch # NoBatch /\ req[w].batch.kind = "reversal" /\ req[w].batch.ref = q
             /\ req[w].batch.lines["cash"] = -Gross[q]
  <2>1. req[w].batch # NoBatch /\ req[w].batch.kind = "reversal" /\ req[w].batch.ref = q
    BY <1>1, <1>4, <1>5, <1>9 DEF OnTheWay
  <2>2. TakesBackCash(req[w].batch)
    BY <1>1, <1>9, <2>1 DEF CashInv, CashSafe, FlightTakesBack, InFlight
  <2> QED BY <1>5, <2>1, <2>2 DEF TakesBackCash
<1>10. CASE Inserts(w, x)
  <2>1. /\ req[w].at = "insert"
        /\ gl' = IF req[w].batch = NoBatch THEN gl ELSE Append(gl, req[w].batch)
    BY <1>10 DEF Inserts
  <2>2. \E i \in DOMAIN gl' : gl'[i] = req[w].batch
    BY <1>1, <1>9, <2>1, Appended
  <2>3. PaidBack(q)'
    BY <1>9, <2>1, <2>2 DEF PaidBack
  <2> QED BY <1>6, <2>3 DEF Refunded
<1>11. CASE Swallows(w, x)
  <2>1. req[w].at = "insert" /\ Posted(req[w].batch.ref, req[w].batch.kind) /\ gl' = gl
    BY <1>11 DEF Swallows, Unchanged
  <2>2. PICK i \in DOMAIN gl : gl[i].ref = q /\ gl[i].kind = "reversal"
    BY <1>9, <2>1 DEF Posted
  <2>3. gl[i].lines["cash"] = -Gross[q]
    BY <1>5, <2>2 DEF CashInv, CashSafe, LedgerTakesBack, TakesBackCash
  <2>4. Refunded(r)
    BY <1>6, <2>2, <2>3 DEF Refunded, PaidBack
  <2> QED BY <2>1, <2>4, SameRefunds
<1> QED BY <1>2, <1>3, <1>7, <1>8, <1>10, <1>11 DEF Moves, Does

LEMMA CashInductive ==
    ASSUME OneAtATime, "reopen" \notin Ops
    PROVE  (Init => CashInv) /\ (CashInv /\ [Next]_vars => CashInv')
<1>1. Init => CashInv
  <2>1. Init => CashSafe
    BY DEF Init, CashSafe, LedgerTakesBack, FlightTakesBack, UndoesVoid, Reverting, OnTheWay,
           UnpaidIsRefunded, RevertIsRefunded, Refunded, Posted, InFlight, Idle, Task
  <2> QED BY <2>1, BooksInductive DEF CashInv
<1>2. ASSUME CashInv, [Next]_vars PROVE CashInv'
  <2>1. BooksInv'
    BY <1>2, BooksInductive DEF CashInv
  <2>2. ASSUME NextMonth \/ UNCHANGED vars PROVE CashSafe'
    <3>1. /\ period' = period /\ rcpt' = rcpt /\ gl' = gl /\ req' = req
      BY <2>2 DEF NextMonth, vars
    <3>2. LedgerTakesBack' /\ FlightTakesBack' /\ UndoesVoid' /\ Reverting'
      BY <1>2, <3>1 DEF CashInv, CashSafe, LedgerTakesBack, FlightTakesBack, UndoesVoid,
                        Reverting, OnTheWay, InFlight, TakesBackCash
    <3>3. UnpaidIsRefunded' /\ RevertIsRefunded'
      BY <1>2, <3>1 DEF CashInv, CashSafe, UnpaidIsRefunded, RevertIsRefunded, Refunded, Posted,
                        PaidBack, NoneClosed, Closed, Months
    <3> QED BY <3>2, <3>3 DEF CashSafe
  <2>3. ASSUME NEW w \in Workers, Step(w) \/ Crash(w), Next PROVE CashSafe'
    <3>1. PICK x : Moves(w, x)
      BY <1>2, <2>3, StepMovesOn DEF CashInv
    <3>2. Does(w, x)
      BY <3>1 DEF Moves
    <3> QED BY <1>2, <2>3, <3>1, <3>2, StepKeepsLedger, StepKeepsFlight, StepKeepsUndoes,
               StepKeepsReverting, StepKeepsUnpaid, StepKeepsRefund DEF CashSafe
  <2>4. CashSafe'
    BY <1>2, <2>2, <2>3, BeginKeepsCash DEF Next
  <2> QED BY <2>1, <2>4 DEF CashInv
<1> QED BY <1>1, <1>2

-----------------------------------------------------------------------------
\* The cash of a receipt that has been paid back, or never paid, adds up to 0.
LEMMA NothingLeft ==
    ASSUME BooksInv, NEW r \in ReceiptIds, Refunded(r)
    PROVE  CashOf(r) = 0
<1> DEFINE I == {i \in DOMAIN gl : gl[i].ref = r}
           f == [i \in I |-> gl[i].lines["cash"]]
<1>1. IsFiniteSet(I)
  <2>1. IsFiniteSet(1 .. Len(gl)) /\ DOMAIN gl = 1 .. Len(gl)
    BY FS_Interval DEF BooksInv, LedgerInv, Shape
  <2> QED BY <2>1, FS_Subset
<1>2. ASSUME NEW i \in I PROVE f[i] \in Int
  BY DEF BooksInv, SoundBatches, SoundBatch, BatchType, Lines, Accounts
<1>3. CashOf(r) = SumFunctionOnSet(f, I)
  BY DEF CashOf, BalanceOf
<1>4. LedgerInv /\ Gross[r] \in Nat
  BY AmountAssumption DEF BooksInv
<1>5. ASSUME NEW i \in I
      PROVE  \/ f[i] = 0
             \/ gl[i].kind = "payment" /\ f[i] = Gross[r]
             \/ /\ gl[i].kind = "reversal" /\ f[i] = -Gross[r] /\ Gross[r] # 0
                /\ \E j \in I : f[j] = Gross[r]
  <2>1. i \in DOMAIN gl /\ f[i] = gl[i].lines["cash"] /\ gl[i].ref = r
    OBVIOUS
  <2>2. ASSUME NEW j \in 1 .. i - 1, gl[j].ref = r PROVE j \in I /\ f[j] = gl[j].lines["cash"]
    <3>1. DOMAIN gl = 1 .. Len(gl) /\ Len(gl) \in Nat
      BY DEF BooksInv, LedgerInv, Shape
    <3> QED BY <2>1, <2>2, <3>1
  <2> HIDE DEF f, I
  <2> QED BY <1>4, <2>1, <2>2, CashOfBatch
<1>6. ASSUME NEW i \in I, NEW j \in I, gl[i].kind = gl[j].kind PROVE i = j
  BY <1>6 DEF BooksInv, LedgerInv, PostedOnce
<1>7. CASE ~Posted(r, "payment")
  <2>1. \A i \in I : gl[i].kind # "payment"
    BY <1>7 DEF Posted
  <2> HIDE DEF f
  <2>2. ASSUME NEW i \in I PROVE f[i] = 0
    BY <1>4, <1>5, <2>1
  <2> HIDE DEF I
  <2>3. SumFunctionOnSet(f, I) = SumFunctionOnSet(f, {})
    BY <1>1, <1>2, <2>2, SumOverSupport
  <2> QED BY <1>3, <2>3, SumOverNone
<1>8. CASE Posted(r, "payment")
  <2>1. PICK p \in I : gl[p].kind = "payment"
    BY <1>8 DEF Posted
  <2>2. PICK k \in I : gl[k].kind = "reversal" /\ f[k] = -Gross[r]
    BY <1>8 DEF Refunded, PaidBack
  <2>3. f[p] = Gross[r]
    <3>1. gl[p].lines = PaymentLines(Gross[r])
      BY <2>1 DEF BooksInv, LedgerInv, Accounted, WellFormed
    <3> QED BY <3>1, CashLines
  <2> DEFINE R == {p, k}
  <2>4. R \in SUBSET I /\ IsFiniteSet(R) /\ p # k /\ R \ {p} = {k} /\ {k} \ {k} = {}
    <3>1. R \in SUBSET I /\ p # k /\ R \ {p} = {k} /\ {k} \ {k} = {}
      BY <2>1, <2>2
    <3> HIDE DEF R, I
    <3> QED BY <1>1, <3>1, FS_Subset
  <2>5. ASSUME NEW i \in I \ R PROVE f[i] = 0
    <3>1. gl[i].kind # "payment" /\ gl[i].kind # "reversal"
      BY <1>6, <2>1, <2>2
    <3> HIDE DEF f
    <3> QED BY <1>5, <3>1
  <2> HIDE DEF f, I, R
  <2>6. SumFunctionOnSet(f, I) = SumFunctionOnSet(f, R)
    BY <1>1, <1>2, <2>4, <2>5, SumOverSupport
  <2>7. SumFunctionOnSet(f, R) = f[p] + SumFunctionOnSet(f, {k})
    <3>1. p \in R /\ \A i \in R : f[i] \in Int
      BY <1>2, <2>4 DEF R
    <3>2. SumFunctionOnSet(f, R) = f[p] + SumFunctionOnSet(f, R \ {p})
      BY <2>4, <3>1, SumFromAny
    <3> QED BY <2>4, <3>2
  <2>8. SumFunctionOnSet(f, {k}) = f[k] + SumFunctionOnSet(f, {})
    <3>1. IsFiniteSet({k}) /\ \A i \in {k} : f[i] \in Int
      BY <1>2, FS_Singleton
    <3>2. SumFunctionOnSet(f, {k}) = f[k] + SumFunctionOnSet(f, {k} \ {k})
      BY <3>1, SumFromAny
    <3> QED BY <2>4, <3>2
  <2> QED BY <1>3, <1>4, <2>2, <2>3, <2>6, <2>7, <2>8, SumOverNone
<1> QED BY <1>7, <1>8

\* While no month is closed, a receipt that is not paid has no cash in the
\* books, wherever mark_paid or revert_paid died and however often they ran.
THEOREM UnpaidHasNoCash ==
    ASSUME OneAtATime, "reopen" \notin Ops
    PROVE  Spec => []NoCashWithoutPayment
<1>1. (Init => CashInv) /\ (CashInv /\ [Next]_vars => CashInv')
  BY CashInductive
<1>2. CashInv => NoCashWithoutPayment
  BY NothingLeft DEF CashInv, CashSafe, UnpaidIsRefunded, NoneClosed, NoCashWithoutPayment
<1> QED BY <1>1, <1>2, PTL DEF Spec
=============================================================================
