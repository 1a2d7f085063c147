-------------------------- MODULE BillingGL_proofs --------------------------
(***************************************************************************)
(* Theorems about module BillingGL, for every set of receipts and workers, *)
(* all amounts, any number of months and any set of handlers.              *)
(*                                                                         *)
(* The amounts of impairment and closing batches are sums over the ledger. *)
(* LedgerInv does not depend on their value: it leaves open in which set   *)
(* the batches lie (the B below) and says instead how each batch came      *)
(* about (WellFormed).  BooksInv adds what the sums are.                   *)
(***************************************************************************)
EXTENDS BillingGL, SumTheorems

PostingJobs == {"issue", "payment", "accrual", "undoIssue", "undoPayment"}

RequestOver(B) ==
    [at : Places, job : Jobs, todo : SUBSET ReceiptIds, batch : B, after : Places,
     month : 0 .. LastMonth, saw : {"none", "open", "closed"}, held : SUBSET ReceiptIds]

\* What the place of a request says of its other fields.
Consistent(x) ==
    /\ x.at = "post" => x.job \in PostingJobs
    /\ x.at = "insert" => x.job # "none"
    /\ x.after \in {"idle", "revert", "coverage"}
    /\ x.at \in {"coverage", "ecl", "close"} \/ x.after = "coverage" \/ x.job = "provision"
         => x.month \in Months

Shape == /\ now \in Months
         /\ period \in [Months -> {"none", "open", "closed"}]
         /\ rcpt \in [ReceiptIds -> ReceiptType]
         /\ \E B : gl \in Seq(B) /\ req \in [Workers -> RequestOver(B)]
         /\ \A w \in Workers : Consistent(req[w])

\* How a batch b came about; a reversal takes back one of the first n of L.
Undoes(b, n, L) == \E j \in 1 .. n : /\ L[j].ref = b.ref
                                     /\ L[j].kind \in {"issue", "payment", "closing"}
                                     /\ b.lines = Reversed(L[j].lines)
WellFormed(b, n, L) ==
    \/ b.kind = "issue" /\ \E ca \in BOOLEAN : b.lines = IssueLines(Gross[b.ref], Net[b.ref], ca)
    \/ b.kind = "payment" /\ Gross[b.ref] \in Nat \ {0} /\ b.lines = PaymentLines(Gross[b.ref])
    \/ b.kind = "accrual" /\ b.lines \in {NoLines, AccrualLines(Net[b.ref])}
    \/ b.kind = "impairment" /\ \E dAr, dCa : b.lines = ImpairmentLines(dAr, dCa)
    \/ b.kind = "closing" /\ \E bal : b.lines = ClosingLines(bal)
    \/ b.kind = "reversal" /\ Undoes(b, n, L)

PostedOnce == \A i, j \in DOMAIN gl :
                 gl[i].ref = gl[j].ref /\ gl[i].kind = gl[j].kind => i = j
Accounted == \A i \in DOMAIN gl : WellFormed(gl[i], i - 1, gl)
Prepared == \A w \in Workers : req[w].batch = NoBatch \/ WellFormed(req[w].batch, Len(gl), gl)

LedgerInv == Shape /\ PostedOnce /\ Accounted /\ Prepared

-----------------------------------------------------------------------------
\* What the lines of a well-formed batch do to cash.
LEMMA CashLines ==
    /\ \A g, n, ca : IssueLines(g, n, ca)["cash"] = 0
    /\ \A n : AccrualLines(n)["cash"] = 0
    /\ \A x, y : ImpairmentLines(x, y)["cash"] = 0
    /\ \A bal : ClosingLines(bal)["cash"] = 0
    /\ \A g : PaymentLines(g)["cash"] = g
    /\ NoLines["cash"] = 0
    /\ \A l : Reversed(l)["cash"] = -l["cash"]
BY DEF IssueLines, AccrualLines, ImpairmentLines, ClosingLines, PaymentLines, NoLines,
       Reversed, Accounts

LEMMA CashOfBatch ==
    ASSUME LedgerInv, NEW i \in DOMAIN gl
    PROVE  \/ gl[i].lines["cash"] = 0
           \/ /\ gl[i].kind = "payment" /\ Gross[gl[i].ref] \in Nat \ {0}
              /\ gl[i].lines["cash"] = Gross[gl[i].ref]
           \/ /\ gl[i].kind = "reversal" /\ Gross[gl[i].ref] \in Nat \ {0}
              /\ gl[i].lines["cash"] = -Gross[gl[i].ref]
              /\ \E j \in 1 .. i - 1 : /\ gl[j].ref = gl[i].ref
                                       /\ gl[j].lines["cash"] = Gross[gl[i].ref]
<1>1. CASE gl[i].kind # "reversal"
  BY <1>1, CashLines DEF LedgerInv, Accounted, WellFormed
<1>2. CASE gl[i].kind = "reversal"
  <2>1. PICK j \in 1 .. i - 1 : /\ gl[j].ref = gl[i].ref
                                /\ gl[j].kind \in {"issue", "payment", "closing"}
                                /\ gl[i].lines = Reversed(gl[j].lines)
    BY <1>2 DEF LedgerInv, Accounted, WellFormed, Undoes
  <2>2. j \in DOMAIN gl
    BY DEF LedgerInv, Shape
  <2>3. \/ gl[j].lines["cash"] = 0
        \/ Gross[gl[j].ref] \in Nat \ {0} /\ gl[j].lines["cash"] = Gross[gl[j].ref]
    BY <2>1, <2>2, CashLines DEF LedgerInv, Accounted, WellFormed
  <2>4. gl[i].lines["cash"] = -gl[j].lines["cash"]
    BY <2>1, CashLines
  <2> QED BY <1>2, <2>1, <2>3, <2>4
<1> QED BY <1>1, <1>2

\* The invariant implies the two properties of the ledger.
LEMMA CashFromInv == LedgerInv => CashMovesOnce
<1> SUFFICES ASSUME LedgerInv, NEW i \in DOMAIN gl, gl[i].lines["cash"] # 0
             PROVE  /\ \A j \in DOMAIN gl : gl[j].ref = gl[i].ref
                          /\ gl[j].lines["cash"] = gl[i].lines["cash"] => j = i
                    /\ gl[i].lines["cash"] > 0 => gl[i].lines["cash"] = Gross[gl[i].ref]
                    /\ gl[i].lines["cash"] < 0 => \E j \in 1 .. i - 1 :
                          gl[j].ref = gl[i].ref /\ gl[j].lines["cash"] = -gl[i].lines["cash"]
  <2>1. ASSUME LedgerInv, NEW i \in DOMAIN gl, gl[i].lines["cash"] = 0
        PROVE  ~(gl[i].lines["cash"] > 0) /\ ~(gl[i].lines["cash"] < 0)
    BY <2>1
  <2> QED BY <2>1 DEF CashMovesOnce
<1>1. ASSUME NEW j \in DOMAIN gl, gl[j].ref = gl[i].ref, gl[j].lines["cash"] = gl[i].lines["cash"]
      PROVE  j = i
  <2>1. gl[j].kind = gl[i].kind
    BY <1>1, CashOfBatch
  <2> QED BY <1>1, <2>1 DEF LedgerInv, PostedOnce
<1> QED BY <1>1, CashOfBatch

LEMMA ReversalsFromInv == LedgerInv => ReversalsUndoOneBatch
BY DEF LedgerInv, Accounted, PostedOnce, WellFormed, Undoes, ReversalsUndoOneBatch

-----------------------------------------------------------------------------
\* What a posting function prepares is well formed.

LEMMA FindsBatch ==
    ASSUME LedgerInv, NEW ref, NEW kind, Posted(ref, kind)
    PROVE  \E i \in 1 .. Len(gl) : gl[i].ref = ref /\ gl[i].kind = kind /\ Find(ref, kind) = gl[i]
<1> DEFINE P(i) == gl[i].ref = ref /\ gl[i].kind = kind
<1>1. \E i \in DOMAIN gl : P(i)
  BY DEF Posted
<1>2. PICK i \in DOMAIN gl : i = (CHOOSE k \in DOMAIN gl : P(k)) /\ P(i)
  BY <1>1
<1>3. Find(ref, kind) = gl[i] /\ DOMAIN gl = 1 .. Len(gl)
  BY <1>2 DEF Find, LedgerInv, Shape
<1> QED BY <1>2, <1>3

LEMMA PrepareWellFormed ==
    ASSUME LedgerInv, NEW r \in ReceiptIds, NEW job \in PostingJobs
    PROVE  Prepare(job, r) = NoBatch \/ WellFormed(Prepare(job, r), Len(gl), gl)
<1>1. PrepareIssue(r) = NoBatch \/ WellFormed(PrepareIssue(r), Len(gl), gl)
  BY DEF PrepareIssue, Batch, WellFormed
<1>2. PreparePayment(r) = NoBatch \/ WellFormed(PreparePayment(r), Len(gl), gl)
  BY AmountAssumption DEF PreparePayment, Batch, WellFormed
<1>3. PrepareAccrual(r) = NoBatch \/ WellFormed(PrepareAccrual(r), Len(gl), gl)
  BY DEF PrepareAccrual, Batch, WellFormed
<1>4. ASSUME NEW kind \in {"issue", "payment"}
      PROVE  PrepareReversal(r, kind) = NoBatch \/ WellFormed(PrepareReversal(r, kind), Len(gl), gl)
  BY FindsBatch DEF PrepareReversal, Batch, WellFormed, Undoes
<1>5. \/ Prepare(job, r) = PrepareIssue(r) \/ Prepare(job, r) = PreparePayment(r)
      \/ Prepare(job, r) = PrepareAccrual(r)
      \/ \E kind \in {"issue", "payment"} : Prepare(job, r) = PrepareReversal(r, kind)
  BY DEF Prepare, PostingJobs
<1> QED BY <1>1, <1>2, <1>3, <1>4, <1>5

-----------------------------------------------------------------------------
\* A step that leaves the ledger alone and moves worker w to request x.
Sound(x) == /\ x \in RequestOver({x.batch})
            /\ x.batch = NoBatch \/ WellFormed(x.batch, Len(gl), gl)
            /\ Consistent(x)
Tables == /\ now \in Months
          /\ period \in [Months -> {"none", "open", "closed"}]
          /\ rcpt \in [ReceiptIds -> ReceiptType]

LEMMA OverLarger ==
    ASSUME NEW B, NEW C, B \subseteq C
    PROVE  RequestOver(B) \subseteq RequestOver(C) /\ Seq(B) \subseteq Seq(C)
<1>1. RequestOver(B) \subseteq RequestOver(C)
  BY DEF RequestOver
<1>2. Seq(B) \subseteq Seq(C)
  OBVIOUS
<1> QED BY <1>1, <1>2

LEMMA GoKeeps ==
    ASSUME LedgerInv, NEW w \in Workers, NEW x, Go(w, x), Sound(x), gl' = gl, Tables'
    PROVE  LedgerInv'
<1>1. PICK B : gl \in Seq(B) /\ req \in [Workers -> RequestOver(B)]
  BY DEF LedgerInv, Shape
<1>2. gl \in Seq(B \cup {x.batch}) /\ RequestOver(B) \subseteq RequestOver(B \cup {x.batch})
      /\ x \in RequestOver(B \cup {x.batch})
  BY <1>1, OverLarger DEF Sound
<1>3. req' \in [Workers -> RequestOver(B \cup {x.batch})]
  BY <1>1, <1>2 DEF Go
<1>4. \A v \in Workers : req'[v] = IF v = w THEN x ELSE req[v]
  BY <1>1 DEF Go
<1>5. Shape'
  <2>1. \E C : gl' \in Seq(C) /\ req' \in [Workers -> RequestOver(C)]
    BY <1>2, <1>3
  <2>2. \A v \in Workers : Consistent(req'[v])
    BY <1>4 DEF LedgerInv, Shape, Sound
  <2> QED BY <2>1, <2>2 DEF Shape, Tables, Consistent, Months
<1>6. PostedOnce' /\ Accounted'
  BY DEF LedgerInv, PostedOnce, Accounted, WellFormed, Undoes
<1>7. Prepared'
  BY <1>4 DEF LedgerInv, Prepared, Sound, WellFormed, Undoes
<1> QED BY <1>5, <1>6, <1>7 DEF LedgerInv

\* The fields of a worker's request.
LEMMA RequestFields ==
    ASSUME LedgerInv, NEW w \in Workers
    PROVE  /\ req[w] \in RequestOver({req[w].batch})
           /\ req[w].batch = NoBatch \/ WellFormed(req[w].batch, Len(gl), gl)
           /\ Consistent(req[w])
           /\ req[w].todo \subseteq ReceiptIds /\ req[w].held \subseteq ReceiptIds
BY DEF LedgerInv, Shape, Prepared, RequestOver

LEMMA TaskSound ==
    ASSUME NEW at \in Places, NEW job \in Jobs, NEW R \in SUBSET ReceiptIds,
           NEW after \in {"idle", "revert", "coverage"}, NEW m \in 0 .. LastMonth,
           at = "post" => job \in PostingJobs,
           at = "insert" => job # "none",
           at \in {"coverage", "ecl", "close"} \/ after = "coverage" \/ job = "provision"
             => m \in Months
    PROVE  Sound(Task(at, job, R, after, m))
BY DEF Sound, Task, RequestOver, Consistent, Places

LEMMA IdleSound == Sound(Idle)
BY MonthAssumption, TaskSound DEF Idle, Places, Jobs

LEMMA PostEachSound ==
    ASSUME NEW job \in PostingJobs, NEW R \in SUBSET ReceiptIds, NEW after \in {"idle", "revert"}
    PROVE  Sound(PostEach(job, R, after))
<1>1. job \in Jobs /\ job # "provision" /\ "post" \in Places /\ 0 \in 0 .. LastMonth
  BY MonthAssumption DEF Places, Jobs, PostingJobs
<1> QED BY <1>1, TaskSound DEF PostEach

LEMMA ToCloseSound == ASSUME NEW m \in Months PROVE Sound(ToClose(m))
BY MonthAssumption, TaskSound DEF ToClose, Places, Jobs, Months

\* The same for a worker that leaves the tables alone as well.
LEMMA QuietKeeps ==
    ASSUME LedgerInv, NEW w \in Workers, NEW x, Go(w, x), Sound(x), UNCHANGED <<now, period, rcpt, gl>>
    PROVE  LedgerInv'
<1>1. Tables'
  BY DEF LedgerInv, Shape, Tables
<1> QED BY <1>1, GoKeeps

-----------------------------------------------------------------------------
\* The steps that begin a handler.

LEMMA CreateReceiptKeeps ==
    ASSUME LedgerInv, NEW w \in Workers, NEW r \in ReceiptIds, NEW m \in Months,
           NEW monthly \in BOOLEAN, CreateReceipt(w, r, m, monthly)
    PROVE  LedgerInv'
<1>1. Sound(PostEach("issue", {r}, "idle"))
  BY PostEachSound DEF PostingJobs, Places
<1>2. Tables'
  BY MonthAssumption DEF CreateReceipt, LedgerInv, Shape, Tables, ReceiptType, Months
<1> QED BY <1>1, <1>2, GoKeeps DEF CreateReceipt

LEMMA MarkPaidKeeps ==
    ASSUME LedgerInv, NEW w \in Workers, NEW r \in ReceiptIds, MarkPaid(w, r)
    PROVE  LedgerInv'
<1>1. Sound(PostEach("payment", {r}, "idle"))
  BY PostEachSound DEF PostingJobs, Places
<1>2. Tables'
  <2>1. now \in 0 .. LastMonth /\ rcpt \in [ReceiptIds -> ReceiptType]
    BY MonthAssumption DEF LedgerInv, Shape, Months
  <2> DEFINE paid == [rcpt[r] EXCEPT !.status = "paid", !.paidAt = now]
  <2>2. paid \in ReceiptType
    BY <2>1 DEF ReceiptType
  <2>3. rcpt' \in [ReceiptIds -> ReceiptType]
    <3>1. CASE rcpt[r].status = "paid"
      BY <2>1, <3>1 DEF MarkPaid
    <3>2. CASE rcpt[r].status # "paid"
      <4>1. rcpt' = [rcpt EXCEPT ![r] = paid]
        BY <2>1, <3>2 DEF MarkPaid, ReceiptType
      <4> QED BY <2>1, <2>2, <4>1
    <3> QED BY <3>1, <3>2
  <2> QED BY <2>3 DEF MarkPaid, LedgerInv, Shape, Tables
<1> QED BY <1>1, <1>2, GoKeeps DEF MarkPaid

LEMMA RevertsKeep ==
    ASSUME LedgerInv, NEW w \in Workers, NEW r \in ReceiptIds,
           RevertPending(w, r) \/ RevertPaid(w, r)
    PROVE  LedgerInv'
<1>1. Sound(PostEach("undoPayment", {r}, "idle"))
  BY PostEachSound DEF PostingJobs, Places
<1>2. Sound([PostEach("undoPayment", {r}, "revert") EXCEPT !.held = {r}])
  <2>1. Sound(PostEach("undoPayment", {r}, "revert"))
    BY PostEachSound DEF PostingJobs, Places
  <2> QED BY <2>1 DEF Sound, PostEach, Task, RequestOver, Consistent
<1> QED BY <1>1, <1>2, QuietKeeps DEF RevertPending, RevertPaid

LEMMA CommitRevertKeeps ==
    ASSUME LedgerInv, NEW w \in Workers, CommitRevert(w)
    PROVE  LedgerInv'
<1>1. Sound(PostEach("undoPayment", req[w].held, "idle"))
  BY PostEachSound, RequestFields DEF PostingJobs, Places
<1>2. Tables'
  <2>1. rcpt \in [ReceiptIds -> ReceiptType] /\ 0 \in 0 .. LastMonth
    BY MonthAssumption DEF LedgerInv, Shape
  <2>2. ASSUME NEW r \in ReceiptIds
        PROVE  [rcpt[r] EXCEPT !.status = "pending", !.paidAt = 0] \in ReceiptType
    BY <2>1 DEF ReceiptType
  <2>3. rcpt' \in [ReceiptIds -> ReceiptType]
    BY <2>1, <2>2 DEF CommitRevert
  <2> QED BY <2>3 DEF CommitRevert, LedgerInv, Shape, Tables
<1> QED BY <1>1, <1>2, GoKeeps DEF CommitRevert

LEMMA BulkVoidKeeps ==
    ASSUME LedgerInv, NEW w \in Workers, NEW m \in Months, BulkVoid(w, m)
    PROVE  LedgerInv'
<1> DEFINE Pending == {r \in {q \in ReceiptIds : rcpt[q].monthly /\ rcpt[q].service = m} :
                           rcpt[r].status = "pending"}
<1>1. Sound(PostEach("undoIssue", Pending, "idle"))
  BY PostEachSound DEF PostingJobs, Places
<1>2. Tables'
  BY DEF BulkVoid, LedgerInv, Shape, Tables, ReceiptType
<1> QED BY <1>1, <1>2, GoKeeps DEF BulkVoid

LEMMA ClosesKeep ==
    ASSUME LedgerInv, NEW w \in Workers, NEW m \in Months, UiClose(w, m) \/ CloseEndpoint(w, m)
    PROVE  LedgerInv'
<1>1. ASSUME NEW R \in SUBSET ReceiptIds PROVE Sound(Task("post", "accrual", R, "coverage", m))
  <2>1. /\ m \in 0 .. LastMonth /\ "post" \in Places /\ "coverage" \in Places
        /\ "accrual" \in Jobs /\ "accrual" \in PostingJobs
    BY MonthAssumption DEF Months, Places, Jobs, PostingJobs
  <2> QED BY <2>1, TaskSound
<1>2. CASE UiClose(w, m)
  <2> DEFINE R == IF Closed(m) THEN {} ELSE {r \in ReceiptIds : Exists(r) /\ rcpt[r].service = m}
  <2>1. R \in SUBSET ReceiptIds
    OBVIOUS
  <2> QED BY <1>1, <1>2, <2>1, QuietKeeps DEF UiClose
<1>3. CASE CloseEndpoint(w, m)
  BY <1>3, ToCloseSound, QuietKeeps DEF CloseEndpoint
<1> QED BY <1>2, <1>3

LEMMA ReopenKeeps ==
    ASSUME LedgerInv, NEW w \in Workers, NEW m \in Months, Reopen(w, m)
    PROVE  LedgerInv'
<1> DEFINE b == IF Posted(m, "closing")
                THEN Batch(m, "reversal", now, Reversed(Find(m, "closing").lines)) ELSE NoBatch
           x == [Task("insert", "reopening", {}, "idle", m) EXCEPT !.batch = b]
<1>1. b = NoBatch \/ WellFormed(b, Len(gl), gl)
  BY FindsBatch DEF Batch, WellFormed, Undoes
<1>2. Sound(Task("insert", "reopening", {}, "idle", m))
  BY TaskSound, MonthAssumption DEF Places, Jobs, Months
<1> HIDE DEF b
<1>3. /\ x \in RequestOver({b}) /\ x.batch = b /\ x.at = "insert"
      /\ x.job = "reopening" /\ x.after = "idle"
  BY <1>2 DEF Sound, Task, RequestOver
<1>4. Sound(x)
  BY <1>1, <1>3 DEF Sound, Consistent
<1>5. Go(w, x)
  BY DEF Reopen, b
<1> QED BY <1>4, <1>5, QuietKeeps DEF Reopen

LEMMA BootstrapKeeps ==
    ASSUME LedgerInv, NEW w \in Workers, Bootstrap(w)
    PROVE  LedgerInv'
<1>1. period' \in [Months -> {"none", "open", "closed"}]
  BY DEF Bootstrap, LedgerInv, Shape
<1> QED BY <1>1 DEF Bootstrap, LedgerInv, Shape, PostedOnce, Accounted, Prepared, WellFormed, Undoes

-----------------------------------------------------------------------------
\* The steps of a handler that is under way.

LEMMA CheckCoverageKeeps ==
    ASSUME LedgerInv, NEW w \in Workers, CheckCoverage(w)
    PROVE  LedgerInv'
<1>1. Sound(ToClose(req[w].month)) /\ Sound(Idle)
  BY ToCloseSound, IdleSound, RequestFields DEF CheckCoverage, Consistent
<1>2. \E x \in {Idle, ToClose(req[w].month)} : Go(w, x)
  BY DEF CheckCoverage
<1> QED BY <1>1, <1>2, QuietKeeps DEF CheckCoverage

LEMMA ReadForPostingKeeps ==
    ASSUME LedgerInv, NEW w \in Workers, NEW r \in ReceiptIds, ReadForPosting(w, r)
    PROVE  LedgerInv'
<1> DEFINE b == Prepare(req[w].job, r)
           at == IF b = NoBatch THEN "post" ELSE "insert"
           x == [req[w] EXCEPT !.at = at, !.batch = b, !.todo = @ \ {r}]
<1>1. req[w].job \in PostingJobs
  BY DEF ReadForPosting, LedgerInv, Shape, Consistent
<1>2. b = NoBatch \/ WellFormed(b, Len(gl), gl)
  BY <1>1, PrepareWellFormed
<1>3. req[w] \in RequestOver({req[w].batch})
  BY RequestFields
<1>4. at \in {"post", "insert"} /\ at \in Places
  BY DEF Places
<1> HIDE DEF b, at
<1>5. /\ x \in RequestOver({b}) /\ x.batch = b /\ x.job = req[w].job /\ x.at = at
      /\ x.after = req[w].after /\ x.month = req[w].month
  BY <1>3, <1>4 DEF RequestOver
<1>6. Consistent(req[w])
  BY RequestFields
<1>9. Sound(x)
  BY <1>1, <1>2, <1>4, <1>5, <1>6 DEF Sound, Consistent, PostingJobs
<1>7. Tables'
  BY DEF ReadForPosting, EnsurePeriod, LedgerInv, Shape, Tables
<1>8. Go(w, x) /\ gl' = gl
  BY DEF ReadForPosting, b, at
<1> QED BY <1>9, <1>7, <1>8, GoKeeps

LEMMA DonePostingKeeps ==
    ASSUME LedgerInv, NEW w \in Workers, DonePosting(w)
    PROVE  LedgerInv'
<1> DEFINE x == [req[w] EXCEPT !.at = req[w].after, !.job = "none"]
<1>1. /\ req[w] \in RequestOver({req[w].batch}) /\ Consistent(req[w])
      /\ req[w].batch = NoBatch \/ WellFormed(req[w].batch, Len(gl), gl)
  BY RequestFields
<1>2. /\ x \in RequestOver({req[w].batch}) /\ x.batch = req[w].batch
      /\ x.at = req[w].after /\ x.after = req[w].after /\ x.month = req[w].month
      /\ x.job = "none"
  BY <1>1 DEF RequestOver, Jobs
<1>3. Consistent(x)
  BY <1>1, <1>2 DEF Consistent
<1>4. Sound(x)
  BY <1>1, <1>2, <1>3 DEF Sound
<1>5. Go(w, Idle) \/ Go(w, x)
  BY DEF DonePosting
<1> QED BY <1>4, <1>5, IdleSound, QuietKeeps DEF DonePosting

LEMMA ReadProvisionKeeps ==
    ASSUME LedgerInv, NEW w \in Workers, ReadProvision(w)
    PROVE  LedgerInv'
<1> DEFINE m == req[w].month
           dAr == Delta("ar", "alwAr", m)
           dCa == Delta("ca", "alwCa", m)
           b == IF (dAr = 0 /\ dCa = 0) \/ Closed(m) THEN NoBatch
                ELSE Batch(m, "impairment", m, ImpairmentLines(dAr, dCa))
           at == IF b = NoBatch THEN "close" ELSE "insert"
           x == [req[w] EXCEPT !.at = at, !.job = "provision", !.batch = b]
<1>1. b = NoBatch \/ WellFormed(b, Len(gl), gl)
  BY DEF WellFormed, Batch
<1>2. req[w] \in RequestOver({req[w].batch}) /\ Consistent(req[w]) /\ req[w].at = "ecl"
  BY RequestFields DEF ReadProvision
<1>3. at \in {"close", "insert"} /\ at \in Places
  BY DEF Places
<1>4. Go(w, x)
  BY DEF ReadProvision
<1> HIDE DEF b, at
<1>5. /\ x \in RequestOver({b}) /\ x.batch = b /\ x.at = at
      /\ x.after = req[w].after /\ x.month = req[w].month /\ x.job = "provision"
  BY <1>2, <1>3 DEF RequestOver, Jobs
<1>6. Consistent(x)
  BY <1>2, <1>3, <1>5 DEF Consistent
<1>7. Sound(x)
  BY <1>1, <1>5, <1>6 DEF Sound
<1> QED BY <1>4, <1>7, QuietKeeps DEF ReadProvision

LEMMA ReadForClosingKeeps ==
    ASSUME LedgerInv, NEW w \in Workers, ReadForClosing(w)
    PROVE  LedgerInv'
<1> DEFINE m == req[w].month
           I == {i \in DOMAIN gl : gl[i].period = m /\ gl[i].kind # "closing"}
           b == IF I = {} THEN NoBatch
                ELSE Batch(m, "closing", m, ClosingLines([a \in Accounts |-> BalanceOf(a, I)]))
           x == [req[w] EXCEPT !.at = "insert", !.job = "closing", !.saw = period[m], !.batch = b]
<1>1. b = NoBatch \/ WellFormed(b, Len(gl), gl)
  BY DEF WellFormed, Batch
<1>2. /\ req[w] \in RequestOver({req[w].batch}) /\ Consistent(req[w])
      /\ period[m] \in {"none", "open", "closed"}
  BY RequestFields DEF ReadForClosing, LedgerInv, Shape, Consistent
<1>3. Go(w, Idle) \/ Go(w, x)
  BY DEF ReadForClosing
<1> HIDE DEF b
<1>4. /\ x \in RequestOver({b}) /\ x.batch = b /\ x.at = "insert"
      /\ x.after = req[w].after /\ x.month = req[w].month /\ x.job = "closing"
  BY <1>2 DEF RequestOver, Jobs, Places
<1>5. Consistent(x)
  BY <1>2, <1>4 DEF Consistent
<1>6. Sound(x)
  BY <1>1, <1>4, <1>5 DEF Sound
<1> QED BY <1>3, <1>6, IdleSound, QuietKeeps DEF ReadForClosing

LEMMA InsertFailsKeeps ==
    ASSUME LedgerInv, NEW w \in Workers, InsertFails(w)
    PROVE  LedgerInv'
<1> DEFINE x == [req[w] EXCEPT !.at = "post", !.batch = NoBatch]
<1>1. req[w] \in RequestOver({req[w].batch}) /\ Consistent(req[w])
  BY RequestFields
<1>2. /\ x \in RequestOver({NoBatch}) /\ x.batch = NoBatch /\ x.at = "post"
      /\ x.after = req[w].after /\ x.month = req[w].month /\ x.job = req[w].job
  BY <1>1 DEF RequestOver, Places
<1>3. CASE req[w].job \in {"issue", "payment", "undoIssue", "undoPayment"}
  <2>1. Consistent(x)
    BY <1>1, <1>2, <1>3 DEF Consistent, PostingJobs
  <2>2. Sound(x)
    BY <1>2, <2>1 DEF Sound
  <2> QED BY <1>3, <2>2, QuietKeeps DEF InsertFails
<1>4. CASE req[w].job \notin {"issue", "payment", "undoIssue", "undoPayment"}
  BY <1>4, IdleSound, QuietKeeps DEF InsertFails
<1> QED BY <1>3, <1>4

LEMMA CrashKeeps ==
    ASSUME LedgerInv, NEW w \in Workers, Crash(w)
    PROVE  LedgerInv'
BY IdleSound, QuietKeeps DEF Crash

LEMMA NextMonthKeeps == LedgerInv /\ NextMonth => LedgerInv'
<1> SUFFICES ASSUME LedgerInv, NextMonth PROVE LedgerInv'
  OBVIOUS
<1>1. now' \in Months
  BY MonthAssumption DEF NextMonth, LedgerInv, Shape, Months
<1> QED BY <1>1 DEF NextMonth, LedgerInv, Shape, PostedOnce, Accounted, Prepared, Consistent,
                    WellFormed, Undoes

\* The insert is the only step that lengthens the ledger; the unique key keeps
\* PostedOnce, and what was one of the first n batches remains so.
LEMMA InsertKeeps ==
    ASSUME LedgerInv, NEW w \in Workers, Insert(w)
    PROVE  LedgerInv'
<1> DEFINE b == req[w].batch
           m == req[w].month
           toClose == [req[w] EXCEPT !.at = "close", !.batch = NoBatch]
           toPost == [req[w] EXCEPT !.at = "post", !.batch = NoBatch]
<1>1. /\ req[w] \in RequestOver({b}) /\ Consistent(req[w])
      /\ req[w].at = "insert" /\ (b = NoBatch \/ WellFormed(b, Len(gl), gl))
  BY RequestFields DEF Insert
<1>2. /\ toClose \in RequestOver({NoBatch}) /\ toClose.batch = NoBatch
      /\ toClose.at = "close" /\ toClose.after = req[w].after
      /\ toClose.month = m /\ toClose.job = req[w].job
      /\ toPost \in RequestOver({NoBatch}) /\ toPost.batch = NoBatch
      /\ toPost.at = "post" /\ toPost.after = req[w].after
      /\ toPost.month = m /\ toPost.job = req[w].job
  BY <1>1 DEF RequestOver, Places
<1>3. req[w].job \in Jobs
  BY <1>1 DEF RequestOver
<1>4. PICK x : Go(w, x) /\ x \in RequestOver({NoBatch}) /\ x.batch = NoBatch /\ Consistent(x)
  <2>1. CASE req[w].job \in {"closing", "reopening"}
    BY <2>1, IdleSound DEF Insert, Sound, Idle, Task
  <2>2. CASE req[w].job = "provision"
    BY <1>1, <1>2, <2>2 DEF Insert, Consistent
  <2>3. CASE req[w].job \notin {"closing", "reopening", "provision"}
    <3>1. req[w].job \in PostingJobs
      BY <1>1, <1>3, <2>3 DEF Jobs, PostingJobs, Consistent
    <3>2. Consistent(toPost)
      BY <1>1, <1>2, <3>1 DEF Consistent, PostingJobs
    <3> QED BY <1>2, <2>3, <3>2 DEF Insert
  <2> QED BY <2>1, <2>2, <2>3
<1>5. \A v \in Workers : req'[v] = IF v = w THEN x ELSE req[v]
  BY <1>4 DEF Go, LedgerInv, Shape
<1>6. PICK B : gl \in Seq(B) /\ req \in [Workers -> RequestOver(B)]
  BY DEF LedgerInv, Shape
<1>7. Tables'
  <2>1. period' \in [Months -> {"none", "open", "closed"}]
    BY DEF Insert, LedgerInv, Shape
  <2> QED BY <2>1 DEF Insert, LedgerInv, Shape, Tables
<1>8. gl' = gl \/ (gl' = Append(gl, b) /\ b # NoBatch /\ KeyFree(b))
  BY DEF Insert
<1>9. Shape'
  <2> DEFINE C == B \cup {b, NoBatch}
  <2>1. gl \in Seq(C) /\ b \in C /\ RequestOver(B) \subseteq RequestOver(C)
        /\ x \in RequestOver(C)
    BY <1>4, <1>6, OverLarger
  <2>2. gl' \in Seq(C)
    BY <1>8, <2>1
  <2>3. req' \in [Workers -> RequestOver(C)]
    BY <1>4, <1>6, <2>1 DEF Go
  <2>4. \E D : gl' \in Seq(D) /\ req' \in [Workers -> RequestOver(D)]
    BY <2>2, <2>3
  <2>5. \A v \in Workers : Consistent(req'[v])
    BY <1>4, <1>5 DEF LedgerInv, Shape
  <2> QED BY <1>7, <2>4, <2>5 DEF Shape, Tables, Consistent, Months
<1>10. /\ Len(gl) \in Nat /\ DOMAIN gl = 1 .. Len(gl) /\ DOMAIN gl' = 1 .. Len(gl')
       /\ Len(gl') \in Nat /\ Len(gl) <= Len(gl')
       /\ \A i \in DOMAIN gl : i \in DOMAIN gl' /\ gl'[i] = gl[i]
       /\ \A i \in DOMAIN gl' : i \notin DOMAIN gl =>
             i = Len(gl) + 1 /\ gl'[i] = b /\ b # NoBatch /\ KeyFree(b)
  <2> DEFINE C == B \cup {b}
  <2>1. gl \in Seq(C) /\ b \in C
    BY <1>6, OverLarger
  <2> QED BY <1>8, <2>1
<1>11. ASSUME NEW c, NEW n \in 0 .. Len(gl), WellFormed(c, n, gl) PROVE WellFormed(c, n, gl')
  BY <1>10, <1>11 DEF WellFormed, Undoes
<1>12. PostedOnce'
  BY <1>10 DEF LedgerInv, PostedOnce, KeyFree, Posted
<1>13. Accounted'
  <2> SUFFICES ASSUME NEW i \in DOMAIN gl' PROVE WellFormed(gl'[i], i - 1, gl')
    BY DEF Accounted
  <2>1. CASE i \in DOMAIN gl
    <3>1. WellFormed(gl[i], i - 1, gl) /\ i - 1 \in 0 .. Len(gl) /\ gl'[i] = gl[i]
      BY <1>10, <2>1 DEF LedgerInv, Accounted
    <3> QED BY <1>11, <3>1
  <2>2. CASE i \notin DOMAIN gl
    <3>1. /\ WellFormed(b, Len(gl), gl) /\ Len(gl) \in 0 .. Len(gl)
          /\ gl'[i] = b /\ i - 1 = Len(gl)
      BY <1>1, <1>10, <2>2
    <3> QED BY <1>11, <3>1
  <2> QED BY <2>1, <2>2
<1>14. Prepared'
  <2> SUFFICES ASSUME NEW v \in Workers, req'[v].batch # NoBatch
               PROVE  WellFormed(req'[v].batch, Len(gl'), gl')
    BY DEF Prepared
  <2>1. v # w /\ req'[v] = req[v]
    BY <1>4, <1>5
  <2>2. WellFormed(req[v].batch, Len(gl), gl) /\ Len(gl) \in 0 .. Len(gl)
    BY <1>10, <2>1 DEF LedgerInv, Prepared
  <2>3. WellFormed(req[v].batch, Len(gl), gl')
    BY <1>11, <2>2
  <2> QED BY <1>10, <2>1, <2>3 DEF WellFormed, Undoes
<1> QED BY <1>9, <1>12, <1>13, <1>14 DEF LedgerInv

-----------------------------------------------------------------------------
LEMMA InitInv == Init => LedgerInv
<1> SUFFICES ASSUME Init PROVE LedgerInv
  OBVIOUS
<1>1. Sound(Idle) /\ Idle.batch = NoBatch
  BY IdleSound DEF Idle, Task
<1>2. gl \in Seq({NoBatch}) /\ req \in [Workers -> RequestOver({NoBatch})]
  BY <1>1 DEF Init, Sound
<1>3. rcpt \in [ReceiptIds -> ReceiptType] /\ now \in Months
      /\ period \in [Months -> {"none", "open", "closed"}]
  BY MonthAssumption DEF Init, ReceiptType, NoReceipt, Months
<1>4. Shape
  BY <1>1, <1>2, <1>3 DEF Shape, Init, Sound
<1> QED BY <1>1, <1>4 DEF LedgerInv, PostedOnce, Accounted, Prepared, Init

LEMMA NextInv == LedgerInv /\ [Next]_vars => LedgerInv'
<1> SUFFICES ASSUME LedgerInv, [Next]_vars PROVE LedgerInv'
  OBVIOUS
<1>1. ASSUME NEW w \in Workers, Begin(w) PROVE LedgerInv'
  BY <1>1, CreateReceiptKeeps, MarkPaidKeeps, RevertsKeep, BulkVoidKeeps, ClosesKeep,
     ReopenKeeps, BootstrapKeeps DEF Begin
<1>2. ASSUME NEW w \in Workers, Step(w) PROVE LedgerInv'
  BY <1>2, CommitRevertKeeps, CheckCoverageKeeps, ReadForPostingKeeps, DonePostingKeeps,
     ReadProvisionKeeps, ReadForClosingKeeps, InsertKeeps, InsertFailsKeeps DEF Step
<1>3. CASE UNCHANGED vars
  BY <1>3 DEF vars, LedgerInv, Shape, PostedOnce, Accounted, Prepared, Consistent,
              WellFormed, Undoes
<1> QED BY <1>1, <1>2, <1>3, NextMonthKeeps, CrashKeeps DEF Next

\* Every batch has been posted once and came about as WellFormed says.
THEOREM Ledger == Spec => []LedgerInv
BY InitInv, NextInv, PTL DEF Spec

\* A receipt's cash is posted once and taken back once, whatever requests
\* overlap or die (post_receipt_paid, reverse_receipt_postings).
THEOREM CashOnce == Spec => []CashMovesOnce
BY Ledger, CashFromInv, PTL

\* A reversal takes back one earlier batch and no batch is taken back twice.
THEOREM OneReversal == Spec => []ReversalsUndoOneBatch
BY Ledger, ReversalsFromInv, PTL

-----------------------------------------------------------------------------
\* The receipts move as ReceiptLifecycle says.  CommitRevert takes a receipt
\* back to pending long after RevertPaid saw it paid; what makes this a legal
\* move is the row lock held in between.
Locking ==
    /\ \A w \in Workers : /\ \/ req[w].held = {}
                             \/ \E r \in ReceiptIds : req[w].held = {r} /\ rcpt[r].status = "paid"
                          /\ "revert" \in {req[w].at, req[w].after} => req[w].held # {}
    /\ \A v, w \in Workers : v # w => req[v].held \cap req[w].held = {}

LifeInv == LedgerInv /\ Locking

\* A step of worker w that leaves the receipts alone and takes no lock.
LEMMA SameLocks ==
    ASSUME LedgerInv, Locking, NEW w \in Workers, NEW x, Go(w, x), x.held \in {{}, req[w].held},
           "revert" \in {x.at, x.after} => x.held # {}, rcpt' = rcpt
    PROVE  Locking'
<1>1. \A v \in Workers : req'[v] = IF v = w THEN x ELSE req[v]
  BY DEF Go, LedgerInv, Shape
<1> QED BY <1>1 DEF Locking

\* Receipts no worker has locked may change.
LEMMA UnlockedChange ==
    ASSUME LedgerInv, Locking, NEW w \in Workers, NEW x, Go(w, x), x.held = {},
           "revert" \notin {x.at, x.after}, NEW R \in SUBSET ReceiptIds, RowsFree(R),
           \A r \in ReceiptIds \ R : rcpt'[r] = rcpt[r]
    PROVE  Locking'
<1>1. \A v \in Workers : req'[v] = IF v = w THEN x ELSE req[v]
  BY DEF Go, LedgerInv, Shape
<1>2. ASSUME NEW v \in Workers, NEW r \in ReceiptIds, req[v].held = {r} PROVE rcpt'[r] = rcpt[r]
  BY <1>2 DEF RowsFree
<1> QED BY <1>1, <1>2 DEF Locking

LEMMA BeginKeepsLocks ==
    ASSUME LedgerInv, Locking, NEW w \in Workers, Begin(w)
    PROVE  Locking'
<1>1. ASSUME NEW r \in ReceiptIds, NEW m \in Months, NEW monthly \in BOOLEAN,
             CreateReceipt(w, r, m, monthly)
      PROVE  Locking'
  <2>1. \A q \in ReceiptIds \ {r} : rcpt'[q] = rcpt[q]
    BY <1>1 DEF CreateReceipt, LedgerInv, Shape
  <2>2. RowsFree({r})
    BY <1>1 DEF CreateReceipt, Exists, RowsFree, Locking
  <2>3. /\ PostEach("issue", {r}, "idle").held = {}
        /\ "revert" \notin {PostEach("issue", {r}, "idle").at, PostEach("issue", {r}, "idle").after}
    BY DEF PostEach, Task
  <2> QED BY <1>1, <2>1, <2>2, <2>3, UnlockedChange DEF CreateReceipt
<1>2. ASSUME NEW r \in ReceiptIds, MarkPaid(w, r) PROVE Locking'
  <2>1. \A q \in ReceiptIds \ {r} : rcpt'[q] = rcpt[q]
    BY <1>2 DEF MarkPaid, LedgerInv, Shape
  <2>2. /\ PostEach("payment", {r}, "idle").held = {}
        /\ "revert" \notin {PostEach("payment", {r}, "idle").at,
                            PostEach("payment", {r}, "idle").after}
    BY DEF PostEach, Task
  <2> QED BY <1>2, <2>1, <2>2, UnlockedChange DEF MarkPaid
<1>3. ASSUME NEW r \in ReceiptIds, RevertPending(w, r) PROVE Locking'
  BY <1>3, SameLocks DEF RevertPending, PostEach, Task
<1>4. ASSUME NEW r \in ReceiptIds, RevertPaid(w, r) PROVE Locking'
  <2> DEFINE x == [PostEach("undoPayment", {r}, "revert") EXCEPT !.held = {r}]
  <2>1. x.held = {r}
    BY DEF PostEach, Task
  <2>2. \A v \in Workers : req'[v] = IF v = w THEN x ELSE req[v]
    BY <1>4 DEF RevertPaid, Go, LedgerInv, Shape
  <2>3. \A v \in Workers : req[v].held \cap {r} = {}
    BY <1>4 DEF RevertPaid, RowsFree
  <2> HIDE DEF x
  <2> QED BY <1>4, <2>1, <2>2, <2>3 DEF RevertPaid, Locking
<1>5. ASSUME NEW m \in Months, BulkVoid(w, m) PROVE Locking'
  <2> DEFINE InMonth == {r \in ReceiptIds : rcpt[r].monthly /\ rcpt[r].service = m}
             x == PostEach("undoIssue", {r \in InMonth : rcpt[r].status = "pending"}, "idle")
  <2>1. \A q \in ReceiptIds \ InMonth : rcpt'[q] = rcpt[q]
    BY <1>5 DEF BulkVoid, LedgerInv, Shape
  <2>2. x.held = {} /\ "revert" \notin {x.at, x.after}
    BY DEF PostEach, Task
  <2>3. Go(w, x) /\ RowsFree(InMonth)
    BY <1>5 DEF BulkVoid
  <2> HIDE DEF x
  <2> QED BY <2>1, <2>2, <2>3, UnlockedChange
<1>6. ASSUME NEW m \in Months, UiClose(w, m) PROVE Locking'
  BY <1>6, SameLocks DEF UiClose, Task
<1>7. ASSUME NEW m \in Months, CloseEndpoint(w, m) PROVE Locking'
  BY <1>7, SameLocks DEF CloseEndpoint, ToClose, Task
<1>8. ASSUME NEW m \in Months, Reopen(w, m) PROVE Locking'
  <2>1. PICK b : Go(w, [Task("insert", "reopening", {}, "idle", m) EXCEPT !.batch = b])
    BY <1>8 DEF Reopen
  <2> DEFINE x == [Task("insert", "reopening", {}, "idle", m) EXCEPT !.batch = b]
  <2>2. x.held = {} /\ x.at = "insert" /\ x.after = "idle"
    BY DEF Task
  <2> HIDE DEF x
  <2> QED BY <1>8, <2>1, <2>2, SameLocks DEF Reopen, x
<1>9. CASE Bootstrap(w)
  BY <1>9 DEF Bootstrap, Locking
<1> QED BY <1>1, <1>2, <1>3, <1>4, <1>5, <1>6, <1>7, <1>8, <1>9 DEF Begin

\* A request that goes on keeps its lock and its way back.
LEMMA GoesOn ==
    ASSUME LedgerInv, Locking, NEW w \in Workers, NEW x, Go(w, x), x.held = req[w].held,
           x.after = req[w].after, x.at # "revert", rcpt' = rcpt
    PROVE  Locking'
<1>1. "revert" \in {x.at, x.after} => x.held # {}
  BY DEF Locking
<1> QED BY <1>1, SameLocks

LEMMA StepKeepsLocks ==
    ASSUME LedgerInv, Locking, NEW w \in Workers, Step(w)
    PROVE  Locking'
<1>1. req[w] \in RequestOver({req[w].batch})
  BY RequestFields
<1>2. /\ Idle.held = {} /\ "revert" \notin {Idle.at, Idle.after}
      /\ ToClose(req[w].month).held = {}
      /\ "revert" \notin {ToClose(req[w].month).at, ToClose(req[w].month).after}
  BY DEF Idle, ToClose, Task
<1>3. ASSUME rcpt' = rcpt, Go(w, Idle) PROVE Locking'
  BY <1>2, <1>3, SameLocks
<1>4. CASE CommitRevert(w)
  <2> DEFINE x == PostEach("undoPayment", req[w].held, "idle")
  <2>1. x.held = {} /\ "revert" \notin {x.at, x.after} /\ Go(w, x)
    BY <1>4 DEF CommitRevert, PostEach, Task
  <2>2. \A v \in Workers : req'[v] = IF v = w THEN x ELSE req[v]
    BY <2>1 DEF Go, LedgerInv, Shape
  <2>3. \A r \in ReceiptIds \ req[w].held : rcpt'[r] = rcpt[r]
    BY <1>4 DEF CommitRevert
  <2> HIDE DEF x
  <2> QED BY <2>1, <2>2, <2>3 DEF Locking
<1>5. CASE CheckCoverage(w)
  <2>1. Go(w, Idle) \/ Go(w, ToClose(req[w].month))
    BY <1>5 DEF CheckCoverage
  <2> QED BY <1>2, <1>5, <2>1, SameLocks DEF CheckCoverage
<1>6. ASSUME NEW r \in ReceiptIds, ReadForPosting(w, r) PROVE Locking'
  <2> DEFINE b == Prepare(req[w].job, r)
             at == IF b = NoBatch THEN "post" ELSE "insert"
  <2>1. /\ at \in {"post", "insert"}
        /\ Go(w, [req[w] EXCEPT !.at = at, !.batch = b, !.todo = @ \ {r}])
    BY <1>6 DEF ReadForPosting
  <2> HIDE DEF b, at
  <2> DEFINE x == [req[w] EXCEPT !.at = at, !.batch = b, !.todo = @ \ {r}]
  <2>2. x.held = req[w].held /\ x.after = req[w].after /\ x.at # "revert"
    BY <1>1, <2>1 DEF RequestOver
  <2> HIDE DEF x
  <2> QED BY <1>6, <2>1, <2>2, GoesOn DEF ReadForPosting, x
<1>7. CASE DonePosting(w)
  <2> DEFINE x == [req[w] EXCEPT !.at = req[w].after, !.job = "none"]
  <2>1. x.held = req[w].held /\ x.after = req[w].after /\ x.at = req[w].after
    BY <1>1 DEF RequestOver
  <2>2. "revert" \in {x.at, x.after} => x.held # {}
    BY <2>1 DEF Locking
  <2>3. Go(w, Idle) \/ Go(w, x)
    BY <1>7 DEF DonePosting
  <2> HIDE DEF x
  <2> QED BY <1>3, <1>7, <2>1, <2>2, <2>3, SameLocks DEF DonePosting
<1>8. CASE ReadProvision(w)
  <2> DEFINE m == req[w].month
             dAr == Delta("ar", "alwAr", m)
             dCa == Delta("ca", "alwCa", m)
             b == IF (dAr = 0 /\ dCa = 0) \/ Closed(m) THEN NoBatch
                  ELSE Batch(m, "impairment", m, ImpairmentLines(dAr, dCa))
             at == IF b = NoBatch THEN "close" ELSE "insert"
  <2>1. /\ at \in {"close", "insert"}
        /\ Go(w, [req[w] EXCEPT !.at = at, !.job = "provision", !.batch = b])
    BY <1>8 DEF ReadProvision
  <2> HIDE DEF b, at
  <2> DEFINE x == [req[w] EXCEPT !.at = at, !.job = "provision", !.batch = b]
  <2>2. x.held = req[w].held /\ x.after = req[w].after /\ x.at # "revert"
    BY <1>1, <2>1 DEF RequestOver
  <2> HIDE DEF x
  <2> QED BY <1>8, <2>1, <2>2, GoesOn DEF ReadProvision, x
<1>9. CASE ReadForClosing(w)
  <2>1. \/ Go(w, Idle)
        \/ \E saw, b : Go(w, [req[w] EXCEPT !.at = "insert", !.job = "closing",
                                            !.saw = saw, !.batch = b])
    BY <1>9 DEF ReadForClosing
  <2>2. ASSUME NEW saw, NEW b, Go(w, [req[w] EXCEPT !.at = "insert", !.job = "closing",
                                                    !.saw = saw, !.batch = b])
        PROVE  Locking'
    <3> DEFINE x == [req[w] EXCEPT !.at = "insert", !.job = "closing", !.saw = saw, !.batch = b]
    <3>1. x.held = req[w].held /\ x.after = req[w].after /\ x.at # "revert"
      BY <1>1 DEF RequestOver
    <3> HIDE DEF x
    <3> QED BY <1>9, <2>2, <3>1, GoesOn DEF ReadForClosing, x
  <2> QED BY <1>3, <1>9, <2>1, <2>2 DEF ReadForClosing
<1>10. CASE Insert(w) \/ InsertFails(w)
  <2>1. \/ Go(w, Idle)
        \/ \E at \in {"close", "post"} : Go(w, [req[w] EXCEPT !.at = at, !.batch = NoBatch])
    BY <1>10 DEF Insert, InsertFails
  <2>2. ASSUME NEW at \in {"close", "post"}, Go(w, [req[w] EXCEPT !.at = at, !.batch = NoBatch])
        PROVE  Locking'
    <3> DEFINE x == [req[w] EXCEPT !.at = at, !.batch = NoBatch]
    <3>1. x.held = req[w].held /\ x.after = req[w].after /\ x.at # "revert"
      BY <1>1 DEF RequestOver
    <3> HIDE DEF x
    <3> QED BY <1>10, <2>2, <3>1, GoesOn DEF Insert, InsertFails, x
  <2> QED BY <1>3, <1>10, <2>1, <2>2 DEF Insert, InsertFails
<1> QED BY <1>4, <1>5, <1>6, <1>7, <1>8, <1>9, <1>10 DEF Step, CheckCoverage

LEMMA LifeInductive ==
    /\ Init => LifeInv
    /\ LifeInv /\ [Next]_vars => LifeInv'
<1>1. Init => LifeInv
  BY InitInv DEF Init, LifeInv, Locking, Idle, Task
<1>2. ASSUME LifeInv, [Next]_vars PROVE LifeInv'
  <2>1. LedgerInv /\ Locking /\ LedgerInv'
    BY <1>2, NextInv DEF LifeInv
  <2>2. ASSUME NEW w \in Workers, Crash(w) PROVE Locking'
    <3>1. Idle.held = {} /\ "revert" \notin {Idle.at, Idle.after}
      BY DEF Idle, Task
    <3> QED BY <2>1, <2>2, <3>1, SameLocks DEF Crash
  <2>3. ASSUME NextMonth \/ UNCHANGED vars PROVE Locking'
    BY <2>1, <2>3 DEF NextMonth, vars, Locking
  <2>4. Locking'
    BY <1>2, <2>1, <2>2, <2>3, BeginKeepsLocks, StepKeepsLocks DEF Next
  <2> QED BY <2>1, <2>4 DEF LifeInv
<1> QED BY <1>1, <1>2

-----------------------------------------------------------------------------
\* Every step is a move of ReceiptLifecycle or leaves the statuses alone.
StatusNow == [r \in ReceiptIds |-> rcpt[r].status]

LEMMA StepMoves == LifeInv /\ [Next]_vars => [Lifecycle!Next]_StatusNow
<1> SUFFICES ASSUME LifeInv, [Next]_vars, StatusNow' # StatusNow PROVE Lifecycle!Next
  OBVIOUS
<1>1. rcpt \in [ReceiptIds -> ReceiptType]
  BY DEF LifeInv, LedgerInv, Shape
<1>2. rcpt' # rcpt
  BY DEF StatusNow
<1>3. ASSUME NEW R \in SUBSET ReceiptIds, NEW from, NEW to,
             \A r \in R : rcpt[r].status = from /\ rcpt'[r].status = to,
             \A r \in ReceiptIds \ R : rcpt'[r].status = rcpt[r].status
      PROVE  Lifecycle!Move(R, from, to)
  BY <1>3 DEF Lifecycle!Move
<1>4. ASSUME NEW w \in Workers, NEW r \in ReceiptIds, NEW m \in Months, NEW monthly \in BOOLEAN,
             CreateReceipt(w, r, m, monthly)
      PROVE  Lifecycle!Next
  <2>1. Lifecycle!Move({r}, "absent", "pending")
    BY <1>1, <1>3, <1>4 DEF CreateReceipt, Exists
  <2> QED BY <2>1 DEF Lifecycle!Next
<1>5. ASSUME NEW w \in Workers, NEW r \in ReceiptIds, MarkPaid(w, r) PROVE Lifecycle!Next
  <2>1. rcpt[r].status = "pending" /\ rcpt' = [rcpt EXCEPT ![r].status = "paid", ![r].paidAt = now]
    BY <1>2, <1>5 DEF MarkPaid
  <2>2. rcpt'[r].status = "paid" /\ \A q \in ReceiptIds \ {r} : rcpt'[q] = rcpt[q]
    BY <1>1, <2>1 DEF ReceiptType
  <2>3. Lifecycle!Move({r}, "pending", "paid")
    BY <1>3, <2>1, <2>2
  <2> QED BY <2>3 DEF Lifecycle!Next
<1>6. ASSUME NEW w \in Workers, CommitRevert(w) PROVE Lifecycle!Next
  <2>1. PICK r \in ReceiptIds : req[w].held = {r} /\ rcpt[r].status = "paid"
    BY <1>6 DEF CommitRevert, LifeInv, Locking
  <2>2. rcpt'[r].status = "pending" /\ \A q \in ReceiptIds \ {r} : rcpt'[q] = rcpt[q]
    BY <1>1, <1>6, <2>1 DEF CommitRevert, ReceiptType
  <2>3. Lifecycle!Move({r}, "paid", "pending")
    BY <1>3, <2>1, <2>2
  <2> QED BY <2>3 DEF Lifecycle!Next
<1>7. ASSUME NEW w \in Workers, NEW m \in Months, BulkVoid(w, m) PROVE Lifecycle!Next
  <2> DEFINE R == {r \in ReceiptIds : /\ rcpt[r].monthly /\ rcpt[r].service = m
                                      /\ rcpt[r].status = "pending"}
  <2>1. /\ \A r \in R : rcpt[r].status = "pending" /\ rcpt'[r].status = "void"
        /\ \A r \in ReceiptIds \ R : rcpt'[r] = rcpt[r]
    BY <1>1, <1>7 DEF BulkVoid, ReceiptType
  <2>2. Lifecycle!Move(R, "pending", "void")
    BY <1>3, <2>1
  <2> QED BY <2>2 DEF Lifecycle!Next
<1>8. ASSUME NEW w \in Workers, Begin(w) PROVE Lifecycle!Next
  BY <1>2, <1>4, <1>5, <1>7, <1>8
     DEF Begin, RevertPending, RevertPaid, UiClose, CloseEndpoint, Reopen, Bootstrap
<1>9. ASSUME NEW w \in Workers, Step(w) PROVE Lifecycle!Next
  BY <1>2, <1>6, <1>9 DEF Step, CheckCoverage, ReadForPosting, DonePosting, ReadProvision,
                          ReadForClosing, Insert, InsertFails
<1> QED BY <1>2, <1>8, <1>9 DEF Next, NextMonth, Crash, vars

\* For all overlapping requests, a receipt is paid, reverted and voided only
\* as ReceiptLifecycle allows: never void after paid, never paid after void.
THEOREM LifecycleHolds == Spec => ImplementsLifecycle
<1>1. Init => Lifecycle!Init
  BY DEF Init, NoReceipt, Lifecycle!Init
<1>2. LifeInv /\ [Next]_vars => [Lifecycle!Next]_[r \in ReceiptIds |-> rcpt[r].status]
  BY StepMoves DEF StatusNow
<1> QED BY <1>1, <1>2, LifeInductive, PTL DEF Spec, ImplementsLifecycle, Lifecycle!Spec
-----------------------------------------------------------------------------
\* The books balance.  That a batch of the ledger or of a handler lies in
\* BatchType with debits equal to credits rests on the dates of the receipts:
\* each posting goes to a month the receipt has by then.
Dated ==
    /\ \A r \in ReceiptIds : Exists(r) => rcpt[r].created \in Months /\ rcpt[r].service \in Months
    /\ \A r \in ReceiptIds : rcpt[r].status = "paid" => rcpt[r].paidAt \in Months
    /\ \A w \in Workers : req[w].job \in {"issue", "accrual"} => \A r \in req[w].todo : Exists(r)

SoundBatch(b) == b \in BatchType /\ Total(b.lines) = 0
SoundBatches == /\ \A i \in DOMAIN gl : SoundBatch(gl[i])
                /\ \A w \in Workers : req[w].batch = NoBatch \/ SoundBatch(req[w].batch)

BooksInv == LedgerInv /\ Locking /\ Dated /\ SoundBatches

\* The lines each posting writes balance.
LEMMA LinesBalance ==
    ASSUME NEW g \in Int, NEW n \in Int
    PROVE  /\ NoLines \in Lines /\ Total(NoLines) = 0
           /\ AccrualLines(n) \in Lines /\ Total(AccrualLines(n)) = 0
           /\ PaymentLines(g) \in Lines /\ Total(PaymentLines(g)) = 0
           /\ ImpairmentLines(g, n) \in Lines /\ Total(ImpairmentLines(g, n)) = 0
<1>1. NoLines \in Lines /\ Total(NoLines) = 0
  BY DEF NoLines, Lines, Total, Accounts
<1>2. AccrualLines(n) \in Lines /\ Total(AccrualLines(n)) = 0
  BY DEF AccrualLines, NoLines, Lines, Total, Accounts
<1>3. PaymentLines(g) \in Lines /\ Total(PaymentLines(g)) = 0
  BY DEF PaymentLines, NoLines, Lines, Total, Accounts
<1>4. ImpairmentLines(g, n) \in Lines /\ Total(ImpairmentLines(g, n)) = 0
  BY DEF ImpairmentLines, NoLines, Lines, Total, Accounts
<1> QED BY <1>1, <1>2, <1>3, <1>4

LEMMA IssueBalances ==
    ASSUME NEW g \in Int, NEW n \in Int, NEW ca \in BOOLEAN
    PROVE  IssueLines(g, n, ca) \in Lines /\ Total(IssueLines(g, n, ca)) = 0
BY DEF IssueLines, NoLines, Lines, Total, Accounts

LEMMA ReversedBalances ==
    ASSUME NEW l \in Lines, Total(l) = 0
    PROVE  Reversed(l) \in Lines /\ Total(Reversed(l)) = 0
BY DEF Reversed, Lines, Total, Accounts

LEMMA ClosingBalances ==
    ASSUME NEW bal \in [Accounts -> Int]
    PROVE  ClosingLines(bal) \in Lines /\ Total(ClosingLines(bal)) = 0
<1>1. bal["rev"] \in Int /\ bal["ecl"] \in Int
  BY DEF Accounts
<1>2. Abs(bal["rev"]) \in Int /\ Abs(bal["ecl"]) \in Int
  BY <1>1 DEF Abs
<1> QED BY <1>2 DEF ClosingLines, NoLines, Lines, Total, Accounts

\* Balances are integers, and so is what a provision adds to the allowance.
LEMMA BalanceIsInteger ==
    ASSUME BooksInv, NEW a \in Accounts, NEW I \in SUBSET (DOMAIN gl)
    PROVE  BalanceOf(a, I) \in Int
<1>1. DOMAIN gl = 1 .. Len(gl) /\ Len(gl) \in Nat
  BY DEF BooksInv, LedgerInv, Shape
<1>2. IsFiniteSet(I)
  <2>1. IsFiniteSet(1 .. Len(gl))
    BY <1>1, FS_Interval
  <2> QED BY <1>1, <2>1, FS_Subset
<1>3. \A i \in I : gl[i].lines[a] \in Int
  BY DEF BooksInv, SoundBatches, SoundBatch, BatchType, Lines
<1>4. \A i \in I : [k \in I |-> gl[k].lines[a]][i] \in Int
  BY <1>3
<1> QED BY <1>2, <1>4, SumIsInteger DEF BalanceOf

LEMMA DeltaIsInteger ==
    ASSUME BooksInv, NEW a \in {"ar", "ca"}, NEW allowance \in Accounts, NEW m \in Months
    PROVE  Delta(a, allowance, m) \in Int
<1> DEFINE Days(r) == IF a = "ar" THEN MonthDays * (m - rcpt[r].created - 1)
                                  ELSE MonthDays * (m - rcpt[r].service)
           loss == [r \in ReceiptIds |-> IF Outstanding(r, a, m) <= 0 THEN 0
                                         ELSE Outstanding(r, a, m) * LossRate(Days(r))]
<1>1. ASSUME NEW r \in ReceiptIds PROVE Outstanding(r, a, m) \in Int
  BY BalanceIsInteger DEF Outstanding, UpTo, Accounts
<1>2. ASSUME NEW r \in ReceiptIds PROVE LossRate(Days(r)) \in Int
  BY DEF LossRate
<1>3. \A r \in ReceiptIds : loss[r] \in Int
  BY <1>1, <1>2
<1>4. SumFunctionOnSet(loss, ReceiptIds) \in Int
  BY <1>3, SumIsInteger, ReceiptAssumption
<1>5. Required(a, m) = (SumFunctionOnSet(loss, ReceiptIds) + 500) \div 1000
  BY DEF Required
<1> HIDE DEF loss
<1>6. Required(a, m) \in Int
  BY <1>4, <1>5
<1>7. BalanceOf(allowance, UpTo(m)) \in Int
  BY BalanceIsInteger DEF UpTo
<1> QED BY <1>6, <1>7 DEF Delta

-----------------------------------------------------------------------------
\* What a handler prepares is sound.
LEMMA PrepareSound ==
    ASSUME BooksInv, NEW r \in ReceiptIds, NEW job \in PostingJobs,
           job \in {"issue", "accrual"} => Exists(r)
    PROVE  Prepare(job, r) = NoBatch \/ SoundBatch(Prepare(job, r))
<1>1. Gross[r] \in Int /\ Net[r] \in Int /\ now \in Months
  BY AmountAssumption DEF BooksInv, LedgerInv, Shape
<1>2. CASE job = "issue"
  <2> DEFINE m == rcpt[r].created
             ca == Posted(r, "accrual") \/ rcpt[r].service < m
  <2>1. m \in Months
    BY <1>2 DEF BooksInv, Dated
  <2>2. ca \in BOOLEAN
    OBVIOUS
  <2> HIDE DEF ca
  <2>3. SoundBatch(Batch(r, "issue", m, IssueLines(Gross[r], Net[r], ca)))
    BY <1>1, <2>1, <2>2, IssueBalances DEF SoundBatch, Batch, BatchType, Kinds
  <2> QED BY <1>2, <2>3 DEF Prepare, PrepareIssue, ca
<1>3. CASE job = "payment"
  <2>1. rcpt[r].status = "paid" => rcpt[r].paidAt \in Months
    BY DEF BooksInv, Dated
  <2>2. rcpt[r].paidAt \in Months
          => SoundBatch(Batch(r, "payment", rcpt[r].paidAt, PaymentLines(Gross[r])))
    BY <1>1, LinesBalance DEF SoundBatch, Batch, BatchType, Kinds
  <2> QED BY <1>3, <2>1, <2>2 DEF Prepare, PreparePayment
<1>4. CASE job = "accrual"
  <2>1. rcpt[r].service \in Months
    BY <1>4 DEF BooksInv, Dated
  <2>2. /\ SoundBatch(Batch(r, "accrual", rcpt[r].service, NoLines))
        /\ SoundBatch(Batch(r, "accrual", rcpt[r].service, AccrualLines(Net[r])))
    BY <1>1, <2>1, LinesBalance DEF SoundBatch, Batch, BatchType, Kinds
  <2> QED BY <1>4, <2>2 DEF Prepare, PrepareAccrual
<1>5. ASSUME NEW kind \in {"issue", "payment"}, Posted(r, kind)
      PROVE  SoundBatch(Batch(r, "reversal", now, Reversed(Find(r, kind).lines)))
  <2>1. PICK i \in DOMAIN gl : Find(r, kind) = gl[i]
    BY <1>5, FindsBatch DEF BooksInv, LedgerInv, Shape
  <2>2. gl[i].lines \in Lines /\ Total(gl[i].lines) = 0
    BY DEF BooksInv, SoundBatches, SoundBatch, BatchType
  <2> QED BY <1>1, <2>1, <2>2, ReversedBalances DEF SoundBatch, Batch, BatchType, Kinds
<1>6. CASE job \in {"undoIssue", "undoPayment"}
  BY <1>5, <1>6 DEF Prepare, PrepareReversal
<1> QED BY <1>2, <1>3, <1>4, <1>6 DEF PostingJobs

LEMMA ProvisionSound ==
    ASSUME BooksInv, NEW m \in Months
    PROVE  SoundBatch(Batch(m, "impairment", m,
                            ImpairmentLines(Delta("ar", "alwAr", m), Delta("ca", "alwCa", m))))
<1>1. Delta("ar", "alwAr", m) \in Int /\ Delta("ca", "alwCa", m) \in Int
  BY DeltaIsInteger DEF Accounts
<1> QED BY <1>1, LinesBalance DEF SoundBatch, Batch, BatchType, Kinds

LEMMA ClosingSound ==
    ASSUME BooksInv, NEW m \in Months, NEW I \in SUBSET (DOMAIN gl)
    PROVE  SoundBatch(Batch(m, "closing", m, ClosingLines([a \in Accounts |-> BalanceOf(a, I)])))
<1>1. [a \in Accounts |-> BalanceOf(a, I)] \in [Accounts -> Int]
  BY BalanceIsInteger
<1> QED BY <1>1, ClosingBalances DEF SoundBatch, Batch, BatchType, Kinds

LEMMA ReopeningSound ==
    ASSUME BooksInv, NEW m \in Months, Posted(m, "closing")
    PROVE  SoundBatch(Batch(m, "reversal", now, Reversed(Find(m, "closing").lines)))
<1>1. PICK i \in DOMAIN gl : Find(m, "closing") = gl[i]
  BY FindsBatch DEF BooksInv, LedgerInv, Shape
<1>2. gl[i].lines \in Lines /\ Total(gl[i].lines) = 0 /\ now \in Months
  BY DEF BooksInv, SoundBatches, SoundBatch, BatchType, LedgerInv, Shape
<1> QED BY <1>1, <1>2, ReversedBalances DEF SoundBatch, Batch, BatchType, Kinds
-----------------------------------------------------------------------------
\* The receipts keep their dates.
LEMMA TodoChange ==
    ASSUME BooksInv, NEW w \in Workers, NEW x, Go(w, x), rcpt' = rcpt,
           x.job \in {"issue", "accrual"} => \A r \in x.todo : Exists(r)
    PROVE  Dated'
<1>1. \A v \in Workers : req'[v] = IF v = w THEN x ELSE req[v]
  BY DEF Go, BooksInv, LedgerInv, Shape
<1> QED BY <1>1 DEF BooksInv, Dated, Exists, Months

LEMMA OtherJobsKeepDates ==
    ASSUME BooksInv, NEW w \in Workers, NEW x, Go(w, x), rcpt' = rcpt,
           x.job \notin {"issue", "accrual"} \/ (x.job = req[w].job /\ x.todo \subseteq req[w].todo)
    PROVE  Dated'
<1>1. x.job \in {"issue", "accrual"} => \A r \in x.todo : Exists(r)
  BY DEF BooksInv, Dated
<1> QED BY <1>1, TodoChange

LEMMA DatedReceipts ==
    ASSUME BooksInv, NEW w \in Workers, NEW x, Go(w, x), x.job \notin {"issue", "accrual"},
           \A r \in ReceiptIds :
               /\ rcpt'[r].created = rcpt[r].created /\ rcpt'[r].service = rcpt[r].service
               /\ rcpt'[r].status = "absent" <=> rcpt[r].status = "absent"
               /\ rcpt'[r].status = "paid" => rcpt'[r].paidAt \in Months
    PROVE  Dated'
<1>1. \A v \in Workers : req'[v] = IF v = w THEN x ELSE req[v]
  BY DEF Go, BooksInv, LedgerInv, Shape
<1>2. \A v \in Workers : req[v].todo \subseteq ReceiptIds
  BY RequestFields DEF BooksInv
<1> QED BY <1>1, <1>2 DEF BooksInv, Dated, Exists, Months

LEMMA BeginKeepsDates ==
    ASSUME BooksInv, NEW w \in Workers, Begin(w)
    PROVE  Dated'
<1>1. rcpt \in [ReceiptIds -> ReceiptType] /\ now \in Months
  BY DEF BooksInv, LedgerInv, Shape
<1>2. ASSUME NEW r \in ReceiptIds, NEW m \in Months, NEW monthly \in BOOLEAN,
             CreateReceipt(w, r, m, monthly)
      PROVE  Dated'
  <2> DEFINE x == PostEach("issue", {r}, "idle")
  <2>1. x.job = "issue" /\ x.todo = {r}
    BY DEF PostEach, Task
  <2>2. \A v \in Workers : req'[v] = IF v = w THEN x ELSE req[v]
    BY <1>2 DEF CreateReceipt, Go, BooksInv, LedgerInv, Shape
  <2>3. /\ rcpt'[r].status = "pending" /\ rcpt'[r].created = now /\ rcpt'[r].service = m
        /\ \A q \in ReceiptIds \ {r} : rcpt'[q] = rcpt[q]
    BY <1>1, <1>2 DEF CreateReceipt
  <2>4. \A v \in Workers : req[v].todo \subseteq ReceiptIds
    BY RequestFields DEF BooksInv
  <2> HIDE DEF x
  <2> QED BY <1>1, <2>1, <2>2, <2>3, <2>4 DEF BooksInv, Dated, Exists, Months
<1>3. ASSUME NEW r \in ReceiptIds, MarkPaid(w, r) PROVE Dated'
  <2> DEFINE x == PostEach("payment", {r}, "idle")
  <2>1. x.job = "payment"
    BY DEF PostEach, Task
  <2>2. ASSUME NEW q \in ReceiptIds
        PROVE  /\ rcpt'[q].created = rcpt[q].created /\ rcpt'[q].service = rcpt[q].service
               /\ rcpt'[q].status = "absent" <=> rcpt[q].status = "absent"
               /\ rcpt'[q].status = "paid" => rcpt'[q].paidAt \in Months
    BY <1>1, <1>3 DEF MarkPaid, ReceiptType, BooksInv, Dated
  <2>3. Go(w, x)
    BY <1>3 DEF MarkPaid
  <2> HIDE DEF x
  <2> QED BY <2>1, <2>2, <2>3, DatedReceipts
<1>4. ASSUME NEW r \in ReceiptIds, RevertPending(w, r) \/ RevertPaid(w, r) PROVE Dated'
  <2>1. /\ PostEach("undoPayment", {r}, "idle").job = "undoPayment"
        /\ [PostEach("undoPayment", {r}, "revert") EXCEPT !.held = {r}].job = "undoPayment"
    BY DEF PostEach, Task
  <2> QED BY <1>4, <2>1, OtherJobsKeepDates DEF RevertPending, RevertPaid
<1>5. ASSUME NEW m \in Months, BulkVoid(w, m) PROVE Dated'
  <2> DEFINE InMonth == {r \in ReceiptIds : rcpt[r].monthly /\ rcpt[r].service = m}
             x == PostEach("undoIssue", {r \in InMonth : rcpt[r].status = "pending"}, "idle")
  <2>1. x.job = "undoIssue" /\ Go(w, x)
    BY <1>5 DEF BulkVoid, PostEach, Task
  <2>2. ASSUME NEW q \in ReceiptIds
        PROVE  /\ rcpt'[q].created = rcpt[q].created /\ rcpt'[q].service = rcpt[q].service
               /\ rcpt'[q].status = "absent" <=> rcpt[q].status = "absent"
               /\ rcpt'[q].status = "paid" => rcpt'[q].paidAt \in Months
    BY <1>1, <1>5 DEF BulkVoid, ReceiptType, BooksInv, Dated
  <2> HIDE DEF x
  <2> QED BY <2>1, <2>2, DatedReceipts
<1>6. ASSUME NEW m \in Months, UiClose(w, m) PROVE Dated'
  <2> DEFINE R == IF Closed(m) THEN {} ELSE {r \in ReceiptIds : Exists(r) /\ rcpt[r].service = m}
             x == Task("post", "accrual", R, "coverage", m)
  <2>1. x.todo = R /\ \A r \in R : Exists(r)
    BY DEF Task
  <2>2. Go(w, x) /\ rcpt' = rcpt
    BY <1>6 DEF UiClose
  <2> HIDE DEF x, R
  <2> QED BY <2>1, <2>2, TodoChange
<1>7. ASSUME NEW m \in Months, CloseEndpoint(w, m) PROVE Dated'
  <2>1. ToClose(m).job = "none"
    BY DEF ToClose, Task
  <2> QED BY <1>7, <2>1, OtherJobsKeepDates DEF CloseEndpoint
<1>8. ASSUME NEW m \in Months, Reopen(w, m) PROVE Dated'
  <2>1. PICK b : Go(w, [Task("insert", "reopening", {}, "idle", m) EXCEPT !.batch = b])
    BY <1>8 DEF Reopen
  <2> DEFINE x == [Task("insert", "reopening", {}, "idle", m) EXCEPT !.batch = b]
  <2>2. x.job = "reopening"
    BY DEF Task
  <2> HIDE DEF x
  <2> QED BY <1>8, <2>1, <2>2, OtherJobsKeepDates DEF Reopen, x
<1>9. CASE Bootstrap(w)
  BY <1>9 DEF Bootstrap, BooksInv, Dated, Exists, Months
<1> QED BY <1>2, <1>3, <1>4, <1>5, <1>6, <1>7, <1>8, <1>9 DEF Begin

LEMMA StepKeepsDates ==
    ASSUME BooksInv, NEW w \in Workers, Step(w)
    PROVE  Dated'
<1>1. req[w] \in RequestOver({req[w].batch}) /\ req[w].held \subseteq ReceiptIds
  BY RequestFields DEF BooksInv
<1>2. Idle.job = "none" /\ ToClose(req[w].month).job = "none"
  BY DEF Idle, ToClose, Task
<1>3. CASE CommitRevert(w)
  <2> DEFINE x == PostEach("undoPayment", req[w].held, "idle")
  <2>1. x.job = "undoPayment" /\ Go(w, x)
    BY <1>3 DEF CommitRevert, PostEach, Task
  <2>2. rcpt \in [ReceiptIds -> ReceiptType]
    BY DEF BooksInv, LedgerInv, Shape
  <2>3. ASSUME NEW q \in ReceiptIds
        PROVE  /\ rcpt'[q].created = rcpt[q].created /\ rcpt'[q].service = rcpt[q].service
               /\ rcpt'[q].status = "absent" <=> rcpt[q].status = "absent"
               /\ rcpt'[q].status = "paid" => rcpt'[q].paidAt \in Months
    <3> DEFINE back == [rcpt[q] EXCEPT !.status = "pending", !.paidAt = 0]
    <3>1. q \in req[w].held => rcpt[q].status = "paid"
      BY DEF BooksInv, Locking
    <3>2. rcpt' = [r \in ReceiptIds |->
                     IF r \in req[w].held
                     THEN [rcpt[r] EXCEPT !.status = "pending", !.paidAt = 0]
                     ELSE rcpt[r]]
      BY <1>3 DEF CommitRevert
    <3>3. rcpt'[q] = rcpt[q] \/ (rcpt'[q] = back /\ rcpt[q].status = "paid")
      BY <3>1, <3>2
    <3>4. /\ back.created = rcpt[q].created /\ back.service = rcpt[q].service
          /\ back.status = "pending"
      BY <2>2 DEF ReceiptType
    <3>5. rcpt[q].status = "paid" => rcpt[q].paidAt \in Months
      BY DEF BooksInv, Dated
    <3> HIDE DEF back
    <3> QED BY <3>3, <3>4, <3>5
  <2> HIDE DEF x
  <2> QED BY <2>1, <2>3, DatedReceipts
<1>4. CASE CheckCoverage(w)
  BY <1>2, <1>4, OtherJobsKeepDates DEF CheckCoverage
<1>5. ASSUME NEW r \in ReceiptIds, ReadForPosting(w, r) PROVE Dated'
  <2>1. PICK at, b : Go(w, [req[w] EXCEPT !.at = at, !.batch = b, !.todo = @ \ {r}])
    BY <1>5 DEF ReadForPosting
  <2> DEFINE x == [req[w] EXCEPT !.at = at, !.batch = b, !.todo = @ \ {r}]
  <2>2. x.job = req[w].job /\ x.todo \subseteq req[w].todo
    BY <1>1 DEF RequestOver
  <2> HIDE DEF x
  <2> QED BY <1>5, <2>1, <2>2, OtherJobsKeepDates DEF ReadForPosting, x
<1>6. CASE DonePosting(w)
  <2> DEFINE x == [req[w] EXCEPT !.at = req[w].after, !.job = "none"]
  <2>1. x.job = "none" /\ (Go(w, Idle) \/ Go(w, x))
    BY <1>1, <1>6 DEF RequestOver, DonePosting
  <2> HIDE DEF x
  <2> QED BY <1>2, <1>6, <2>1, OtherJobsKeepDates DEF DonePosting
<1>7. CASE ReadProvision(w)
  <2>1. PICK at, b : Go(w, [req[w] EXCEPT !.at = at, !.job = "provision", !.batch = b])
    BY <1>7 DEF ReadProvision
  <2> DEFINE x == [req[w] EXCEPT !.at = at, !.job = "provision", !.batch = b]
  <2>2. x.job = "provision"
    BY <1>1 DEF RequestOver
  <2> HIDE DEF x
  <2> QED BY <1>7, <2>1, <2>2, OtherJobsKeepDates DEF ReadProvision, x
<1>8. CASE ReadForClosing(w)
  <2>1. \/ Go(w, Idle)
        \/ \E saw, b : Go(w, [req[w] EXCEPT !.at = "insert", !.job = "closing",
                                            !.saw = saw, !.batch = b])
    BY <1>8 DEF ReadForClosing
  <2>2. ASSUME NEW saw, NEW b, Go(w, [req[w] EXCEPT !.at = "insert", !.job = "closing",
                                                    !.saw = saw, !.batch = b])
        PROVE  Dated'
    <3> DEFINE x == [req[w] EXCEPT !.at = "insert", !.job = "closing", !.saw = saw, !.batch = b]
    <3>1. x.job = "closing"
      BY <1>1 DEF RequestOver
    <3> HIDE DEF x
    <3> QED BY <1>8, <2>2, <3>1, OtherJobsKeepDates DEF ReadForClosing, x
  <2> QED BY <1>2, <1>8, <2>1, <2>2, OtherJobsKeepDates DEF ReadForClosing
<1>9. CASE Insert(w) \/ InsertFails(w)
  <2>1. \/ Go(w, Idle)
        \/ \E at \in {"close", "post"} : Go(w, [req[w] EXCEPT !.at = at, !.batch = NoBatch])
    BY <1>9 DEF Insert, InsertFails
  <2>2. rcpt' = rcpt
    BY <1>9 DEF Insert, InsertFails
  <2>3. ASSUME NEW at \in {"close", "post"}, Go(w, [req[w] EXCEPT !.at = at, !.batch = NoBatch])
        PROVE  Dated'
    <3> DEFINE x == [req[w] EXCEPT !.at = at, !.batch = NoBatch]
    <3>1. x.job = req[w].job /\ x.todo \subseteq req[w].todo
      BY <1>1 DEF RequestOver
    <3> HIDE DEF x
    <3> QED BY <2>2, <2>3, <3>1, OtherJobsKeepDates DEF x
  <2> QED BY <1>2, <2>1, <2>2, <2>3, OtherJobsKeepDates
<1> QED BY <1>3, <1>4, <1>5, <1>6, <1>7, <1>8, <1>9 DEF Step
-----------------------------------------------------------------------------
\* Every batch prepared is sound, and only prepared batches are inserted.
LEMMA SoundGo ==
    ASSUME BooksInv, NEW w \in Workers, NEW x, Go(w, x), gl' = gl,
           x.batch = NoBatch \/ SoundBatch(x.batch)
    PROVE  SoundBatches'
<1>1. \A v \in Workers : req'[v] = IF v = w THEN x ELSE req[v]
  BY DEF Go, BooksInv, LedgerInv, Shape
<1>2. \A v \in Workers : req'[v].batch = NoBatch \/ SoundBatch(req'[v].batch)
  BY <1>1 DEF BooksInv, SoundBatches
<1>3. \A i \in DOMAIN gl' : SoundBatch(gl'[i])
  BY DEF BooksInv, SoundBatches
<1> QED BY <1>2, <1>3 DEF SoundBatches, SoundBatch, BatchType, Months

LEMMA BeginKeepsSound ==
    ASSUME BooksInv, NEW w \in Workers, Begin(w)
    PROVE  SoundBatches'
<1>1. \A job, R, after : PostEach(job, R, after).batch = NoBatch
  BY DEF PostEach, Task
<1>2. ASSUME NEW r \in ReceiptIds, RevertPaid(w, r) PROVE SoundBatches'
  <2>1. [PostEach("undoPayment", {r}, "revert") EXCEPT !.held = {r}].batch = NoBatch
    BY DEF PostEach, Task
  <2> QED BY <1>2, <2>1, SoundGo DEF RevertPaid
<1>3. ASSUME NEW m \in Months, UiClose(w, m) \/ CloseEndpoint(w, m) PROVE SoundBatches'
  <2>1. ToClose(m).batch = NoBatch /\ \A R : Task("post", "accrual", R, "coverage", m).batch = NoBatch
    BY DEF ToClose, Task
  <2> QED BY <1>3, <2>1, SoundGo DEF UiClose, CloseEndpoint
<1>4. ASSUME NEW m \in Months, Reopen(w, m) PROVE SoundBatches'
  <2> DEFINE b == IF Posted(m, "closing")
                  THEN Batch(m, "reversal", now, Reversed(Find(m, "closing").lines)) ELSE NoBatch
             x == [Task("insert", "reopening", {}, "idle", m) EXCEPT !.batch = b]
  <2>1. b = NoBatch \/ SoundBatch(b)
    BY ReopeningSound
  <2>2. Go(w, x)
    BY <1>4 DEF Reopen
  <2> HIDE DEF b
  <2>3. x.batch = b
    BY DEF Task
  <2> HIDE DEF x
  <2> QED BY <1>4, <2>1, <2>2, <2>3, SoundGo DEF Reopen
<1>5. ASSUME NEW r \in ReceiptIds, NEW m \in Months, NEW monthly \in BOOLEAN,
             CreateReceipt(w, r, m, monthly)
      PROVE  SoundBatches'
  BY <1>1, <1>5, SoundGo DEF CreateReceipt
<1>6. ASSUME NEW r \in ReceiptIds, MarkPaid(w, r) \/ RevertPending(w, r) PROVE SoundBatches'
  BY <1>1, <1>6, SoundGo DEF MarkPaid, RevertPending
<1>7. ASSUME NEW m \in Months, BulkVoid(w, m) PROVE SoundBatches'
  BY <1>1, <1>7, SoundGo DEF BulkVoid
<1>8. CASE Bootstrap(w)
  BY <1>8 DEF Bootstrap, BooksInv, SoundBatches, SoundBatch, BatchType, Months
<1> QED BY <1>2, <1>3, <1>4, <1>5, <1>6, <1>7, <1>8 DEF Begin

LEMMA InsertKeepsSound ==
    ASSUME BooksInv, NEW w \in Workers, Insert(w)
    PROVE  SoundBatches'
<1> DEFINE b == req[w].batch
<1>1. req[w] \in RequestOver({b}) /\ (b = NoBatch \/ SoundBatch(b))
  BY RequestFields DEF BooksInv, SoundBatches
<1>2. PICK x : Go(w, x) /\ x.batch = NoBatch
  <2>1. Idle.batch = NoBatch
    BY DEF Idle, Task
  <2>2. /\ [req[w] EXCEPT !.at = "close", !.batch = NoBatch].batch = NoBatch
        /\ [req[w] EXCEPT !.at = "post", !.batch = NoBatch].batch = NoBatch
    BY <1>1 DEF RequestOver
  <2> QED BY <2>1, <2>2 DEF Insert
<1>3. \A v \in Workers : req'[v] = IF v = w THEN x ELSE req[v]
  BY <1>2 DEF Go, BooksInv, LedgerInv, Shape
<1>4. PICK B : gl \in Seq(B)
  BY DEF BooksInv, LedgerInv, Shape
<1>5. \A i \in DOMAIN gl' : (i \in DOMAIN gl /\ gl'[i] = gl[i]) \/ (gl'[i] = b /\ b # NoBatch)
  <2>1. gl' = gl \/ (gl' = Append(gl, b) /\ b # NoBatch)
    BY DEF Insert
  <2>2. gl \in Seq(B \cup {b}) /\ b \in B \cup {b}
    BY <1>4, OverLarger
  <2> QED BY <2>1, <2>2
<1>6. \A i \in DOMAIN gl' : SoundBatch(gl'[i])
  BY <1>1, <1>5 DEF BooksInv, SoundBatches
<1>7. \A v \in Workers : req'[v].batch = NoBatch \/ SoundBatch(req'[v].batch)
  BY <1>2, <1>3 DEF BooksInv, SoundBatches
<1> QED BY <1>6, <1>7 DEF SoundBatches, SoundBatch, BatchType, Months

LEMMA StepKeepsSound ==
    ASSUME BooksInv, NEW w \in Workers, Step(w)
    PROVE  SoundBatches'
<1>1. /\ req[w] \in RequestOver({req[w].batch}) /\ Consistent(req[w])
      /\ req[w].batch = NoBatch \/ SoundBatch(req[w].batch)
  BY RequestFields DEF BooksInv, SoundBatches
<1>2. Idle.batch = NoBatch /\ ToClose(req[w].month).batch = NoBatch
  BY DEF Idle, ToClose, Task
<1>3. CASE CommitRevert(w)
  <2>1. PostEach("undoPayment", req[w].held, "idle").batch = NoBatch
    BY DEF PostEach, Task
  <2> QED BY <1>3, <2>1, SoundGo DEF CommitRevert
<1>4. CASE CheckCoverage(w)
  BY <1>2, <1>4, SoundGo DEF CheckCoverage
<1>5. ASSUME NEW r \in ReceiptIds, ReadForPosting(w, r) PROVE SoundBatches'
  <2> DEFINE b == Prepare(req[w].job, r)
             at == IF b = NoBatch THEN "post" ELSE "insert"
             x == [req[w] EXCEPT !.at = at, !.batch = b, !.todo = @ \ {r}]
  <2>1. req[w].job \in PostingJobs /\ (req[w].job \in {"issue", "accrual"} => Exists(r))
    BY <1>1, <1>5 DEF ReadForPosting, Consistent, BooksInv, Dated
  <2>2. b = NoBatch \/ SoundBatch(b)
    BY <2>1, PrepareSound
  <2>3. Go(w, x) /\ gl' = gl
    BY <1>5 DEF ReadForPosting
  <2> HIDE DEF b, at
  <2>4. x.batch = b
    BY <1>1 DEF RequestOver
  <2> HIDE DEF x
  <2> QED BY <2>2, <2>3, <2>4, SoundGo
<1>6. CASE DonePosting(w)
  <2> DEFINE x == [req[w] EXCEPT !.at = req[w].after, !.job = "none"]
  <2>1. x.batch = req[w].batch /\ (Go(w, Idle) \/ Go(w, x))
    BY <1>1, <1>6 DEF RequestOver, DonePosting
  <2> HIDE DEF x
  <2> QED BY <1>1, <1>2, <1>6, <2>1, SoundGo DEF DonePosting
<1>7. CASE ReadProvision(w)
  <2> DEFINE m == req[w].month
             dAr == Delta("ar", "alwAr", m)
             dCa == Delta("ca", "alwCa", m)
             b == IF (dAr = 0 /\ dCa = 0) \/ Closed(m) THEN NoBatch
                  ELSE Batch(m, "impairment", m, ImpairmentLines(dAr, dCa))
             at == IF b = NoBatch THEN "close" ELSE "insert"
             x == [req[w] EXCEPT !.at = at, !.job = "provision", !.batch = b]
  <2>1. m \in Months
    BY <1>1, <1>7 DEF ReadProvision, Consistent
  <2>2. b = NoBatch \/ SoundBatch(b)
    BY <2>1, ProvisionSound
  <2>3. Go(w, x) /\ gl' = gl
    BY <1>7 DEF ReadProvision
  <2> HIDE DEF b, at
  <2>4. x.batch = b
    BY <1>1 DEF RequestOver
  <2> HIDE DEF x
  <2> QED BY <2>2, <2>3, <2>4, SoundGo
<1>8. CASE ReadForClosing(w)
  <2> DEFINE m == req[w].month
             I == {i \in DOMAIN gl : gl[i].period = m /\ gl[i].kind # "closing"}
             b == IF I = {} THEN NoBatch
                  ELSE Batch(m, "closing", m, ClosingLines([a \in Accounts |-> BalanceOf(a, I)]))
             x == [req[w] EXCEPT !.at = "insert", !.job = "closing", !.saw = period[m], !.batch = b]
  <2>1. m \in Months /\ I \in SUBSET (DOMAIN gl)
    BY <1>1, <1>8 DEF ReadForClosing, Consistent
  <2> HIDE DEF I
  <2>2. b = NoBatch \/ SoundBatch(b)
    BY <2>1, ClosingSound
  <2>3. (Go(w, Idle) \/ Go(w, x)) /\ gl' = gl
    BY <1>8 DEF ReadForClosing, I
  <2> HIDE DEF b
  <2>4. x.batch = b
    BY <1>1 DEF RequestOver
  <2> HIDE DEF x
  <2> QED BY <1>2, <2>2, <2>3, <2>4, SoundGo
<1>9. CASE InsertFails(w)
  <2>1. [req[w] EXCEPT !.at = "post", !.batch = NoBatch].batch = NoBatch
    BY <1>1 DEF RequestOver
  <2> QED BY <1>2, <1>9, <2>1, SoundGo DEF InsertFails
<1> QED BY <1>3, <1>4, <1>5, <1>6, <1>7, <1>8, <1>9, InsertKeepsSound DEF Step

LEMMA BooksInductive ==
    /\ Init => BooksInv
    /\ BooksInv /\ [Next]_vars => BooksInv'
<1>1. ASSUME Init PROVE BooksInv
  <2>1. LedgerInv /\ Locking
    BY <1>1, LifeInductive DEF LifeInv
  <2>2. Dated /\ SoundBatches
    BY <1>1 DEF Init, Dated, SoundBatches, Exists, NoReceipt, Idle, Task
  <2> QED BY <2>1, <2>2 DEF BooksInv
<1>2. ASSUME BooksInv, [Next]_vars PROVE BooksInv'
  <2>1. LedgerInv' /\ Locking'
    BY <1>2, LifeInductive DEF BooksInv, LifeInv
  <2>2. ASSUME NEW w \in Workers, Crash(w) PROVE Dated' /\ SoundBatches'
    <3>1. Idle.batch = NoBatch /\ Idle.job = "none"
      BY DEF Idle, Task
    <3> QED BY <1>2, <2>2, <3>1, SoundGo, OtherJobsKeepDates DEF Crash
  <2>3. ASSUME NextMonth \/ UNCHANGED vars PROVE Dated' /\ SoundBatches'
    BY <1>2, <2>3 DEF NextMonth, vars, BooksInv, Dated, SoundBatches, SoundBatch, Exists,
                      BatchType, Months
  <2>4. Dated' /\ SoundBatches'
    BY <1>2, <2>2, <2>3, BeginKeepsDates, StepKeepsDates, BeginKeepsSound, StepKeepsSound DEF Next
  <2> QED BY <2>1, <2>4 DEF BooksInv
<1> QED BY <1>1, <1>2

LEMMA TypesFromInv == BooksInv => TypeOK
<1> SUFFICES ASSUME BooksInv PROVE TypeOK
  OBVIOUS
<1>1. PICK B : gl \in Seq(B) /\ req \in [Workers -> RequestOver(B)]
  BY DEF BooksInv, LedgerInv, Shape
<1>2. \A i \in DOMAIN gl : gl[i] \in BatchType
  BY DEF BooksInv, SoundBatches, SoundBatch
<1>3. gl \in Seq(BatchType)
  BY <1>1, <1>2
<1>4. ASSUME NEW w \in Workers PROVE req[w] \in Request
  <2>1. req[w] \in RequestOver(B) /\ req[w].batch \in BatchType \cup {NoBatch}
    BY <1>1 DEF BooksInv, SoundBatches, SoundBatch
  <2> HIDE DEF NoBatch
  <2> QED BY <2>1 DEF RequestOver, Request
<1>5. req \in [Workers -> Request]
  BY <1>1, <1>4
<1> QED BY <1>3, <1>5 DEF TypeOK, BooksInv, LedgerInv, Shape

\* Every handler, from creating a receipt to closing a month, leaves rows and
\* batches of the declared types.
THEOREM TypeCorrect == Spec => []TypeOK
BY BooksInductive, TypesFromInv, PTL DEF Spec

\* Debits equal credits in every batch the handlers commit, whatever the
\* amounts and however they overlap: post_receipt_issued and the others, the
\* reversals, the provision and the closing batch of close_period.
THEOREM BooksBalanced == Spec => []BooksBalance
<1>1. BooksInv => BooksBalance
  BY DEF BooksInv, SoundBatches, SoundBatch, BooksBalance
<1> QED BY <1>1, BooksInductive, PTL DEF Spec
-----------------------------------------------------------------------------
\* The trial balance: the balances of all accounts over any batches add up to 0.
TrialBalance(I) == [a \in Accounts |-> BalanceOf(a, I)]

\* A batch more adds its lines to the balances.
LEMMA BalanceWithOneMore ==
    ASSUME BooksInv, NEW a \in Accounts, NEW I \in SUBSET (DOMAIN gl), NEW i \in I
    PROVE  BalanceOf(a, I) = gl[i].lines[a] + BalanceOf(a, I \ {i})
<1> DEFINE f == [k \in I |-> gl[k].lines[a]]
           e == [k \in I \ {i} |-> gl[k].lines[a]]
<1>1. IsFiniteSet(I) /\ IsFiniteSet(I \ {i})
  <2>1. IsFiniteSet(1 .. Len(gl)) /\ DOMAIN gl = 1 .. Len(gl)
    BY FS_Interval DEF BooksInv, LedgerInv, Shape
  <2> QED BY <2>1, FS_Subset
<1>2. \A k \in I : f[k] \in Int
  BY DEF BooksInv, SoundBatches, SoundBatch, BatchType, Lines
<1>3. \A k \in I \ {i} : f[k] = e[k]
  OBVIOUS
<1>4. f[i] = gl[i].lines[a]
  OBVIOUS
<1> HIDE DEF f, e
<1>5. SumFunctionOnSet(f, I) = f[i] + SumFunctionOnSet(f, I \ {i})
  BY <1>1, <1>2, SumFromAny
<1>6. SumFunctionOnSet(f, I \ {i}) = SumFunctionOnSet(e, I \ {i})
  BY <1>1, <1>3, SumOfSame
<1>7. BalanceOf(a, I) = SumFunctionOnSet(f, I) /\ BalanceOf(a, I \ {i}) = SumFunctionOnSet(e, I \ {i})
  BY DEF BalanceOf, f, e
<1> QED BY <1>4, <1>5, <1>6, <1>7

LEMMA BalancesAddUp ==
    ASSUME BooksInv, NEW J \in SUBSET (DOMAIN gl)
    PROVE  Total(TrialBalance(J)) = 0
<1> DEFINE Bad == {I \in SUBSET (DOMAIN gl) : Total(TrialBalance(I)) # 0}
<1> SUFFICES ASSUME Bad # {} PROVE FALSE
  OBVIOUS
<1>1. \A I \in SUBSET (DOMAIN gl) : IsFiniteSet(I)
  <2>1. IsFiniteSet(1 .. Len(gl)) /\ DOMAIN gl = 1 .. Len(gl)
    BY FS_Interval DEF BooksInv, LedgerInv, Shape
  <2> QED BY <2>1, FS_Subset
<1>2. PICK I \in Bad : \A K \in Bad : Cardinality(I) <= Cardinality(K)
  <2>1. \A K \in Bad : IsFiniteSet(K)
    BY <1>1
  <2> HIDE DEF Bad
  <2> QED BY <2>1, SmallestSet
<1>3. I \in SUBSET (DOMAIN gl) /\ IsFiniteSet(I)
  BY <1>1
<1>4. Total(TrialBalance({})) = 0
  <2>1. \A a \in Accounts : BalanceOf(a, {}) = 0
    BY SumOverNone DEF BalanceOf
  <2> QED BY <2>1 DEF TrialBalance, Total, Accounts
<1>5. PICK i \in I : TRUE
  BY <1>4
<1> DEFINE R == I \ {i}
<1>6. R \in SUBSET (DOMAIN gl) /\ ~(Cardinality(I) <= Cardinality(R))
  BY <1>3, OneLess
<1>7. Total(TrialBalance(R)) = 0
  BY <1>2, <1>6
<1>8. ASSUME NEW a \in Accounts
      PROVE  /\ TrialBalance(I)[a] = gl[i].lines[a] + TrialBalance(R)[a]
             /\ gl[i].lines[a] \in Int /\ TrialBalance(R)[a] \in Int
  <2>1. BalanceOf(a, I) = gl[i].lines[a] + BalanceOf(a, R) /\ BalanceOf(a, R) \in Int
    BY <1>3, BalanceWithOneMore, BalanceIsInteger
  <2>2. gl[i].lines \in [Accounts -> Int]
    BY <1>3 DEF BooksInv, SoundBatches, SoundBatch, BatchType, Lines
  <2> QED BY <2>1, <2>2 DEF TrialBalance
<1>9. Total(gl[i].lines) = 0
  BY <1>3 DEF BooksInv, SoundBatches, SoundBatch
<1>10. Total(TrialBalance(I)) # 0
  OBVIOUS
<1> DEFINE bI == TrialBalance(I)
           bR == TrialBalance(R)
<1>11. Total(bI) = Total(gl[i].lines) + Total(bR)
  <2>1. \A a \in Accounts : bI[a] = gl[i].lines[a] + bR[a] /\ gl[i].lines[a] \in Int /\ bR[a] \in Int
    BY <1>8
  <2> HIDE DEF bI, bR
  <2> QED BY <2>1 DEF Total, Accounts
<1> QED BY <1>7, <1>9, <1>10, <1>11

\* The trial balance of any batches (a month, all up to a month, one receipt)
\* agrees at any moment: trial_balance over the posted journal of a window.
THEOREM TrialBalanceAgrees ==
    Spec => [](\A I \in SUBSET (DOMAIN gl) : Total(TrialBalance(I)) = 0)
<1>1. BooksInv => \A I \in SUBSET (DOMAIN gl) : Total(TrialBalance(I)) = 0
  BY BalancesAddUp
<1> QED BY <1>1, BooksInductive, PTL DEF Spec
=============================================================================
