--------------------------- MODULE Receipts_proofs ---------------------------
(***************************************************************************)
(* Theorems about module Receipts, for every set of jobs, users, windows,  *)
(* receipts, payments and sessions.  The inductive invariant adds to the   *)
(* properties the checks run what a session may hold between its steps.    *)
(***************************************************************************)
EXTENDS Receipts, TLAPS

\* What a session holds: rows only while it pays, reverts or voids; jobs of
\* its window while it bills, and some job of the user it is about to bill.
Holds(x) ==
    /\ x.seen \subseteq x.target
    /\ x.op \notin {"pay", "revert", "void"} => x.target = {}
    /\ x.op \notin {"invoice", "self"} => x.user = None
    /\ x.op \in {"invoice", "self"} =>
          x.window \in Windows /\ x.jobs \subseteq JobsIn[x.window]
    /\ x.op = "self" => x.jobs = JobsOfUser(x.jobs, x.user)
    /\ x.user # None => JobsOfUser(x.jobs, x.user) # {}
    /\ x.op = "revert" => \A p, q \in x.target : p = q

SessionsHold == \A s \in Sessions : Holds(sess[s])

IInv == /\ TypeOK
        /\ SessionsHold
        /\ LocksProtectReads
        /\ PaidHasOneSucceededPayment
        /\ ReceiptHoldsItsJobs
        /\ JobBilledOnce

-----------------------------------------------------------------------------
\* A local state is one of the records of Session.
LEMMA SessionType ==
    ASSUME TypeOK, NEW s \in Sessions
    PROVE  /\ sess[s] \in Session
           /\ sess[s].window \in Windows \cup {None} /\ sess[s].user \in Users \cup {None}
           /\ sess[s].jobs \subseteq Jobs /\ sess[s].target \subseteq ReceiptIds
           /\ sess[s].seen \subseteq ReceiptIds
BY DEF TypeOK, Session

LEMMA IdleType == Idle \in Session
BY DEF Idle, Session

LEMMA RemainingType ==
    ASSUME TypeOK, NEW s \in Sessions, NEW J \in SUBSET Jobs
    PROVE  Remaining(s, J) \in Session
BY SessionType, IdleType DEF Remaining, Session

LEMMA InitTypeOK == Init => TypeOK
BY IdleType DEF Init, TypeOK, NoHead, NoPayment

LEMMA TypeStep ==
    ASSUME TypeOK, [Next]_vars
    PROVE  TypeOK'
<1>1. ASSUME NEW j \in Jobs, JobFinishes(j) PROVE TypeOK'
  BY <1>1 DEF TypeOK, JobFinishes, rows
<1>2. ASSUME NEW s \in Sessions, NEW w \in MonthWindows, FetchMonth(s, w) PROVE TypeOK'
  BY <1>2, WindowAssumption DEF TypeOK, FetchMonth, rows, Idle, Session, Windows, Unbilled
<1>3. ASSUME NEW s \in Sessions, NEW u \in Admins, NEW w \in SelfWindows, FetchSelf(s, u, w)
      PROVE TypeOK'
  BY <1>3, WindowAssumption, UserAssumption
  DEF TypeOK, FetchSelf, rows, Idle, Session, Windows, Unbilled, JobsOfUser
<1>4. ASSUME NEW s \in Sessions, NEW R \in SUBSET ReceiptIds, NEW op \in {"pay", "revert", "void"},
             NEW st, LockRows(s, op, R, st)
      PROVE TypeOK'
  BY <1>4 DEF TypeOK, LockRows, rows, Idle, Session
<1>5. ASSUME NEW s \in Sessions, NEW u \in Users, CheckUser(s, u) PROVE TypeOK'
  <2>1. [sess[s] EXCEPT !.user = u] \in Session
    BY SessionType DEF Session
  <2>2. Remaining(s, sess[s].jobs \ JobsOfUser(sess[s].jobs, u)) \in Session
    BY SessionType, RemainingType
  <2> QED BY <1>5, <2>1, <2>2 DEF TypeOK, CheckUser, rows
<1>6. ASSUME NEW s \in Sessions, NEW r \in ReceiptIds, CreateReceipt(s, r) PROVE TypeOK'
  <2> DEFINE J == JobsOfUser(sess[s].jobs, sess[s].user)
  <2>1. J \subseteq Jobs /\ Remaining(s, sess[s].jobs \ J) \in Session
    BY SessionType, RemainingType DEF JobsOfUser
  <2>2. status' \in [ReceiptIds -> {"absent", "pending", "paid", "void"}]
    BY <1>6 DEF TypeOK, CreateReceipt, InsertReceipt
  <2>3. head' \in [ReceiptIds -> [user : Users \cup {None}, window : Windows \cup {None}]]
    <3>1. [user |-> sess[s].user, window |-> sess[s].window]
            \in [user : Users \cup {None}, window : Windows \cup {None}]
      BY SessionType
    <3> QED BY <1>6, <3>1 DEF TypeOK, CreateReceipt, InsertReceipt
  <2>4. items' \in SUBSET (ReceiptIds \X Jobs)
    BY <1>6, <2>1 DEF TypeOK, CreateReceipt, InsertReceipt
  <2>5. sess' \in [Sessions -> Session]
    BY <1>6, <2>1 DEF TypeOK, CreateReceipt
  <2>6. UNCHANGED <<finished, payment, txRef>>
    BY <1>6 DEF CreateReceipt
  <2> QED BY <2>2, <2>3, <2>4, <2>5, <2>6 DEF TypeOK
<1>7. ASSUME NEW s \in Sessions, PayCommit(s) PROVE TypeOK'
  <2>1. CASE UNCHANGED <<status, payment, txRef>>
    BY <1>7, <2>1, IdleType DEF TypeOK, PayCommit
  <2>2. ASSUME NEW r \in sess[s].seen, NEW p \in PaymentIds, Settle(r, p) PROVE TypeOK'
    <3>1. r \in ReceiptIds
      BY SessionType
    <3>2. payment' \in [PaymentIds -> [of : ReceiptIds \cup {None},
                                      status : {"absent", "succeeded", "canceled"}]]
      BY <2>2, <3>1 DEF TypeOK, Settle
    <3> QED BY <1>7, <2>2, <3>1, <3>2, IdleType DEF TypeOK, PayCommit, Settle
  <2> QED BY <1>7, <2>1, <2>2 DEF PayCommit
<1>8. ASSUME NEW s \in Sessions, RevertCommit(s) PROVE TypeOK'
  BY <1>8, IdleType DEF TypeOK, RevertCommit
<1>9. ASSUME NEW s \in Sessions, VoidCommit(s) PROVE TypeOK'
  BY <1>9, IdleType DEF TypeOK, VoidCommit
<1>10. ASSUME NEW s \in Sessions, Abandon(s) PROVE TypeOK'
  BY <1>10, IdleType DEF TypeOK, Abandon, rows
<1>11. CASE UNCHANGED vars
  BY <1>11 DEF TypeOK, vars, rows
<1> QED
  BY <1>1, <1>2, <1>3, <1>4, <1>5, <1>6, <1>7, <1>8, <1>9, <1>10, <1>11
  DEF Next, Start, Finish, LockToPay, LockToRevert, LockToVoid

\* Every variable keeps the shape of its table (schema.py) in every run.
THEOREM TypeCorrect == Spec => []TypeOK
<1>1. TypeOK /\ [Next]_vars => TypeOK'
  BY TypeStep
<1> QED
  BY <1>1, InitTypeOK, PTL DEF Spec

-----------------------------------------------------------------------------
\* Sessions

LEMMA HoldsUpdate ==
    ASSUME TypeOK, SessionsHold, NEW s \in Sessions, NEW x, Holds(x),
           sess' = [sess EXCEPT ![s] = x]
    PROVE  SessionsHold'
BY DEF TypeOK, SessionsHold, Holds

LEMMA IdleHolds == Holds(Idle)
BY DEF Holds, Idle

\* The jobs of u are dealt with: what remains is held like before.
LEMMA RemainingHolds ==
    ASSUME TypeOK, SessionsHold, NEW s \in Sessions, NEW u, sess[s].op \in {"invoice", "self"},
           sess[s].op = "self" => u = sess[s].user
    PROVE  Holds(Remaining(s, sess[s].jobs \ JobsOfUser(sess[s].jobs, u)))
<1> DEFINE J == sess[s].jobs \ JobsOfUser(sess[s].jobs, u)
<1>1. CASE J = {}
  BY <1>1, IdleHolds DEF Remaining
<1>2. CASE J # {}
  <2>1. sess[s].op = "invoice"
    BY <1>2 DEF SessionsHold, Holds
  <2>2. Remaining(s, J) = [sess[s] EXCEPT !.user = None, !.jobs = J]
    BY <1>2 DEF Remaining
  <2>3. Remaining(s, J).op = "invoice" /\ Remaining(s, J).user = None
        /\ Remaining(s, J).jobs = J /\ Remaining(s, J).window = sess[s].window
        /\ Remaining(s, J).target = sess[s].target /\ Remaining(s, J).seen = sess[s].seen
    BY <2>1, <2>2, SessionType DEF Session
  <2> QED BY <2>1, <2>3 DEF SessionsHold, Holds
<1> QED BY <1>1, <1>2

LEMMA HoldsStep ==
    ASSUME TypeOK, SessionsHold, [Next]_vars
    PROVE  SessionsHold'
<1>1. ASSUME NEW s \in Sessions, NEW w \in MonthWindows, FetchMonth(s, w) PROVE SessionsHold'
  <2>1. Holds([Idle EXCEPT !.op = "invoice", !.window = w, !.jobs = Unbilled(w)])
    BY DEF Holds, Idle, Unbilled, Windows
  <2> QED BY <1>1, <2>1, HoldsUpdate DEF FetchMonth
<1>2. ASSUME NEW s \in Sessions, NEW u \in Admins, NEW w \in SelfWindows, FetchSelf(s, u, w)
      PROVE SessionsHold'
  <2>1. Holds([Idle EXCEPT !.op = "self", !.window = w, !.user = u,
                           !.jobs = JobsOfUser(Unbilled(w), u)])
    BY <1>2 DEF Holds, Idle, Unbilled, Windows, FetchSelf, JobsOfUser
  <2> QED BY <1>2, <2>1, HoldsUpdate DEF FetchSelf
<1>3. ASSUME NEW s \in Sessions, NEW R, NEW op \in {"pay", "revert", "void"}, NEW st,
             LockRows(s, op, R, st), op = "revert" => \A p, q \in R : p = q
      PROVE SessionsHold'
  <2>1. Holds([Idle EXCEPT !.op = op, !.target = R, !.seen = {r \in R : status[r] = st}])
    BY <1>3 DEF Holds, Idle
  <2> QED BY <1>3, <2>1, HoldsUpdate DEF LockRows
<1>4. ASSUME NEW s \in Sessions, NEW u \in Users, CheckUser(s, u) PROVE SessionsHold'
  <2>1. Holds(Remaining(s, sess[s].jobs \ JobsOfUser(sess[s].jobs, u)))
    BY <1>4, RemainingHolds DEF CheckUser
  <2>2. Holds([sess[s] EXCEPT !.user = u])
    <3> DEFINE x == [sess[s] EXCEPT !.user = u]
    <3>1. /\ x.op = "invoice" /\ x.user = u /\ x.jobs = sess[s].jobs
          /\ x.window = sess[s].window /\ x.target = sess[s].target /\ x.seen = sess[s].seen
      BY <1>4, SessionType DEF CheckUser, Session
    <3> QED BY <1>4, <3>1 DEF SessionsHold, Holds, CheckUser
  <2> QED BY <1>4, <2>1, <2>2, HoldsUpdate DEF CheckUser
<1>5. ASSUME NEW s \in Sessions, NEW r \in ReceiptIds, CreateReceipt(s, r) PROVE SessionsHold'
  <2>1. sess[s].op \in {"invoice", "self"}
    BY <1>5 DEF CreateReceipt, SessionsHold, Holds
  <2>2. Holds(Remaining(s, sess[s].jobs \ JobsOfUser(sess[s].jobs, sess[s].user)))
    BY <2>1, RemainingHolds
  <2> QED BY <1>5, <2>2, HoldsUpdate DEF CreateReceipt
<1>6. ASSUME NEW s \in Sessions, sess' = [sess EXCEPT ![s] = Idle] PROVE SessionsHold'
  BY <1>6, IdleHolds, HoldsUpdate
<1>7. CASE UNCHANGED sess
  BY <1>7 DEF SessionsHold
<1> QED
  BY <1>1, <1>2, <1>3, <1>4, <1>5, <1>6, <1>7
  DEF Next, Start, Finish, LockToPay, LockToRevert, LockToVoid, JobFinishes, PayCommit,
      RevertCommit, VoidCommit, Abandon, vars

-----------------------------------------------------------------------------
\* Row locks

\* A session that gives up its locks disturbs no other, if it left alone the
\* rows the others have read.
LEMMA LocksUpdate ==
    ASSUME TypeOK, LocksProtectReads, NEW s \in Sessions, NEW x,
           sess' = [sess EXCEPT ![s] = x], x.target = {}, x.seen = {},
           \A t \in Sessions \ {s} : \A r \in sess[t].seen : status'[r] = status[r]
    PROVE  LocksProtectReads'
<1>1. sess'[s] = x /\ \A t \in Sessions \ {s} : sess'[t] = sess[t]
  BY DEF TypeOK
<1> QED BY <1>1 DEF LocksProtectReads

\* What session s has locked, no other session has read under its lock.
LEMMA OthersRead ==
    ASSUME SessionsHold, LocksProtectReads, NEW s \in Sessions, NEW t \in Sessions \ {s},
           NEW r \in sess[t].seen
    PROVE  r \notin sess[s].seen
BY DEF SessionsHold, Holds, LocksProtectReads

LEMMA LocksStep ==
    ASSUME TypeOK, SessionsHold, LocksProtectReads, [Next]_vars
    PROVE  LocksProtectReads'
<1>1. ASSUME NEW s \in Sessions, NEW x, x.target = {}, x.seen = {},
             sess' = [sess EXCEPT ![s] = x], UNCHANGED status
      PROVE LocksProtectReads'
  BY <1>1, LocksUpdate
<1>2. ASSUME NEW s \in Sessions, NEW w \in MonthWindows, FetchMonth(s, w)
      PROVE LocksProtectReads'
  BY <1>1, <1>2 DEF FetchMonth, Idle, rows
<1>3. ASSUME NEW s \in Sessions, NEW u \in Admins, NEW w \in SelfWindows, FetchSelf(s, u, w)
      PROVE LocksProtectReads'
  BY <1>1, <1>3 DEF FetchSelf, Idle, rows
<1>4. ASSUME NEW s \in Sessions, sess[s].op \notin {"pay", "revert", "void"}, NEW J
      PROVE  Remaining(s, J).target = {} /\ Remaining(s, J).seen = {}
  BY <1>4, SessionType DEF SessionsHold, Holds, Remaining, Idle, Session
<1>5. ASSUME NEW s \in Sessions, NEW u \in Users, CheckUser(s, u) PROVE LocksProtectReads'
  <2>1. [sess[s] EXCEPT !.user = u].target = {} /\ [sess[s] EXCEPT !.user = u].seen = {}
    BY <1>5, SessionType DEF CheckUser, SessionsHold, Holds, Session
  <2>2. UNCHANGED status
    BY <1>5 DEF CheckUser, rows
  <2>3. CASE HasInvoice(u, sess[s].window)
    BY <1>1, <1>4, <1>5, <2>2, <2>3 DEF CheckUser
  <2>4. CASE ~HasInvoice(u, sess[s].window)
    BY <1>1, <1>5, <2>1, <2>2, <2>4 DEF CheckUser
  <2> QED BY <2>3, <2>4
<1>6. ASSUME NEW s \in Sessions, NEW r \in ReceiptIds, CreateReceipt(s, r)
      PROVE LocksProtectReads'
  <2> DEFINE x == Remaining(s, sess[s].jobs \ JobsOfUser(sess[s].jobs, sess[s].user))
  <2>1. x.target = {} /\ x.seen = {} /\ sess' = [sess EXCEPT ![s] = x]
    BY <1>4, <1>6 DEF CreateReceipt, SessionsHold, Holds
  <2>2. ASSUME NEW t \in Sessions, NEW q \in sess[t].seen PROVE status'[q] = status[q]
    <3>1. q \in ReceiptIds /\ q # r
      BY <1>6, <2>2, SessionType DEF LocksProtectReads, CreateReceipt
    <3> QED BY <1>6, <3>1 DEF TypeOK, CreateReceipt, InsertReceipt
  <2> HIDE DEF x
  <2> QED BY <2>1, <2>2, LocksUpdate
<1>7. ASSUME NEW s \in Sessions, NEW R, NEW op, NEW st, LockRows(s, op, R, st),
             st = IF op = "revert" THEN "paid" ELSE "pending"
      PROVE LocksProtectReads'
  <2> DEFINE x == [Idle EXCEPT !.op = op, !.target = R, !.seen = {r \in R : status[r] = st}]
  <2>1. sess'[s] = x /\ UNCHANGED status /\ \A t \in Sessions \ {s} : sess'[t] = sess[t]
    BY <1>7 DEF LockRows, TypeOK, rows
  <2>2. x.op = op /\ x.target = R /\ x.seen = {r \in R : status[r] = st}
    BY DEF Idle
  <2>3. \A t \in Sessions : sess[t].target \cap R = {}
    BY <1>7 DEF LockRows, Unlocked
  <2> HIDE DEF x
  <2> QED BY <1>7, <2>1, <2>2, <2>3 DEF LocksProtectReads
<1>8. ASSUME NEW s \in Sessions, sess' = [sess EXCEPT ![s] = Idle],
             \A q \in ReceiptIds \ sess[s].seen : status'[q] = status[q]
      PROVE LocksProtectReads'
  <2>1. ASSUME NEW t \in Sessions \ {s}, NEW r \in sess[t].seen PROVE status'[r] = status[r]
    BY <1>8, <2>1, OthersRead, SessionType
  <2>2. Idle.target = {} /\ Idle.seen = {}
    BY DEF Idle
  <2> QED BY <1>8, <2>1, <2>2, LocksUpdate
<1>9. ASSUME NEW s \in Sessions, PayCommit(s) \/ RevertCommit(s) \/ VoidCommit(s) \/ Abandon(s)
      PROVE LocksProtectReads'
  <2>1. \A q \in ReceiptIds \ sess[s].seen : status'[q] = status[q]
    BY <1>9 DEF TypeOK, PayCommit, Settle, RevertCommit, VoidCommit, Abandon, rows
  <2>2. sess' = [sess EXCEPT ![s] = Idle]
    BY <1>9 DEF PayCommit, RevertCommit, VoidCommit, Abandon
  <2> QED BY <1>8, <2>1, <2>2
<1>10. CASE UNCHANGED <<sess, status>>
  BY <1>10 DEF LocksProtectReads
<1> QED
  BY <1>2, <1>3, <1>5, <1>6, <1>7, <1>9, <1>10
  DEF Next, Start, Finish, LockToPay, LockToRevert, LockToVoid, JobFinishes, vars, rows

-----------------------------------------------------------------------------
\* Receipts, items and payments

\* Only four steps write to the tables.
LEMMA WritingSteps ==
    ASSUME [Next]_vars
    PROVE  \/ UNCHANGED rows
           \/ \E s \in Sessions : \/ \E r \in ReceiptIds : CreateReceipt(s, r)
                                  \/ PayCommit(s) \/ RevertCommit(s) \/ VoidCommit(s)
BY DEF Next, Start, Finish, FetchMonth, FetchSelf, CheckUser, LockToPay, LockToRevert,
       LockToVoid, LockRows, JobFinishes, Abandon, vars

\* A receipt that is created bills at least one job, all of its user and its
\* window, and no other receipt has any of them.
LEMMA CreateBills ==
    ASSUME TypeOK, SessionsHold, NEW s \in Sessions, NEW r \in ReceiptIds, CreateReceipt(s, r),
           ~UNCHANGED <<status, head, items>>
    PROVE  LET J == JobsOfUser(sess[s].jobs, sess[s].user) IN
           /\ J # {} /\ J \subseteq JobsOfUser(JobsIn[sess[s].window], sess[s].user)
           /\ J \subseteq Jobs /\ J \cap BilledJobs = {}
           /\ InsertReceipt(r, sess[s].user, sess[s].window, J)
<1>1. sess[s].op \in {"invoice", "self"}
  BY DEF CreateReceipt, SessionsHold, Holds
<1>2. JobsOfUser(sess[s].jobs, sess[s].user) # {} /\ sess[s].jobs \subseteq JobsIn[sess[s].window]
  BY <1>1 DEF CreateReceipt, SessionsHold, Holds
<1> QED BY <1>2, SessionType DEF CreateReceipt, JobKeysFree, JobsOfUser

LEMMA BilledOnceStep ==
    ASSUME TypeOK, SessionsHold, JobBilledOnce, [Next]_vars
    PROVE  JobBilledOnce'
<1>1. ASSUME NEW s \in Sessions, NEW r \in ReceiptIds, CreateReceipt(s, r),
             ~UNCHANGED <<status, head, items>>
      PROVE JobBilledOnce'
  <2> DEFINE J == JobsOfUser(sess[s].jobs, sess[s].user)
  <2>1. J \cap BilledJobs = {} /\ items' = items \cup ({r} \X J)
    BY <1>1, CreateBills DEF InsertReceipt
  <2>2. \A q \in ReceiptIds : \/ ItemsOf(q)' = ItemsOf(q)
                              \/ q = r /\ ItemsOf(q)' \subseteq ItemsOf(q) \cup J
    BY <2>1 DEF ItemsOf
  <2>3. \A q \in ReceiptIds : ItemsOf(q) \cap J = {}
    BY <2>1 DEF ItemsOf, BilledJobs
  <2> HIDE DEF J
  <2> QED BY <2>2, <2>3 DEF JobBilledOnce
<1>2. CASE items' \subseteq items
  BY <1>2 DEF JobBilledOnce, ItemsOf
<1> QED
  BY <1>1, <1>2, WritingSteps DEF rows, CreateReceipt, PayCommit, RevertCommit, VoidCommit

LEMMA HoldsItsJobsStep ==
    ASSUME TypeOK, SessionsHold, LocksProtectReads, ReceiptHoldsItsJobs, [Next]_vars
    PROVE  ReceiptHoldsItsJobs'
<1>1. ASSUME NEW s \in Sessions, NEW r \in ReceiptIds, CreateReceipt(s, r),
             ~UNCHANGED <<status, head, items>>
      PROVE ReceiptHoldsItsJobs'
  <2> DEFINE J == JobsOfUser(sess[s].jobs, sess[s].user)
  <2>1. /\ J # {} /\ J \subseteq JobsOfUser(JobsIn[sess[s].window], sess[s].user)
        /\ J \subseteq Jobs /\ status[r] = "absent"
        /\ InsertReceipt(r, sess[s].user, sess[s].window, J)
    BY <1>1, CreateBills DEF CreateReceipt
  <2>2. \A q \in ReceiptIds \ {r} : /\ ItemsOf(q)' = ItemsOf(q) /\ Live(q)' = Live(q)
                                     /\ head'[q] = head[q]
    BY <2>1 DEF InsertReceipt, ItemsOf, Live, TypeOK
  <2>3. ItemsOf(r)' = J
    BY <2>1 DEF InsertReceipt, ItemsOf, Live, ReceiptHoldsItsJobs
  <2>4. head'[r] = [user |-> sess[s].user, window |-> sess[s].window] /\ Live(r)'
    BY <2>1 DEF InsertReceipt, TypeOK, Live
  <2> HIDE DEF J
  <2> QED BY <2>1, <2>2, <2>3, <2>4 DEF ReceiptHoldsItsJobs
<1>2. CASE /\ UNCHANGED <<head, items>>
           /\ \A q \in ReceiptIds : Live(q)' = Live(q)
  BY <1>2 DEF ReceiptHoldsItsJobs, ItemsOf
<1>3. ASSUME NEW s \in Sessions, PayCommit(s) \/ RevertCommit(s)
      PROVE ReceiptHoldsItsJobs'
  <2>1. \A q \in sess[s].seen : status[q] \in {"pending", "paid"}
    BY DEF LocksProtectReads
  <2>2. \A q \in ReceiptIds : Live(q)' = Live(q)
    BY <1>3, <2>1 DEF TypeOK, PayCommit, RevertCommit, Settle, Live
  <2> QED BY <1>2, <1>3, <2>2 DEF PayCommit, RevertCommit
<1>4. ASSUME NEW s \in Sessions, VoidCommit(s) PROVE ReceiptHoldsItsJobs'
  <2>1. ASSUME NEW q \in sess[s].seen PROVE ItemsOf(q)' = {} /\ ~Live(q)'
    BY <1>4, <2>1, SessionType DEF TypeOK, VoidCommit, ItemsOf, Live
  <2>2. ASSUME NEW q \in ReceiptIds \ sess[s].seen
        PROVE  ItemsOf(q)' = ItemsOf(q) /\ Live(q)' = Live(q) /\ head'[q] = head[q]
    BY <1>4, <2>2 DEF TypeOK, VoidCommit, ItemsOf, Live
  <2> QED BY <2>1, <2>2 DEF ReceiptHoldsItsJobs
<1>5. CASE UNCHANGED <<status, head, items>>
  BY <1>5, <1>2 DEF Live
<1> QED BY <1>1, <1>3, <1>4, <1>5, WritingSteps DEF rows

LEMMA OnePaymentStep ==
    ASSUME TypeOK, SessionsHold, LocksProtectReads, PaidHasOneSucceededPayment, [Next]_vars
    PROVE  PaidHasOneSucceededPayment'
<1>1. ASSUME NEW s \in Sessions, NEW r \in sess[s].seen, NEW p \in PaymentIds,
             sess[s].op = "pay", Settle(r, p)
      PROVE PaidHasOneSucceededPayment'
  <2>1. r \in ReceiptIds /\ status[r] = "pending" /\ Succeeded(r) = {}
    BY <1>1, SessionType DEF LocksProtectReads, PaidHasOneSucceededPayment
  <2>2. \A q \in ReceiptIds : Succeeded(q)' = IF q = r THEN {p} ELSE Succeeded(q)
    BY <1>1, <2>1, NoneAssumption DEF Settle, Succeeded, TypeOK, NoPayment
  <2>3. status'[r] = "paid" /\ txRef'[r] = p
    BY <1>1, <2>1 DEF Settle, TypeOK
  <2>4. \A q \in ReceiptIds \ {r} : status'[q] = status[q] /\ txRef'[q] = txRef[q]
    BY <1>1, <2>1 DEF Settle, TypeOK
  <2> QED BY <2>2, <2>3, <2>4 DEF PaidHasOneSucceededPayment
<1>2. ASSUME NEW s \in Sessions, RevertCommit(s) PROVE PaidHasOneSucceededPayment'
  <2> DEFINE R == sess[s].seen
  <2>1. R \subseteq ReceiptIds
    BY SessionType
  <2>2. ASSUME NEW q \in R PROVE Succeeded(q)' = {} /\ status'[q] = "pending"
    BY <1>2, <2>1 DEF RevertCommit, Succeeded, TypeOK
  <2>3. ASSUME NEW q \in ReceiptIds \ R
        PROVE  status'[q] = status[q] /\ txRef'[q] = txRef[q]
    BY <1>2 DEF RevertCommit, TypeOK
  <2>4. ASSUME NEW q \in ReceiptIds \ R PROVE Succeeded(q)' = Succeeded(q)
    <3>1. ASSUME NEW p \in PaymentIds
          PROVE  payment'[p] = [of |-> q, status |-> "succeeded"]
                   <=> payment[p] = [of |-> q, status |-> "succeeded"]
      <4>1. payment[p].of = q => p \notin UNION {Succeeded(r) : r \in R}
        <5>1. ASSUME NEW r \in R, p \in Succeeded(r) PROVE payment[p].of # q
          <6>1. payment[p] = [of |-> r, status |-> "succeeded"]
            BY <5>1 DEF Succeeded
          <6> QED BY <6>1
        <5> QED BY <5>1
      <4>2. payment'[p] = IF p \in UNION {Succeeded(r) : r \in R}
                          THEN [payment[p] EXCEPT !.status = "canceled"] ELSE payment[p]
        BY <1>2 DEF RevertCommit
      <4>3. payment[p] \in [of : ReceiptIds \cup {None},
                            status : {"absent", "succeeded", "canceled"}]
        BY DEF TypeOK
      <4>4. p \in UNION {Succeeded(r) : r \in R} => payment'[p].of = payment[p].of
        BY <4>2, <4>3
      <4> HIDE DEF R
      <4> QED BY <4>1, <4>2, <4>4
    <3> QED BY <3>1 DEF Succeeded
  <2> QED BY <2>2, <2>3, <2>4 DEF PaidHasOneSucceededPayment
<1>3. ASSUME NEW s \in Sessions, VoidCommit(s) PROVE PaidHasOneSucceededPayment'
  <2>1. \A q \in ReceiptIds : (status'[q] = "paid") <=> (status[q] = "paid")
    BY <1>3 DEF VoidCommit, TypeOK, LocksProtectReads
  <2>2. UNCHANGED <<payment, txRef>>
    BY <1>3 DEF VoidCommit
  <2> QED BY <2>1, <2>2 DEF PaidHasOneSucceededPayment, Succeeded
<1>4. ASSUME NEW s \in Sessions, NEW r \in ReceiptIds, CreateReceipt(s, r)
      PROVE PaidHasOneSucceededPayment'
  <2>1. \A q \in ReceiptIds : (status'[q] = "paid") <=> (status[q] = "paid")
    BY <1>4 DEF CreateReceipt, InsertReceipt, TypeOK
  <2>2. UNCHANGED <<payment, txRef>>
    BY <1>4 DEF CreateReceipt
  <2> QED BY <2>1, <2>2 DEF PaidHasOneSucceededPayment, Succeeded
<1>5. CASE UNCHANGED <<status, payment, txRef>>
  BY <1>5 DEF PaidHasOneSucceededPayment, Succeeded
<1> QED BY <1>1, <1>2, <1>3, <1>4, <1>5, WritingSteps DEF rows, PayCommit

-----------------------------------------------------------------------------
\* All parts of the invariant together hold in every run: the induction that
\* the theorems below rest on.
THEOREM Invariant == Spec => []IInv
<1>1. Init => IInv
  <2> SUFFICES ASSUME Init
               PROVE  /\ SessionsHold /\ LocksProtectReads /\ PaidHasOneSucceededPayment
                      /\ ReceiptHoldsItsJobs /\ JobBilledOnce
    BY InitTypeOK DEF IInv
  <2>1. \A s \in Sessions : sess[s] = Idle
    BY DEF Init
  <2>2. SessionsHold
    BY <2>1, IdleHolds DEF SessionsHold
  <2>3. LocksProtectReads
    BY <2>1 DEF LocksProtectReads, Idle
  <2>4. PaidHasOneSucceededPayment
    BY NoneAssumption DEF Init, PaidHasOneSucceededPayment, Succeeded, NoPayment
  <2>5. ReceiptHoldsItsJobs /\ JobBilledOnce
    BY DEF Init, ReceiptHoldsItsJobs, JobBilledOnce, ItemsOf, Live
  <2> QED BY <2>2, <2>3, <2>4, <2>5
<1>2. IInv /\ [Next]_vars => IInv'
  BY TypeStep, HoldsStep, LocksStep, OnePaymentStep, HoldsItsJobsStep, BilledOnceStep DEF IInv
<1> QED
  BY <1>1, <1>2, PTL DEF Spec

\* No job is on two receipts, however stale the reads an invoice is cut from
\* (billing_store.py: billed_job_ids, create_receipt_from_rows).
THEOREM JobsBilledOnce == Spec => []JobBilledOnce
<1>1. IInv => JobBilledOnce
  BY DEF IInv
<1> QED BY <1>1, Invariant, PTL

\* Mark-paid, revert and bulk void never leave a paid receipt without its one
\* succeeded payment, nor a succeeded payment without a paid receipt.
THEOREM OnePayment == Spec => []PaidHasOneSucceededPayment
<1>1. IInv => PaidHasOneSucceededPayment
  BY DEF IInv
<1> QED BY <1>1, Invariant, PTL

\* A live receipt bills jobs of its own user and window, a void one none.
THEOREM HoldsItsJobs == Spec => []ReceiptHoldsItsJobs
<1>1. IInv => ReceiptHoldsItsJobs
  BY DEF IInv
<1> QED BY <1>1, Invariant, PTL

\* What a session read under its row locks is true until it writes
\* (the FOR UPDATE queries of mark_receipt_paid, revert and bulk void).
THEOREM LocksHold == Spec => []LocksProtectReads
<1>1. IInv => LocksProtectReads
  BY DEF IInv
<1> QED BY <1>1, Invariant, PTL

\* A step never takes an item from a paid receipt, voids one, or brings a
\* void receipt back.
THEOREM SettledKeepItems == Spec => SettledReceiptsKeepTheirItems
<1>1. ASSUME IInv, [Next]_vars, NEW r \in ReceiptIds
      PROVE  /\ status[r] = "paid" => ItemsOf(r)' = ItemsOf(r) /\ status'[r] # "void"
             /\ status[r] = "void" => status'[r] = "void"
  <2>1. ASSUME NEW s \in Sessions, NEW q \in ReceiptIds, CreateReceipt(s, q)
        PROVE  status[r] # "absent" => ItemsOf(r)' = ItemsOf(r) /\ status'[r] = status[r]
    <3>1. status[q] = "absent"
      BY <2>1 DEF CreateReceipt
    <3>2. CASE UNCHANGED <<status, head, items>>
      BY <3>2 DEF ItemsOf
    <3>3. CASE ~UNCHANGED <<status, head, items>>
      <4>1. InsertReceipt(q, sess[s].user, sess[s].window, JobsOfUser(sess[s].jobs, sess[s].user))
        BY <1>1, <2>1, <3>3, CreateBills DEF IInv
      <4> QED BY <1>1, <3>1, <4>1 DEF InsertReceipt, ItemsOf, IInv, TypeOK
    <3> QED BY <3>2, <3>3
  <2>2. ASSUME NEW s \in Sessions, PayCommit(s) \/ RevertCommit(s)
        PROVE  /\ ItemsOf(r)' = ItemsOf(r)
               /\ status[r] # "void" => status'[r] # "void"
    BY <1>1, <2>2 DEF PayCommit, RevertCommit, Settle, ItemsOf, IInv, TypeOK
  <2>3. ASSUME NEW s \in Sessions, PayCommit(s) \/ RevertCommit(s), status[r] = "void"
        PROVE  status'[r] = "void"
    BY <1>1, <2>3 DEF PayCommit, RevertCommit, Settle, IInv, TypeOK, LocksProtectReads
  <2>4. ASSUME NEW s \in Sessions, VoidCommit(s), status[r] \in {"paid", "void"}
        PROVE  status[r] = "paid" => ItemsOf(r)' = ItemsOf(r) /\ status'[r] = status[r]
    BY <1>1, <2>4 DEF VoidCommit, ItemsOf, IInv, TypeOK, LocksProtectReads
  <2>5. ASSUME NEW s \in Sessions, VoidCommit(s), status[r] = "void" PROVE status'[r] = "void"
    BY <1>1, <2>5 DEF VoidCommit, IInv, TypeOK
  <2>6. CASE UNCHANGED rows
    BY <2>6 DEF rows, ItemsOf
  <2> QED
    BY <1>1, <2>1, <2>2, <2>3, <2>4, <2>5, <2>6, WritingSteps
<1>2. IInv /\ [Next]_vars =>
        [\A r \in ReceiptIds :
           /\ status[r] = "paid" => ItemsOf(r)' = ItemsOf(r) /\ status'[r] # "void"
           /\ status[r] = "void" => status'[r] = "void"]_vars
  BY <1>1
<1> QED
  BY <1>2, Invariant, PTL DEF Spec, SettledReceiptsKeepTheirItems

-----------------------------------------------------------------------------
\* Refinement: the holder of a job, before and after a step.

LEMMA HolderNow ==
    ASSUME JobBilledOnce
    PROVE  /\ \A r \in ReceiptIds : \A j \in ItemsOf(r) : HolderOf(j) = r
           /\ \A j \in Jobs : (\A r \in ReceiptIds : j \notin ItemsOf(r)) => HolderOf(j) = None
<1>1. ASSUME NEW r \in ReceiptIds, NEW j \in ItemsOf(r) PROVE HolderOf(j) = r
  <2>1. <<r, j>> \in items /\ \A q \in ReceiptIds : <<q, j>> \in items => q = r
    BY <1>1 DEF ItemsOf, JobBilledOnce
  <2> QED BY <1>1, <2>1 DEF HolderOf, BilledJobs, ItemsOf
<1>2. ASSUME NEW j \in Jobs, \A r \in ReceiptIds : j \notin ItemsOf(r) PROVE HolderOf(j) = None
  BY <1>2 DEF HolderOf, BilledJobs, ItemsOf
<1> QED BY <1>1, <1>2

LEMMA HolderNext ==
    ASSUME JobBilledOnce'
    PROVE  /\ \A r \in ReceiptIds : \A j \in ItemsOf(r)' : HolderOf(j)' = r
           /\ \A j \in Jobs : (\A r \in ReceiptIds : j \notin ItemsOf(r)') => HolderOf(j)' = None
<1>1. ASSUME NEW r \in ReceiptIds, NEW j \in ItemsOf(r)' PROVE HolderOf(j)' = r
  <2>1. <<r, j>> \in items' /\ \A q \in ReceiptIds : <<q, j>> \in items' => q = r
    BY <1>1 DEF ItemsOf, JobBilledOnce
  <2> QED BY <1>1, <2>1 DEF HolderOf, BilledJobs, ItemsOf
<1>2. ASSUME NEW j \in Jobs, \A r \in ReceiptIds : j \notin ItemsOf(r)' PROVE HolderOf(j)' = None
  BY <1>2 DEF HolderOf, BilledJobs, ItemsOf
<1> QED BY <1>1, <1>2

\* The abstract values, as the refinement mapping gives them.
Billed == [j \in Jobs |-> HolderOf(j)]
Issued == {r \in ReceiptIds : status[r] # "absent"}
Settled == {r \in ReceiptIds : status[r] = "paid"}

\* The abstract JobsOf of a receipt is its items.
LEMMA JobsOfIsItems ==
    ASSUME JobBilledOnce, NEW r \in ReceiptIds
    PROVE  {j \in Jobs : Billed[j] = r} = ItemsOf(r)
<1>1. ASSUME NEW j \in Jobs, HolderOf(j) = r PROVE j \in ItemsOf(r)
  BY <1>1, HolderNow, NoneAssumption
<1> QED BY <1>1, HolderNow DEF Billed, ItemsOf

LEMMA SameItems ==
    ASSUME items' = items
    PROVE  Billed' = Billed
BY DEF Billed, HolderOf, BilledJobs

LEMMA BillStep ==
    ASSUME IInv, IInv', NEW s \in Sessions, NEW r \in ReceiptIds, CreateReceipt(s, r)
    PROVE  (\E J \in SUBSET Jobs : Promise!Bill(r, J)) \/ UNCHANGED <<Billed, Issued, Settled>>
<1>1. CASE UNCHANGED <<status, head, items>>
  BY <1>1, SameItems DEF Issued, Settled
<1>2. CASE ~UNCHANGED <<status, head, items>>
  <2> DEFINE J == JobsOfUser(sess[s].jobs, sess[s].user)
  <2>1. /\ J # {} /\ J \subseteq Jobs /\ J \cap BilledJobs = {} /\ status[r] = "absent"
        /\ InsertReceipt(r, sess[s].user, sess[s].window, J)
    BY <1>2, CreateBills DEF IInv, CreateReceipt
  <2> HIDE DEF J
  <2>2. \A j \in J : Billed[j] = None
    BY <2>1, HolderNow DEF Billed, BilledJobs, ItemsOf, IInv
  <2>3. Billed' = [j \in Jobs |-> IF j \in J THEN r ELSE Billed[j]]
    <3>1. ASSUME NEW j \in J PROVE HolderOf(j)' = r
      <4>1. j \in ItemsOf(r)'
        BY <2>1 DEF InsertReceipt, ItemsOf
      <4> QED BY <4>1, HolderNext DEF IInv
    <3>2. ASSUME NEW j \in Jobs \ J PROVE HolderOf(j)' = HolderOf(j)
      <4>1. \A q \in ReceiptIds : <<q, j>> \in items' <=> <<q, j>> \in items
        BY <2>1 DEF InsertReceipt
      <4>2. CASE \E q \in ReceiptIds : j \in ItemsOf(q)
        <5>1. PICK q \in ReceiptIds : j \in ItemsOf(q)
          BY <4>2
        <5>2. j \in ItemsOf(q)'
          BY <4>1, <5>1 DEF ItemsOf
        <5> QED BY <5>1, <5>2, HolderNow, HolderNext DEF IInv
      <4>3. CASE \A q \in ReceiptIds : j \notin ItemsOf(q)
        <5>1. \A q \in ReceiptIds : j \notin ItemsOf(q)'
          BY <4>1, <4>3 DEF ItemsOf
        <5> QED BY <4>3, <5>1, HolderNow, HolderNext DEF IInv
      <4> QED BY <4>2, <4>3
    <3> QED BY <2>1, <3>1, <3>2 DEF Billed
  <2>4. Issued' = Issued \cup {r} /\ Settled' = Settled /\ r \notin Issued
    BY <2>1 DEF InsertReceipt, Issued, Settled, IInv, TypeOK
  <2> QED BY <2>1, <2>2, <2>3, <2>4 DEF Promise!Bill, Billed, Issued, Settled
<1> QED BY <1>1, <1>2

LEMMA SettleStep ==
    ASSUME IInv, NEW s \in Sessions, PayCommit(s)
    PROVE  (\E r \in ReceiptIds : Promise!Settle(r)) \/ UNCHANGED <<Billed, Issued, Settled>>
<1>1. Billed' = Billed
  BY SameItems DEF PayCommit
<1>2. CASE UNCHANGED status
  BY <1>1, <1>2 DEF Issued, Settled
<1>3. ASSUME NEW r \in sess[s].seen, NEW p \in PaymentIds, Settle(r, p)
      PROVE \E q \in ReceiptIds : Promise!Settle(q)
  <2>1. r \in ReceiptIds /\ status[r] = "pending"
    BY <1>3, SessionType DEF IInv, LocksProtectReads, PayCommit
  <2>2. r \in Issued \ Settled /\ Issued' = Issued /\ Settled' = Settled \cup {r}
    BY <1>3, <2>1 DEF Settle, Issued, Settled, IInv, TypeOK
  <2>3. {j \in Jobs : Billed[j] = r} # {}
    BY <2>1, JobsOfIsItems DEF IInv, ReceiptHoldsItsJobs, Live
  <2>4. Promise!Settle(r)
    BY <1>1, <2>2, <2>3 DEF Promise!Settle, Promise!JobsOf, Billed, Issued, Settled
  <2> QED BY <2>1, <2>4
<1> QED BY <1>2, <1>3 , <1>1 DEF PayCommit

LEMMA UnsettleStep ==
    ASSUME IInv, NEW s \in Sessions, RevertCommit(s)
    PROVE  (\E r \in ReceiptIds : Promise!Unsettle(r)) \/ UNCHANGED <<Billed, Issued, Settled>>
<1>1. Billed' = Billed
  BY SameItems DEF RevertCommit
<1>2. CASE sess[s].seen = {}
  BY <1>1, <1>2 DEF RevertCommit, Issued, Settled, IInv, TypeOK
<1>3. ASSUME NEW r \in sess[s].seen PROVE \E q \in ReceiptIds : Promise!Unsettle(q)
  <2>1. r \in ReceiptIds /\ status[r] = "paid"
    BY <1>3, SessionType DEF IInv, LocksProtectReads, RevertCommit
  <2>2. sess[s].seen = {r}
    BY <1>3 DEF IInv, SessionsHold, Holds, RevertCommit
  <2>3. r \in Settled /\ Issued' = Issued /\ Settled' = Settled \ {r}
    BY <2>1, <2>2 DEF RevertCommit, Issued, Settled, IInv, TypeOK
  <2>4. Promise!Unsettle(r)
    BY <1>1, <2>3 DEF Promise!Unsettle, Billed, Issued, Settled
  <2> QED BY <2>1, <2>4
<1> QED BY <1>2, <1>3

LEMMA ReleaseStep ==
    ASSUME IInv, IInv', NEW s \in Sessions, VoidCommit(s)
    PROVE  \E R \in SUBSET ReceiptIds : Promise!Release(R)
<1> DEFINE R == sess[s].seen
<1>1. R \subseteq ReceiptIds /\ \A r \in R : status[r] = "pending"
  BY SessionType DEF IInv, LocksProtectReads, VoidCommit
<1>2. R \subseteq Issued \ Settled /\ Issued' = Issued /\ Settled' = Settled
  BY <1>1 DEF VoidCommit, Issued, Settled, IInv, TypeOK
<1>3. Billed' = [j \in Jobs |-> IF Billed[j] \in R THEN None ELSE Billed[j]]
  <2>1. \A q \in ReceiptIds : ItemsOf(q)' = IF q \in R THEN {} ELSE ItemsOf(q)
    BY DEF VoidCommit, ItemsOf
  <2> HIDE DEF R
  <2>2. ASSUME NEW j \in Jobs, NEW q \in R, j \in ItemsOf(q)
        PROVE  HolderOf(j) \in R /\ HolderOf(j)' = None
    <3>1. HolderOf(j) = q
      BY <1>1, <2>2, HolderNow DEF IInv
    <3>2. \A r \in ReceiptIds : j \notin ItemsOf(r)'
      BY <1>1, <2>1, <2>2 DEF IInv, JobBilledOnce
    <3> QED BY <3>1, <3>2, HolderNext DEF IInv
  <2>3. ASSUME NEW j \in Jobs, NEW q \in ReceiptIds \ R, j \in ItemsOf(q)
        PROVE  HolderOf(j) \notin R /\ HolderOf(j)' = HolderOf(j)
    <3>1. HolderOf(j) = q
      BY <2>3, HolderNow DEF IInv
    <3>2. j \in ItemsOf(q)'
      BY <2>1, <2>3
    <3> QED BY <2>3, <3>1, <3>2, HolderNext DEF IInv
  <2>4. ASSUME NEW j \in Jobs, \A q \in ReceiptIds : j \notin ItemsOf(q)
        PROVE  HolderOf(j) = None /\ HolderOf(j)' = None
    <3>1. \A q \in ReceiptIds : j \notin ItemsOf(q)'
      BY <2>1, <2>4
    <3> QED BY <2>4, <3>1, HolderNow, HolderNext DEF IInv
  <2> QED BY <1>1, <2>2, <2>3, <2>4 DEF Billed
<1>4. Promise!Release(R)
  BY <1>2, <1>3 DEF Promise!Release, Billed, Issued, Settled
<1> QED BY <1>1, <1>4

\* With stale reads, row locks and rolled-back requests, the store bills,
\* settles, unsettles and releases jobs as JobBilling promises.
THEOREM Refinement == Spec => ImplementsJobBilling
<1>1. Init => Promise!Init
  BY DEF Init, Promise!Init, HolderOf, BilledJobs
<1>2. IInv /\ IInv' /\ [Next]_vars => [Promise!Next]_(Promise!vars)
  <2> SUFFICES ASSUME IInv, IInv', [Next]_vars
               PROVE  Promise!Next \/ UNCHANGED <<Billed, Issued, Settled>>
    BY DEF Promise!vars, Billed, Issued, Settled
  <2>1. CASE UNCHANGED rows
    BY <2>1, SameItems DEF rows, Issued, Settled
  <2>2. ASSUME NEW s \in Sessions, NEW r \in ReceiptIds, CreateReceipt(s, r)
        PROVE  Promise!Next \/ UNCHANGED <<Billed, Issued, Settled>>
    BY <2>2, BillStep DEF Promise!Next
  <2>3. ASSUME NEW s \in Sessions, PayCommit(s)
        PROVE  Promise!Next \/ UNCHANGED <<Billed, Issued, Settled>>
    BY <2>3, SettleStep DEF Promise!Next
  <2>4. ASSUME NEW s \in Sessions, RevertCommit(s)
        PROVE  Promise!Next \/ UNCHANGED <<Billed, Issued, Settled>>
    BY <2>4, UnsettleStep DEF Promise!Next
  <2>5. ASSUME NEW s \in Sessions, VoidCommit(s)
        PROVE  Promise!Next \/ UNCHANGED <<Billed, Issued, Settled>>
    BY <2>5, ReleaseStep DEF Promise!Next
  <2> QED BY <2>1, <2>2, <2>3, <2>4, <2>5, WritingSteps
<1> QED
  BY <1>1, <1>2, Invariant, PTL DEF Spec, ImplementsJobBilling, Promise!Spec
=============================================================================
