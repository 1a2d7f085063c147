---------------------------- MODULE Pricing_proofs ----------------------------
(***************************************************************************)
(* Rounding lemmas of ReceiptMath; from them and from PricingInv that the  *)
(* books and the receipts of Pricing agree on tax, for every amount and    *)
(* rate, and that receipts are priced at rates in force; from SettingsInv  *)
(* that settings stay as they were saved.                                  *)
(***************************************************************************)
EXTENDS Pricing, SumTheorems

\* What the formula of HalfUp rounds to.
LEMMA HalfUpBounds ==
    ASSUME NEW a \in Nat, NEW b \in Nat \ {0}
    PROVE  /\ HalfUp(a, b) \in Nat
           /\ 2 * (b * HalfUp(a, b)) <= 2 * a + b
           /\ 2 * a + b < 2 * (b * HalfUp(a, b)) + 2 * b
<1> DEFINE h == (2 * a + b) \div (2 * b)
<1>1. h \in Int /\ (2 * b) * h <= 2 * a + b /\ 2 * a + b < (2 * b) * h + 2 * b
  OBVIOUS
<1>2. h >= 0
  OBVIOUS
<1> QED BY <1>1, <1>2 DEF HalfUp

\* A number between those bounds is what HalfUp gives.
LEMMA HalfUpUnique ==
    ASSUME NEW a \in Nat, NEW b \in Nat \ {0}, NEW n \in Int,
           2 * (b * n) <= 2 * a + b, 2 * a + b < 2 * (b * n) + 2 * b
    PROVE  HalfUp(a, b) = n
<1> DEFINE h == HalfUp(a, b)
<1>1. h \in Nat /\ 2 * (b * h) <= 2 * a + b /\ 2 * a + b < 2 * (b * h) + 2 * b
  BY HalfUpBounds
<1>2. b * h < b * (n + 1) /\ b * n < b * (h + 1)
  BY <1>1
<1>3. h < n + 1 /\ n < h + 1
  BY <1>1, <1>2
<1> QED BY <1>1, <1>3

-----------------------------------------------------------------------------
\* A tax that was added comes back when the total is divided, whatever the
\* rate (_split_net_vat, services/gl_posting.py:292).
LEMMA AddedTaxComesBack ==
    ASSUME NEW s \in Nat, NEW p \in Nat
    PROVE  /\ AddedTax(s, p) \in Nat
           /\ NetOf(s + AddedTax(s, p), p) = s
<1> DEFINE t == AddedTax(s, p)
           b == 100 + p
<1>1. s * p \in Nat /\ b \in Nat \ {0} /\ b * s = 100 * s + s * p
  OBVIOUS
<1>2. t \in Nat /\ 200 * t <= 2 * (s * p) + 100 /\ 2 * (s * p) + 100 < 200 * t + 200
  <2>1. t = HalfUp(s * p, 100)
    BY DEF AddedTax
  <2> HIDE DEF t
  <2>2. t \in Nat /\ 2 * (100 * t) <= 2 * (s * p) + 100 /\ 2 * (s * p) + 100 < 2 * (100 * t) + 2 * 100
    BY <1>1, <2>1, HalfUpBounds
  <2> QED BY <2>2
<1>3. ASSUME p = 0 PROVE t = 0
  <2>1. s * p = 0
    BY <1>3
  <2> HIDE DEF t
  <2> QED BY <1>2, <2>1
<1>4. (s + t) * 100 = 100 * s + 100 * t /\ (s + t) * 100 \in Nat
  <2> HIDE DEF t
  <2> QED BY <1>2
<1>5. 2 * (b * s) <= 2 * ((s + t) * 100) + b /\ 2 * ((s + t) * 100) + b < 2 * (b * s) + 2 * b
  <2>1. b = 100 + p
    OBVIOUS
  <2>2. p = 0 \/ p > 0
    OBVIOUS
  <2> HIDE DEF t, b
  <2>3. s * p \in Nat /\ 100 * s \in Nat /\ 100 * t \in Nat /\ 200 * t = 2 * (100 * t)
    BY <1>1, <1>2
  <2>4. 2 * ((s + t) * 100) = 2 * (100 * s) + 200 * t /\ 2 * (b * s) = 2 * (100 * s) + 2 * (s * p)
    BY <1>1, <1>2, <1>4
  <2> DEFINE x == s * p
  <2>5. CASE p > 0
    <3> HIDE DEF x
    <3> QED BY <1>1, <1>2, <2>1, <2>3, <2>4, <2>5
  <2>6. CASE p = 0
    <3>1. s * p = 0 /\ t = 0
      BY <1>3, <2>6
    <3> QED BY <1>1, <1>2, <2>1, <2>3, <2>4, <2>6, <3>1
  <2> QED BY <2>2, <2>5, <2>6
<1>6. HalfUp((s + t) * 100, b) = s
  <2> HIDE DEF t, b
  <2> QED BY <1>1, <1>4, <1>5, HalfUpUnique
<1> QED BY <1>2, <1>6 DEF NetOf

\* An included tax does so where no half is rounded, and it is not more than
\* the price.
LEMMA IncludedTaxAgrees ==
    ASSUME NEW g \in Nat, NEW p \in Nat
    PROVE  /\ IncludedTax(g, p) \in Nat /\ IncludedTax(g, p) <= g
           /\ p % 2 = 1 => NetOf(g, p) = g - IncludedTax(g, p)
<1> DEFINE t == IncludedTax(g, p)
           b == 100 + p
<1>1. g * p \in Nat /\ b \in Nat \ {0} /\ b * g = 100 * g + g * p
  OBVIOUS
<1>2. t \in Nat /\ 2 * (b * t) <= 2 * (g * p) + b /\ 2 * (g * p) + b < 2 * (b * t) + 2 * b
  BY <1>1, HalfUpBounds DEF IncludedTax
<1>3. t <= g
  <2>1. ASSUME t >= g + 1 PROVE FALSE
    <3>1. b * t >= b * (g + 1)
      BY <1>1, <1>2, <2>1
    <3>2. b * (g + 1) = b * g + b
      BY <1>1
    <3> HIDE DEF b, t
    <3> QED BY <1>1, <1>2, <3>1, <3>2
  <2> QED BY <1>2, <2>1
<1>4. ASSUME p % 2 = 1 PROVE NetOf(g, p) = g - t
  <2>1. b * (g - t) = b * g - b * t /\ g * 100 \in Nat
    BY <1>1, <1>2
  <2>2. b % 2 = 1 /\ b * t \in Nat
    BY <1>1, <1>2, <1>4
  <2>3. 2 * (b * t) # 2 * (g * p) + b
    BY <1>1, <2>2
  <2>4. /\ 2 * (b * (g - t)) <= 2 * (g * 100) + b
        /\ 2 * (g * 100) + b < 2 * (b * (g - t)) + 2 * b
    <3> HIDE DEF b, t
    <3> QED BY <1>1, <1>2, <2>1, <2>2, <2>3
  <2>5. HalfUp(g * 100, b) = g - t
    BY <1>1, <1>2, <2>1, <2>4, HalfUpUnique
  <2> QED BY <2>5 DEF NetOf
<1> QED BY <1>2, <1>3, <1>4

\* What create_receipt_from_rows computes adds up, and the books find it again.
LEMMA AmountsFit ==
    ASSUME NEW cost \in Nat, NEW t \in Taxes
    PROVE  LET a == Amounts(cost, t) IN
           /\ a \in [subtotal : Nat, tax : Nat, total : Nat]
           /\ a.subtotal + a.tax = a.total
           /\ t.rate % 2 = 1 => /\ NetOf(a.total, t.rate) = a.subtotal
                                /\ VatOf(a.total, t.rate) = a.tax
<1> DEFINE a == Amounts(cost, t)
<1>1. t.rate \in Nat /\ t.inclusive \in BOOLEAN
  BY TaxAssumption
<1>2. CASE t.inclusive
  <2> DEFINE x == IncludedTax(cost, t.rate)
  <2>1. x \in Nat /\ x <= cost /\ (t.rate % 2 = 1 => NetOf(cost, t.rate) = cost - x)
    BY <1>1, IncludedTaxAgrees
  <2>2. a = [subtotal |-> cost - x, tax |-> x, total |-> cost]
    BY <1>2 DEF Amounts
  <2> HIDE DEF x, a
  <2> QED BY <2>1, <2>2 DEF VatOf, a
<1>3. CASE ~ t.inclusive
  <2> DEFINE x == AddedTax(cost, t.rate)
  <2>1. x \in Nat /\ NetOf(cost + x, t.rate) = cost
    BY <1>1, AddedTaxComesBack
  <2>2. a = [subtotal |-> cost, tax |-> x, total |-> cost + x]
    BY <1>3 DEF Amounts
  <2> HIDE DEF x, a
  <2> QED BY <2>1, <2>2 DEF VatOf, a
<1> QED BY <1>2, <1>3

-----------------------------------------------------------------------------
(* The strengthening of the invariants: rates that are loaded are all       *)
(* there, and what a billing run has read, or would read now, was seen.     *)

Filled == rates \in [Tiers -> Rate]

NeedsRates == {"rates: loaded", "rates: saving", "bill: costs", "bill: snapshot"}

Billing == {"bill: tier", "bill: costs", "bill: snapshot"}

RequestSees(r) ==
    /\ r.at \in NeedsRates => Filled
    /\ r.at \in Billing => Seeded[r.tier] \in r.seen
    /\ r.at \in {"bill: costs", "bill: snapshot"} => r.item \in r.seen
    /\ r.at = "bill: snapshot" => r.snapshot \in r.seen

RatesSeen == \A w \in Workers : RequestSees(req[w])

ReceiptsFit ==
    \A r \in receipts :
        /\ r.item \in r.seen /\ r.snapshot \in r.seen
        /\ r.taxRate % 2 = 1 => /\ NetOf(r.amounts.total, r.taxRate) = r.amounts.subtotal
                                /\ VatOf(r.amounts.total, r.taxRate) = r.amounts.tax

PricingInv == TypeOK /\ RatesSeen /\ ReceiptsFit

LEMMA HalfEvenIsNatural ==
    ASSUME NEW a \in Nat, NEW b \in Nat \ {0} PROVE HalfEven(a, b) \in Nat
<1>1. a \div b \in Nat
  OBVIOUS
<1> QED BY <1>1 DEF HalfEven

\* The times a job is charged for are natural numbers, and so is its cost.
LEMMA TimesAndCost ==
    ASSUME NEW job \in Jobs, NEW rate \in Rate PROVE Cost(job, rate) \in Nat
<1>1. /\ job.totalCpu \in Nat /\ job.cpuTimeRaw \in Nat /\ job.cpus \in Nat
      /\ job.gpus \in Nat /\ job.mem \in Nat /\ job.elapsed \in Nat
  BY JobAssumption
<1>2. PICK steps : steps = job.steps
  OBVIOUS
<1>3. steps \in Seq(StepUsage)
  BY <1>2, JobAssumption
<1>4. PICK n \in Nat : DOMAIN steps = 1..n
  BY <1>3
<1>5. IsFiniteSet(DOMAIN steps)
  BY <1>4, FS_Interval
<1>6. \A x, y \in Nat : FirstPositive(x, y) \in Nat /\ x * y \in Nat
  BY DEF FirstPositive
<1>7. \A i \in DOMAIN steps : StepCores(steps[i]) \in Nat /\ StepMemory(steps[i]) \in Nat
  <2> SUFFICES ASSUME NEW i \in DOMAIN steps
               PROVE  StepCores(steps[i]) \in Nat /\ StepMemory(steps[i]) \in Nat
    OBVIOUS
  <2>1. steps[i] \in StepUsage
    BY <1>3
  <2> QED BY <1>6, <2>1 DEF StepUsage, StepCores, StepMemory
<1>8. CoresUsed(job) \in Nat
  <2>1. PICK f : f = [i \in DOMAIN steps |-> StepCores(steps[i])]
    OBVIOUS
  <2>2. SumFunctionOnSet(f, DOMAIN steps) \in Nat
    BY <1>5, <1>7, <2>1, SumIsNatural
  <2> QED BY <1>2, <2>1, <2>2 DEF CoresUsed
<1>9. MemoryUsed(job) \in Nat
  <2>1. PICK f : f = [i \in DOMAIN steps |-> StepMemory(steps[i])]
    OBVIOUS
  <2>2. SumFunctionOnSet(f, DOMAIN steps) \in Nat
    BY <1>5, <1>7, <2>1, SumIsNatural
  <2> QED BY <1>2, <2>1, <2>2 DEF MemoryUsed
<1>10. CoreTime(job) \in Nat /\ GpuTime(job) \in Nat /\ MemoryTime(job) \in Nat
  BY <1>1, <1>6, <1>8, <1>9 DEF CoreTime, GpuTime, MemoryTime
<1>11. rate.cpu \in Nat /\ rate.gpu \in Nat /\ rate.mem \in Nat
  BY DEF Rate
<1>12. /\ CoreTime(job) * rate.cpu \in Nat /\ GpuTime(job) * rate.gpu \in Nat
       /\ MemoryTime(job) * rate.mem \in Nat
  BY <1>6, <1>10, <1>11
<1> DEFINE charge == CoreTime(job) * rate.cpu + GpuTime(job) * rate.gpu
                     + MemoryTime(job) * rate.mem
<1>13. charge \in Nat
  BY <1>12
<1> HIDE DEF charge
<1>14. HalfEven(charge, 3600) \in Nat
  BY <1>13, HalfEvenIsNatural
<1> QED BY <1>14 DEF Cost, SecondsPerHour, charge

LEMMA SeededIsFilled ==
    ASSUME TypeOK
    PROVE  Seeded \in [Tiers -> Rate] /\ (Filled => Seeded = rates)
<1>1. Seeded \in [Tiers -> Rate]
  BY RateAssumption DEF TypeOK, Seeded
<1>2. ASSUME Filled PROVE Seeded = rates
  BY <1>2, NoneAssumption DEF Filled, Seeded
<1> QED BY <1>1, <1>2

LEMMA EffectiveTiers ==
    ASSUME TypeOK, NEW u \in Users PROVE Effective(u) \subseteq Tiers
BY TierAssumption DEF TypeOK, Effective, Overrides

\* What a request holds, by what it is at.
LEMMA RequestFields ==
    ASSUME NEW r \in {Idle} \cup RequestStates
    PROVE  /\ r.at \in {"rates: loaded", "rates: saving"} => r.tier \in Tiers /\ r.table \in [Tiers -> Rate]
           /\ r.at \in {"tiers: loaded", "tiers: saving"} => r.name \in Names /\ r.tier \in Tiers
           /\ r.at = "tiers: loaded" => r.overridden \in BOOLEAN
           /\ r.at \in Billing => r.user \in Users /\ r.tier \in Tiers /\ r.seen \in SUBSET Rate
           /\ r.at = "bill: tier" => r.job \in Jobs
           /\ r.at \in {"bill: costs", "bill: snapshot"} => r.item \in Rate /\ r.cost \in Nat
           /\ r.at = "bill: snapshot" => r.snapshot \in Rate
<1>1. CASE r = Idle
  BY <1>1 DEF Idle, Billing
<1>2. CASE r \in [at : {"rates: loaded"}, tier : Tiers, table : [Tiers -> Rate]]
  BY <1>2 DEF Billing
<1>3. CASE r \in [at : {"rates: saving"}, tier : Tiers, table : [Tiers -> Rate],
                  cols : SUBSET (Tiers \X {"cpu", "gpu", "mem"})]
  BY <1>3 DEF Billing
<1>4. CASE r \in [at : {"tiers: loaded"}, name : Names, tier : Tiers, overridden : BOOLEAN]
  BY <1>4 DEF Billing
<1>5. CASE r \in [at : {"tiers: saving"}, name : Names, tier : Tiers, found : BOOLEAN]
  BY <1>5 DEF Billing
<1>6. CASE r \in [at : {"bill: tier"}, user : Users, job : Jobs, tier : Tiers, seen : SUBSET Rate]
  BY <1>6 DEF Billing
<1>7. CASE r \in [at : {"bill: costs"}, user : Users, tier : Tiers, seen : SUBSET Rate,
                  item : Rate, cost : Nat]
  BY <1>7 DEF Billing
<1>8. CASE r \in [at : {"bill: snapshot"}, user : Users, tier : Tiers, seen : SUBSET Rate,
                  item : Rate, cost : Nat, snapshot : Rate]
  BY <1>8 DEF Billing
<1> QED BY <1>1, <1>2, <1>3, <1>4, <1>5, <1>6, <1>7, <1>8 DEF RequestStates

\* A step that fills in rates at most, and moves one request.
LEMMA OthersSee ==
    ASSUME TypeOK, RatesSeen, rates' \in {rates, Seeded}, NEW w \in Workers,
           \A v \in Workers \ {w} : req'[v] = req[v], RequestSees(req[w])'
    PROVE  RatesSeen'
<1>1. Filled => Filled'
  BY SeededIsFilled DEF Filled
<1>2. Seeded' = Seeded
  <2>1. CASE rates' = rates
    BY <2>1 DEF Seeded
  <2>2. CASE rates' = Seeded
    <3>1. \A t \in Tiers : Seeded[t] # None
      BY SeededIsFilled, NoneAssumption
    <3>2. \A t \in Tiers : Seeded[t] = rates'[t] /\ rates'[t] # None
      BY <2>2, <3>1
    <3> QED BY <2>2, <3>2, SeededIsFilled DEF Seeded
  <2> QED BY <2>1, <2>2
<1>3. ASSUME NEW v \in Workers \ {w} PROVE RequestSees(req[v])'
  BY <1>1, <1>2 DEF RatesSeen, RequestSees
<1> QED BY <1>3 DEF RatesSeen

-----------------------------------------------------------------------------
(* One lemma for each action.                                               *)

\* A step that fills in rates at most, and gives w the request r.
LEMMA Moves ==
    ASSUME PricingInv, rates' \in {rates, Seeded}, NEW w \in Workers,
           NEW r \in {Idle} \cup RequestStates,
           req' = [req EXCEPT ![w] = r], RequestSees(req[w])',
           overrides' \in [Names -> Tiers \cup {None}],
           asked' \in [Tiers \cup Names -> Rate \cup Tiers \cup {None}],
           raced' \subseteq {"rates", "tiers"}, served' \in 0 .. MaxRequests,
           UNCHANGED <<tax, receipts>>
    PROVE  PricingInv'
<1>1. req' \in [Workers -> {Idle} \cup RequestStates] /\ \A v \in Workers \ {w} : req'[v] = req[v]
  BY DEF PricingInv, TypeOK
<1>2. RatesSeen'
  BY <1>1, OthersSee DEF PricingInv
<1>3. rates' \in [Tiers -> Rate \cup {None}]
  BY SeededIsFilled DEF PricingInv, TypeOK
<1>4. ReceiptsFit'
  BY DEF PricingInv, ReceiptsFit
<1>5. TypeOK'
  BY <1>1, <1>3 DEF PricingInv, TypeOK
<1> QED BY <1>2, <1>4, <1>5 DEF PricingInv

\* A step that only ends a request, or begins one that holds no rates.
LEMMA MovesUnseeing ==
    ASSUME PricingInv, rates' = rates, NEW w \in Workers,
           NEW r \in {Idle} \cup RequestStates,
           req' = [req EXCEPT ![w] = r], r.at \notin NeedsRates \cup Billing,
           overrides' \in [Names -> Tiers \cup {None}],
           asked' \in [Tiers \cup Names -> Rate \cup Tiers \cup {None}],
           raced' \subseteq {"rates", "tiers"}, served' \in 0 .. MaxRequests,
           UNCHANGED <<tax, receipts>>
    PROVE  PricingInv'
<1>1. req'[w] = r
  BY DEF PricingInv, TypeOK
<1>2. RequestSees(req[w])'
  BY <1>1 DEF RequestSees, Billing
<1> QED BY <1>2, Moves

LEMMA IdleSeesNothing == Idle.at \notin NeedsRates \cup Billing /\ Idle \in {Idle} \cup RequestStates
BY DEF Idle, NeedsRates, Billing

LEMMA StepLoadRates ==
    ASSUME PricingInv, NEW w \in Workers, NEW t \in Tiers, NEW rate \in Rates,
           LoadRates(w, t, rate)
    PROVE  PricingInv'
<1> DEFINE r == [at |-> "rates: loaded", tier |-> t, table |-> [Seeded EXCEPT ![t] = rate]]
<1>1. r \in RequestStates
  <2>1. [Seeded EXCEPT ![t] = rate] \in [Tiers -> Rate]
    BY SeededIsFilled, RateAssumption DEF PricingInv
  <2> QED BY <2>1 DEF RequestStates
<1>2. req' = [req EXCEPT ![w] = r] /\ rates' = Seeded /\ req'[w] = r
  BY DEF LoadRates, Begin, PricingInv, TypeOK
<1>3. RequestSees(req[w])'
  <2>1. Filled'
    BY <1>2, SeededIsFilled DEF PricingInv, Filled
  <2>2. r.at \notin Billing
    BY DEF Billing
  <2> QED BY <1>2, <2>1, <2>2 DEF RequestSees, Billing
<1>4. /\ served' \in 0 .. MaxRequests /\ raced' \subseteq {"rates", "tiers"}
      /\ UNCHANGED <<overrides, tax, receipts, asked>>
  <2>1. raced' \in {raced, raced \cup {"rates"}} /\ UNCHANGED <<overrides, tax, receipts, asked>>
    BY DEF LoadRates
  <2>2. served < MaxRequests /\ served' = served + 1
    BY DEF LoadRates, Begin
  <2>3. served' \in 0 .. MaxRequests
    BY <2>2, NoneAssumption DEF PricingInv, TypeOK
  <2>4. raced' \subseteq {"rates", "tiers"}
    BY <2>1 DEF PricingInv, TypeOK
  <2> QED BY <2>1, <2>3, <2>4
<1>5. /\ overrides' \in [Names -> Tiers \cup {None}]
      /\ asked' \in [Tiers \cup Names -> Rate \cup Tiers \cup {None}]
  BY <1>4 DEF PricingInv, TypeOK
<1> QED BY <1>1, <1>2, <1>3, <1>4, <1>5, Moves

LEMMA StepSaveRates ==
    ASSUME PricingInv, NEW w \in Workers, SaveRates(w)
    PROVE  PricingInv'
<1> DEFINE cols == {c \in Tiers \X {"cpu", "gpu", "mem"} :
                        req[w].table[c[1]][c[2]] # rates[c[1]][c[2]]}
           r == [at |-> "rates: saving", tier |-> req[w].tier, table |-> req[w].table,
                 cols |-> cols]
<1>1. req[w].at = "rates: loaded" /\ req[w] \in {Idle} \cup RequestStates
  BY DEF SaveRates, Step, PricingInv, TypeOK
<1>2. r \in RequestStates
  BY <1>1, RequestFields DEF RequestStates
<1>3. /\ req' = [req EXCEPT ![w] = r] /\ req'[w] = r
      /\ UNCHANGED <<rates, overrides, tax, receipts, asked, raced, served>>
  BY DEF SaveRates, Step, PricingInv, TypeOK
<1>4. RequestSees(req[w])'
  <2>1. Filled'
    BY <1>1, <1>3 DEF PricingInv, RatesSeen, RequestSees, NeedsRates, Filled
  <2>2. r.at \notin Billing
    BY DEF Billing
  <2> QED BY <1>3, <2>1, <2>2 DEF RequestSees, Billing
<1>5. /\ overrides' \in [Names -> Tiers \cup {None}] /\ served' \in 0 .. MaxRequests
      /\ asked' \in [Tiers \cup Names -> Rate \cup Tiers \cup {None}]
      /\ raced' \subseteq {"rates", "tiers"}
  BY <1>3 DEF PricingInv, TypeOK
<1> QED BY <1>2, <1>3, <1>4, <1>5, Moves

LEMMA BillingStates ==
    ASSUME NEW r \in {Idle} \cup RequestStates, r.at \in Billing
    PROVE  \/ r \in [at : {"bill: tier"}, user : Users, job : Jobs, tier : Tiers, seen : SUBSET Rate]
           \/ r \in [at : {"bill: costs"}, user : Users, tier : Tiers, seen : SUBSET Rate,
                     item : Rate, cost : Nat]
           \/ r \in [at : {"bill: snapshot"}, user : Users, tier : Tiers, seen : SUBSET Rate,
                     item : Rate, cost : Nat, snapshot : Rate]
<1>1. r # Idle
  BY IdleSeesNothing
<1>2. \/ r.at \in {"rates: loaded", "rates: saving", "tiers: loaded", "tiers: saving"}
      \/ r \in [at : {"bill: tier"}, user : Users, job : Jobs, tier : Tiers, seen : SUBSET Rate]
      \/ r \in [at : {"bill: costs"}, user : Users, tier : Tiers, seen : SUBSET Rate,
                item : Rate, cost : Nat]
      \/ r \in [at : {"bill: snapshot"}, user : Users, tier : Tiers, seen : SUBSET Rate,
                item : Rate, cost : Nat, snapshot : Rate]
  <2>1. r \in [at : {"rates: loaded"}, tier : Tiers, table : [Tiers -> Rate]]
           => r.at = "rates: loaded"
    OBVIOUS
  <2>2. r \in [at : {"rates: saving"}, tier : Tiers, table : [Tiers -> Rate],
               cols : SUBSET (Tiers \X {"cpu", "gpu", "mem"})]
           => r.at = "rates: saving"
    OBVIOUS
  <2>3. r \in [at : {"tiers: loaded"}, name : Names, tier : Tiers, overridden : BOOLEAN]
           => r.at = "tiers: loaded"
    OBVIOUS
  <2>4. r \in [at : {"tiers: saving"}, name : Names, tier : Tiers, found : BOOLEAN]
           => r.at = "tiers: saving"
    OBVIOUS
  <2>5. r \in RequestStates
    BY <1>1
  <2> QED BY <2>1, <2>2, <2>3, <2>4, <2>5, Zenon DEF RequestStates
<1>3. r.at \notin {"rates: loaded", "rates: saving", "tiers: loaded", "tiers: saving"}
  BY DEF Billing
<1> QED BY <1>2, <1>3

LEMMA StepCommitRates ==
    ASSUME PricingInv, NEW w \in Workers, CommitRates(w)
    PROVE  PricingInv'
<1>1. req[w].at = "rates: saving" /\ req[w] \in {Idle} \cup RequestStates
  BY DEF CommitRates, PricingInv, TypeOK
<1>2. req[w].tier \in Tiers /\ req[w].table \in [Tiers -> Rate] /\ Filled
  BY <1>1, RequestFields DEF PricingInv, RatesSeen, RequestSees, NeedsRates
<1>3. Filled'
  <2>1. rates' = [t \in Tiers |-> [c \in {"cpu", "gpu", "mem"} |->
                     IF <<t, c>> \in req[w].cols THEN req[w].table[t][c] ELSE rates[t][c]]]
    BY DEF CommitRates
  <2>2. ASSUME NEW t \in Tiers PROVE rates'[t] \in Rate
    <3>1. \A c \in {"cpu", "gpu", "mem"} : req[w].table[t][c] \in Nat /\ rates[t][c] \in Nat
      <4>1. req[w].table[t] \in Rate /\ rates[t] \in Rate
        BY <1>2 DEF Filled
      <4>2. ASSUME NEW x \in Rate PROVE x["cpu"] \in Nat /\ x["gpu"] \in Nat /\ x["mem"] \in Nat
        BY DEF Rate
      <4> QED BY <4>1, <4>2
    <3>2. rates'[t] = [c \in {"cpu", "gpu", "mem"} |->
                          IF <<t, c>> \in req[w].cols THEN req[w].table[t][c] ELSE rates[t][c]]
      BY <2>1
    <3> QED BY <3>1, <3>2 DEF Rate
  <2>3. rates' = [t \in Tiers |-> rates'[t]]
    BY <2>1
  <2> QED BY <2>2, <2>3 DEF Filled
<1>4. /\ DOMAIN req' = Workers /\ req'[w] = Idle
      /\ \A v \in Workers \ {w} : req'[v] = Seeing(req[v])
  BY DEF CommitRates
<1>5. Seeded' = rates' /\ \A t \in Tiers : rates'[t] \in Rate
  BY <1>3, NoneAssumption DEF Filled, Seeded
<1>6. ASSUME NEW v \in Workers \ {w}
      PROVE  req'[v] \in {Idle} \cup RequestStates /\ RequestSees(req[v])'
  <2>1. req[v] \in {Idle} \cup RequestStates /\ RequestSees(req[v])
    BY DEF PricingInv, TypeOK, RatesSeen
  <2>2. CASE req[v].at \notin Billing
    <3>1. req'[v] = req[v]
      BY <1>4, <2>2 DEF Seeing, Billing
    <3> QED BY <1>3, <2>1, <2>2, <3>1 DEF RequestSees, Billing
  <2>3. CASE req[v].at \in Billing
    <3> DEFINE r == req[v]
               q == req'[v]
               x == rates'[r.tier]
    <3>1. q = [r EXCEPT !.seen = @ \cup {x}]
      BY <1>4, <2>3 DEF Seeing, Billing
    <3>2. r.tier \in Tiers
      BY <2>1, <2>3, RequestFields
    <3>3. x \in Rate
      BY <1>5, <3>2
    <3>4. r \in {Idle} \cup RequestStates /\ r.at \in Billing
      BY <2>1, <2>3
    <3>5. /\ q \in RequestStates /\ q.at = r.at /\ q.tier = r.tier
          /\ x \in q.seen /\ r.seen \subseteq q.seen
          /\ r.at \in {"bill: costs", "bill: snapshot"} => q.item = r.item
          /\ r.at = "bill: snapshot" => q.snapshot = r.snapshot
      <4> HIDE DEF r, q, x
      <4>1. CASE r \in [at : {"bill: tier"}, user : Users, job : Jobs, tier : Tiers, seen : SUBSET Rate]
        <5>1. q \in [at : {"bill: tier"}, user : Users, job : Jobs, tier : Tiers, seen : SUBSET Rate]
          BY <3>1, <3>3, <4>1
        <5>2. q.seen = r.seen \cup {x} /\ q.tier = r.tier /\ q.at = r.at /\ r.at = "bill: tier"
          BY <3>1, <4>1
        <5> QED BY <5>1, <5>2 DEF RequestStates
      <4>2. CASE r \in [at : {"bill: costs"}, user : Users, tier : Tiers, seen : SUBSET Rate,
                        item : Rate, cost : Nat]
        <5>1. q \in [at : {"bill: costs"}, user : Users, tier : Tiers, seen : SUBSET Rate,
                     item : Rate, cost : Nat]
          BY <3>1, <3>3, <4>2
        <5>2. q.seen = r.seen \cup {x} /\ q.tier = r.tier /\ q.at = r.at /\ r.at = "bill: costs" /\ q.item = r.item
          BY <3>1, <4>2
        <5> QED BY <5>1, <5>2 DEF RequestStates
      <4>3. CASE r \in [at : {"bill: snapshot"}, user : Users, tier : Tiers, seen : SUBSET Rate,
                        item : Rate, cost : Nat, snapshot : Rate]
        <5>1. q \in [at : {"bill: snapshot"}, user : Users, tier : Tiers, seen : SUBSET Rate,
                     item : Rate, cost : Nat, snapshot : Rate]
          BY <3>1, <3>3, <4>3
        <5>2. q.seen = r.seen \cup {x} /\ q.tier = r.tier /\ q.at = r.at /\ r.at = "bill: snapshot" /\ q.item = r.item
              /\ q.snapshot = r.snapshot
          BY <3>1, <4>3
        <5> QED BY <5>1, <5>2 DEF RequestStates
      <4>4. \/ r \in [at : {"bill: tier"}, user : Users, job : Jobs, tier : Tiers, seen : SUBSET Rate]
            \/ r \in [at : {"bill: costs"}, user : Users, tier : Tiers, seen : SUBSET Rate,
                      item : Rate, cost : Nat]
            \/ r \in [at : {"bill: snapshot"}, user : Users, tier : Tiers, seen : SUBSET Rate,
                      item : Rate, cost : Nat, snapshot : Rate]
        BY <3>4, BillingStates
      <4> QED BY <4>1, <4>2, <4>3, <4>4
    <3>6. Seeded'[q.tier] \in q.seen
      BY <1>5, <3>5
    <3> QED BY <1>3, <2>1, <3>5, <3>6 DEF RequestSees
  <2> QED BY <2>2, <2>3
<1>7. req' \in [Workers -> {Idle} \cup RequestStates]
  <2>1. req' = [v \in Workers |-> req'[v]]
    BY DEF CommitRates
  <2> QED BY <1>4, <1>6, <2>1
<1>8. RatesSeen'
  <2>1. RequestSees(req[w])'
    BY <1>4, IdleSeesNothing DEF RequestSees, Billing
  <2> QED BY <1>6, <2>1 DEF RatesSeen
<1>9. asked' \in [Tiers \cup Names -> Rate \cup Tiers \cup {None}]
  <2>1. req[w].table[req[w].tier] \in Rate
    BY <1>2
  <2>2. asked' = [asked EXCEPT ![req[w].tier] = req[w].table[req[w].tier]]
    BY DEF CommitRates
  <2> QED BY <2>1, <2>2 DEF PricingInv, TypeOK
<1>10. UNCHANGED <<served, overrides, tax, receipts, raced>>
  BY DEF CommitRates
<1>11. TypeOK'
  <2>1. rates' \in [Tiers -> Rate \cup {None}]
    BY <1>3 DEF Filled
  <2> QED BY <1>7, <1>9, <1>10, <2>1 DEF PricingInv, TypeOK
<1>12. ReceiptsFit'
  BY <1>10 DEF PricingInv, ReceiptsFit
<1> QED BY <1>8, <1>11, <1>12 DEF PricingInv

LEMMA StepLoadOverrides ==
    ASSUME PricingInv, NEW w \in Workers, NEW n \in Names, NEW t \in Tiers,
           LoadOverrides(w, n, t)
    PROVE  PricingInv'
<1> DEFINE r == [at |-> "tiers: loaded", name |-> n, tier |-> t,
                 overridden |-> Overrides(UserOf[n]) # {}]
<1>1. r \in RequestStates
  BY DEF RequestStates
<1>2. r.at \notin NeedsRates \cup Billing
  BY DEF NeedsRates, Billing
<1>3. /\ req' = [req EXCEPT ![w] = r] /\ raced' \in {raced, raced \cup {"tiers"}}
      /\ UNCHANGED <<rates, overrides, tax, receipts, asked>>
  BY DEF LoadOverrides, Begin
<1>4. served' \in 0 .. MaxRequests
  <2>1. served < MaxRequests /\ served' = served + 1
    BY DEF LoadOverrides, Begin
  <2> QED BY <2>1, NoneAssumption DEF PricingInv, TypeOK
<1>5. /\ overrides' \in [Names -> Tiers \cup {None}] /\ raced' \subseteq {"rates", "tiers"}
      /\ asked' \in [Tiers \cup Names -> Rate \cup Tiers \cup {None}]
  BY <1>3 DEF PricingInv, TypeOK
<1> QED BY <1>1, <1>2, <1>3, <1>4, <1>5, MovesUnseeing

LEMMA StepFindOverride ==
    ASSUME PricingInv, NEW w \in Workers, FindOverride(w)
    PROVE  PricingInv'
<1> DEFINE r == [at |-> "tiers: saving", name |-> req[w].name, tier |-> req[w].tier,
                 found |-> overrides[req[w].name] # None]
<1>1. req[w].at = "tiers: loaded" /\ req[w] \in {Idle} \cup RequestStates
  BY DEF FindOverride, PricingInv, TypeOK
<1>2. r \in RequestStates
  BY <1>1, RequestFields DEF RequestStates
<1>3. r.at \notin NeedsRates \cup Billing
  BY DEF NeedsRates, Billing
<1>4. /\ req' = [req EXCEPT ![w] = r]
      /\ UNCHANGED <<rates, overrides, tax, receipts, asked, raced, served>>
  BY DEF FindOverride, Step
<1>5. /\ overrides' \in [Names -> Tiers \cup {None}] /\ raced' \subseteq {"rates", "tiers"}
      /\ asked' \in [Tiers \cup Names -> Rate \cup Tiers \cup {None}]
      /\ served' \in 0 .. MaxRequests
  BY <1>4 DEF PricingInv, TypeOK
<1> QED BY <1>2, <1>3, <1>4, <1>5, MovesUnseeing

\* SaveNatural and CommitOverride write one override and end the request.
LEMMA StepSaveTier ==
    ASSUME PricingInv, NEW w \in Workers, SaveNatural(w) \/ CommitOverride(w)
    PROVE  PricingInv'
<1> DEFINE n == req[w].name
<1>1. n \in Names /\ req[w].tier \in Tiers
  <2>1. /\ req[w].at \in {"tiers: loaded", "tiers: saving"}
        /\ req[w] \in {Idle} \cup RequestStates
    BY DEF SaveNatural, CommitOverride, PricingInv, TypeOK
  <2> QED BY <2>1, RequestFields
<1>2. overrides' \in {overrides, [overrides EXCEPT ![n] = None],
                      [overrides EXCEPT ![n] = req[w].tier]}
  BY DEF SaveNatural, CommitOverride
<1>3. /\ req' = [req EXCEPT ![w] = Idle] /\ asked' = [asked EXCEPT ![n] = req[w].tier]
      /\ UNCHANGED <<rates, tax, receipts, raced, served>>
  BY DEF SaveNatural, CommitOverride, End
<1>4. overrides' \in [Names -> Tiers \cup {None}]
  BY <1>1, <1>2 DEF PricingInv, TypeOK
<1>5. asked' \in [Tiers \cup Names -> Rate \cup Tiers \cup {None}]
  BY <1>1, <1>3 DEF PricingInv, TypeOK
<1>6. served' \in 0 .. MaxRequests /\ raced' \subseteq {"rates", "tiers"}
  BY <1>3 DEF PricingInv, TypeOK
<1> QED BY <1>3, <1>4, <1>5, <1>6, IdleSeesNothing, MovesUnseeing

LEMMA StepBillTier ==
    ASSUME PricingInv, NEW w \in Workers, NEW u \in Users, NEW job \in Jobs,
           BillTier(w, u, job)
    PROVE  PricingInv'
<1>1. PICK t \in Effective(u) :
         Begin(w, [at |-> "bill: tier", user |-> u, job |-> job, tier |-> t,
                   seen |-> {Seeded[t]}])
  BY DEF BillTier
<1> DEFINE r == [at |-> "bill: tier", user |-> u, job |-> job, tier |-> t,
                 seen |-> {Seeded[t]}]
<1>2. t \in Tiers /\ Seeded[t] \in Rate
  BY EffectiveTiers, SeededIsFilled DEF PricingInv
<1>3. r \in RequestStates
  BY <1>2 DEF RequestStates
<1>4. /\ req' = [req EXCEPT ![w] = r] /\ req'[w] = r
      /\ UNCHANGED <<rates, overrides, tax, receipts, asked, raced>>
  BY <1>1 DEF BillTier, Begin, PricingInv, TypeOK
<1>5. RequestSees(req[w])'
  <2>1. r.at \notin NeedsRates /\ r.at # "bill: costs" /\ r.at # "bill: snapshot"
    BY DEF NeedsRates
  <2>2. Seeded'[r.tier] \in r.seen
    <3>1. Seeded' = Seeded
      BY <1>4 DEF Seeded
    <3> QED BY <3>1
  <2> HIDE DEF r
  <2> QED BY <1>4, <2>1, <2>2 DEF RequestSees
<1>6. served' \in 0 .. MaxRequests
  <2>1. served < MaxRequests /\ served' = served + 1
    BY <1>1 DEF Begin
  <2> QED BY <2>1, NoneAssumption DEF PricingInv, TypeOK
<1>7. /\ overrides' \in [Names -> Tiers \cup {None}] /\ raced' \subseteq {"rates", "tiers"}
      /\ asked' \in [Tiers \cup Names -> Rate \cup Tiers \cup {None}]
  BY <1>4 DEF PricingInv, TypeOK
<1> QED BY <1>3, <1>4, <1>5, <1>6, <1>7, Moves

LEMMA StepBillCosts ==
    ASSUME PricingInv, NEW w \in Workers, BillCosts(w)
    PROVE  PricingInv'
<1> DEFINE q == req[w]
           r == [at |-> "bill: costs", user |-> q.user, tier |-> q.tier, seen |-> q.seen,
                 item |-> Seeded[q.tier], cost |-> Cost(q.job, Seeded[q.tier])]
<1>1. q.at = "bill: tier" /\ q \in {Idle} \cup RequestStates /\ RequestSees(q)
  BY DEF BillCosts, PricingInv, TypeOK, RatesSeen
<1>2. /\ q.user \in Users /\ q.tier \in Tiers /\ q.seen \in SUBSET Rate /\ q.job \in Jobs
      /\ Seeded[q.tier] \in q.seen
  <2>1. q.at \in Billing
    BY <1>1 DEF Billing
  <2> HIDE DEF q
  <2> QED BY <1>1, <2>1, RequestFields DEF RequestSees
<1>3. Seeded[q.tier] \in Rate
  BY <1>2, SeededIsFilled DEF PricingInv
<1>4. r \in RequestStates
  <2> HIDE DEF q
  <2> QED BY <1>2, <1>3, TimesAndCost DEF RequestStates
<1>5. /\ req' = [req EXCEPT ![w] = r] /\ req'[w] = r /\ rates' = Seeded
      /\ UNCHANGED <<overrides, tax, receipts, asked, raced, served>>
  BY DEF BillCosts, Step, PricingInv, TypeOK
<1>6. Filled' /\ Seeded' = Seeded
  <2>1. Filled'
    BY <1>5, SeededIsFilled DEF PricingInv, Filled
  <2>2. Seeded \in [Tiers -> Rate]
    BY SeededIsFilled DEF PricingInv
  <2>3. \A t \in Tiers : rates'[t] # None /\ rates'[t] = Seeded[t]
    BY <1>5, <2>2, NoneAssumption
  <2>4. Seeded' = [t \in Tiers |-> rates'[t]]
    BY <2>3 DEF Seeded
  <2> QED BY <1>5, <2>1, <2>2, <2>4
<1>7. RequestSees(req[w])'
  <2>1. /\ r.at = "bill: costs" /\ r.tier = q.tier /\ r.item = Seeded[q.tier]
        /\ r.seen = q.seen
    OBVIOUS
  <2> HIDE DEF r, q
  <2> QED BY <1>2, <1>5, <1>6, <2>1 DEF RequestSees
<1>8. /\ overrides' \in [Names -> Tiers \cup {None}] /\ raced' \subseteq {"rates", "tiers"}
      /\ asked' \in [Tiers \cup Names -> Rate \cup Tiers \cup {None}]
      /\ served' \in 0 .. MaxRequests
  BY <1>5 DEF PricingInv, TypeOK
<1> QED BY <1>4, <1>5, <1>7, <1>8, Moves

LEMMA StepBillSnapshot ==
    ASSUME PricingInv, NEW w \in Workers, BillSnapshot(w)
    PROVE  PricingInv'
<1> DEFINE q == req[w]
           r == [at |-> "bill: snapshot", user |-> q.user, tier |-> q.tier, seen |-> q.seen,
                 item |-> q.item, cost |-> q.cost, snapshot |-> rates[q.tier]]
<1>1. q.at = "bill: costs" /\ q \in {Idle} \cup RequestStates /\ RequestSees(q)
  BY DEF BillSnapshot, PricingInv, TypeOK, RatesSeen
<1>2. /\ q.user \in Users /\ q.tier \in Tiers /\ q.seen \in SUBSET Rate
      /\ q.item \in Rate /\ q.cost \in Nat /\ q.item \in q.seen
      /\ Seeded[q.tier] \in q.seen /\ Filled
  <2>1. q.at \in Billing /\ q.at \in NeedsRates
    BY <1>1 DEF Billing, NeedsRates
  <2> HIDE DEF q
  <2> QED BY <1>1, <2>1, RequestFields DEF RequestSees
<1>3. rates[q.tier] \in Rate /\ rates[q.tier] \in q.seen
  <2>1. Seeded = rates
    BY <1>2, SeededIsFilled DEF PricingInv
  <2> QED BY <1>2, <2>1 DEF Filled
<1>4. r \in RequestStates
  <2> HIDE DEF q
  <2> QED BY <1>2, <1>3 DEF RequestStates
<1>5. /\ req' = [req EXCEPT ![w] = r] /\ req'[w] = r
      /\ UNCHANGED <<rates, overrides, tax, receipts, asked, raced, served>>
  BY DEF BillSnapshot, Step, PricingInv, TypeOK
<1>6. Filled' /\ Seeded' = Seeded
  BY <1>2, <1>5 DEF Filled, Seeded
<1>7. RequestSees(req[w])'
  <2>1. /\ r.at = "bill: snapshot" /\ r.tier = q.tier /\ r.item = q.item
        /\ r.seen = q.seen /\ r.snapshot = rates[q.tier]
    OBVIOUS
  <2> HIDE DEF r, q
  <2> QED BY <1>2, <1>3, <1>5, <1>6, <2>1 DEF RequestSees
<1>8. /\ overrides' \in [Names -> Tiers \cup {None}] /\ raced' \subseteq {"rates", "tiers"}
      /\ asked' \in [Tiers \cup Names -> Rate \cup Tiers \cup {None}]
      /\ served' \in 0 .. MaxRequests
  BY <1>5 DEF PricingInv, TypeOK
<1> QED BY <1>4, <1>5, <1>7, <1>8, Moves

LEMMA StepBillCommit ==
    ASSUME PricingInv, NEW w \in Workers, BillCommit(w)
    PROVE  PricingInv'
<1> DEFINE q == req[w]
           a == Amounts(q.cost, tax)
           r == [user |-> q.user, tier |-> q.tier, item |-> q.item, cost |-> q.cost,
                 snapshot |-> q.snapshot, seen |-> q.seen, taxRate |-> tax.rate, amounts |-> a]
<1>1. q.at = "bill: snapshot" /\ q \in {Idle} \cup RequestStates /\ RequestSees(q) /\ tax \in Taxes
  BY DEF BillCommit, PricingInv, TypeOK, RatesSeen
<1>2. /\ q.user \in Users /\ q.tier \in Tiers /\ q.item \in Rate /\ q.snapshot \in Rate
      /\ q.cost \in Nat /\ q.item \in q.seen /\ q.snapshot \in q.seen
  <2>1. q.at \in Billing
    BY <1>1 DEF Billing
  <2> HIDE DEF q
  <2> QED BY <1>1, <2>1, RequestFields DEF RequestSees
<1>3. /\ a \in [subtotal : Nat, tax : Nat, total : Nat]
      /\ a.subtotal + a.tax = a.total
      /\ tax.rate % 2 = 1 => /\ NetOf(a.total, tax.rate) = a.subtotal
                             /\ VatOf(a.total, tax.rate) = a.tax
  <2> HIDE DEF q
  <2> QED BY <1>1, <1>2, AmountsFit
<1>4. receipts' = receipts \cup {r}
  BY DEF BillCommit
<1>5. /\ req' = [req EXCEPT ![w] = Idle]
      /\ UNCHANGED <<rates, overrides, tax, asked, raced, served>>
  BY DEF BillCommit, End
<1>6. /\ r.user = q.user /\ r.tier = q.tier /\ r.item = q.item /\ r.snapshot = q.snapshot
      /\ r.seen = q.seen /\ r.taxRate = tax.rate /\ r.amounts = a
  OBVIOUS
<1> HIDE DEF q, a, r
<1>7. ReceiptsFit'
  <2>1. ASSUME NEW x \in receipts'
        PROVE  /\ x.item \in x.seen /\ x.snapshot \in x.seen
               /\ x.taxRate % 2 = 1 => /\ NetOf(x.amounts.total, x.taxRate) = x.amounts.subtotal
                                       /\ VatOf(x.amounts.total, x.taxRate) = x.amounts.tax
    <3>1. CASE x \in receipts
      BY <3>1 DEF PricingInv, ReceiptsFit
    <3>2. CASE x = r
      BY <1>2, <1>3, <1>6, <3>2
    <3> QED BY <1>4, <3>1, <3>2
  <2> QED BY <2>1 DEF ReceiptsFit
<1>8. TypeOK'
  <2>1. ASSUME NEW x \in receipts'
        PROVE  /\ x.user \in Users /\ x.tier \in Tiers
               /\ x.item \in Rate /\ x.snapshot \in Rate
               /\ x.amounts \in [subtotal : Nat, tax : Nat, total : Nat]
               /\ x.amounts.subtotal + x.amounts.tax = x.amounts.total
    <3>1. CASE x \in receipts
      BY <3>1 DEF PricingInv, TypeOK
    <3>2. CASE x = r
      BY <1>2, <1>3, <1>6, <3>2
    <3> QED BY <1>4, <3>1, <3>2
  <2>2. req' \in [Workers -> {Idle} \cup RequestStates]
    BY <1>5 DEF PricingInv, TypeOK
  <2> QED BY <1>5, <2>1, <2>2 DEF PricingInv, TypeOK
<1>9. RatesSeen'
  <2>1. req'[w] = Idle /\ \A v \in Workers \ {w} : req'[v] = req[v]
    BY <1>5 DEF PricingInv, TypeOK
  <2>2. RequestSees(req[w])'
    BY <2>1, IdleSeesNothing DEF RequestSees, Billing
  <2> QED BY <1>5, <2>1, <2>2, OthersSee DEF PricingInv
<1> QED BY <1>7, <1>8, <1>9 DEF PricingInv

LEMMA StepFail ==
    ASSUME PricingInv, NEW w \in Workers, Fail(w)
    PROVE  PricingInv'
<1>1. /\ req' = [req EXCEPT ![w] = Idle]
      /\ UNCHANGED <<rates, overrides, tax, receipts, served, asked, raced>>
  BY DEF Fail
<1>2. /\ overrides' \in [Names -> Tiers \cup {None}] /\ raced' \subseteq {"rates", "tiers"}
      /\ asked' \in [Tiers \cup Names -> Rate \cup Tiers \cup {None}]
      /\ served' \in 0 .. MaxRequests
  BY <1>1 DEF PricingInv, TypeOK
<1> QED BY <1>1, <1>2, IdleSeesNothing, MovesUnseeing

LEMMA StepRestart ==
    ASSUME PricingInv, NEW t \in Taxes, Restart(t)
    PROVE  PricingInv'
<1>1. /\ tax' = t /\ req' = [w \in Workers |-> Idle]
      /\ UNCHANGED <<rates, overrides, receipts, served, asked, raced>>
  BY DEF Restart
<1>2. RatesSeen'
  <2>1. ASSUME NEW w \in Workers PROVE RequestSees(req[w])'
    <3>1. req'[w] = Idle
      BY <1>1
    <3> QED BY <3>1, IdleSeesNothing DEF RequestSees, Billing
  <2> QED BY <2>1 DEF RatesSeen
<1>3. TypeOK' /\ ReceiptsFit'
  BY <1>1 DEF PricingInv, TypeOK, ReceiptsFit
<1> QED BY <1>2, <1>3 DEF PricingInv

LEMMA PricingInit == Init => PricingInv
<1> SUFFICES ASSUME Init PROVE PricingInv
  OBVIOUS
<1>1. RatesSeen
  <2>1. ASSUME NEW w \in Workers PROVE RequestSees(req[w])
    <3>1. req[w] = Idle
      BY DEF Init
    <3> QED BY <3>1, IdleSeesNothing DEF RequestSees, Billing
  <2> QED BY <2>1 DEF RatesSeen
<1>2. TypeOK /\ ReceiptsFit
  BY NoneAssumption DEF Init, TypeOK, ReceiptsFit
<1> QED BY <1>1, <1>2 DEF PricingInv

LEMMA PricingNext == PricingInv /\ [Next]_vars => PricingInv'
<1> SUFFICES ASSUME PricingInv, [Next]_vars PROVE PricingInv'
  OBVIOUS
<1>1. ASSUME NEW w \in Workers, NEW t \in Tiers, NEW rate \in Rates, LoadRates(w, t, rate)
      PROVE  PricingInv'
  BY <1>1, StepLoadRates
<1>2. ASSUME NEW w \in Workers, SaveRates(w) PROVE PricingInv'
  BY <1>2, StepSaveRates
<1>3. ASSUME NEW w \in Workers, CommitRates(w) PROVE PricingInv'
  BY <1>3, StepCommitRates
<1>4. ASSUME NEW w \in Workers, NEW n \in Names, NEW t \in Tiers, LoadOverrides(w, n, t)
      PROVE  PricingInv'
  BY <1>4, StepLoadOverrides
<1>5. ASSUME NEW w \in Workers, SaveNatural(w) \/ CommitOverride(w) PROVE PricingInv'
  BY <1>5, StepSaveTier
<1>6. ASSUME NEW w \in Workers, FindOverride(w) PROVE PricingInv'
  BY <1>6, StepFindOverride
<1>7. ASSUME NEW w \in Workers, NEW u \in Users, NEW job \in Jobs, BillTier(w, u, job)
      PROVE  PricingInv'
  BY <1>7, StepBillTier
<1>8. ASSUME NEW w \in Workers, BillCosts(w) PROVE PricingInv'
  BY <1>8, StepBillCosts
<1>9. ASSUME NEW w \in Workers, BillSnapshot(w) PROVE PricingInv'
  BY <1>9, StepBillSnapshot
<1>10. ASSUME NEW w \in Workers, BillCommit(w) PROVE PricingInv'
  BY <1>10, StepBillCommit
<1>11. ASSUME NEW w \in Workers, Fail(w) PROVE PricingInv'
  BY <1>11, StepFail
<1>12. ASSUME NEW t \in Taxes, Restart(t) PROVE PricingInv'
  BY <1>12, StepRestart
<1>13. CASE UNCHANGED vars
  <2>1. Seeded' = Seeded /\ Filled' = Filled
    BY <1>13 DEF vars, Seeded, Filled
  <2>2. RatesSeen'
    BY <1>13, <2>1 DEF PricingInv, RatesSeen, RequestSees, vars
  <2>3. TypeOK' /\ ReceiptsFit'
    BY <1>13 DEF PricingInv, TypeOK, ReceiptsFit, vars
  <2> QED BY <2>2, <2>3 DEF PricingInv
<1> QED BY <1>1, <1>2, <1>3, <1>4, <1>5, <1>6, <1>7, <1>8, <1>9, <1>10, <1>11, <1>12, <1>13 DEF Next

LEMMA PricingInvariant == Spec => []PricingInv
BY PricingInit, PricingNext, PTL DEF Spec

\* The tables, the requests and the receipts are of their types, and the
\* amounts of a receipt add up and are not negative, for every rate, cost and
\* tax (create_receipt_from_rows, models/billing_store.py:223).
THEOREM TypeCorrect == Spec => []TypeOK
BY PricingInvariant, PTL DEF PricingInv

\* A receipt is charged, and shows, rates that were in force while it was made
\* (services/billing.py:268 and models/billing_store.py:180 read them apart).
THEOREM PricesHold == Spec => []PricedAtRatesInForce
<1>1. PricingInv => PricedAtRatesInForce
  BY DEF PricingInv, ReceiptsFit, PricedAtRatesInForce
<1> QED BY <1>1, PricingInvariant, PTL

\* The ledger's and the exports' division of a total gives the subtotal and the
\* tax of its receipt, for every price and every odd rate, whether tax is added
\* or included (services/gl_posting.py:292, services/accounting.py:139).
THEOREM BooksAgree == Spec => []BooksMatchReceipt
<1>1. PricingInv => BooksMatchReceipt
  BY DEF PricingInv, ReceiptsFit, BooksMatchReceipt
<1> QED BY <1>1, PricingInvariant, PTL

-----------------------------------------------------------------------------
(* Savings that do not overlap: what is strengthened is that at most one    *)
(* request is saving, and that the table it loaded is the one in force but  *)
(* for the tier it changes.                                                 *)

SavingRates == {"rates: loaded", "rates: saving"}
SavingTiers == {"tiers: loaded", "tiers: saving"}

Differing(table) == {c \in Tiers \X {"cpu", "gpu", "mem"} : table[c[1]][c[2]] # rates[c[1]][c[2]]}

RatesKept ==
    "rates" \notin raced =>
        /\ \A v, w \in Workers : req[v].at \in SavingRates /\ req[w].at \in SavingRates => v = w
        /\ \A w \in Workers : req[w].at \in SavingRates =>
              \A t \in Tiers \ {req[w].tier} : req[w].table[t] = rates[t]
        /\ \A w \in Workers : req[w].at = "rates: saving" => req[w].cols = Differing(req[w].table)
        /\ \A t \in Tiers : asked[t] # None => rates[t] = asked[t]

OverridesKept ==
    /\ \A n \in Names : asked[n] = None => overrides[n] = None
    /\ \A w \in Workers : req[w].at = "tiers: saving" => req[w].tier # Natural[UserOf[req[w].name]]
    /\ "tiers" \notin raced =>
          /\ \A v, w \in Workers : req[v].at \in SavingTiers /\ req[w].at \in SavingTiers => v = w
          /\ \A w \in Workers : req[w].at = "tiers: loaded" =>
                req[w].overridden = (Overrides(UserOf[req[w].name]) # {})
          /\ \A n \in Names : asked[n] # None =>
                overrides[n] = IF asked[n] = Natural[UserOf[n]] THEN None ELSE asked[n]

\* A step that saves no rates and moves one request, which is none that does.
LEMMA RatesUntouched ==
    ASSUME PricingInv, RatesKept, rates' \in {rates, Seeded}, NEW w \in Workers,
           req'[w].at \notin SavingRates, \A v \in Workers \ {w} : req'[v] = req[v],
           \A t \in Tiers : asked'[t] = asked[t], "rates" \notin raced' => "rates" \notin raced
    PROVE  RatesKept'
<1> SUFFICES ASSUME "rates" \notin raced' PROVE RatesKept'
  BY DEF RatesKept
<1>1. \A v \in Workers : req'[v].at \in SavingRates => v # w /\ req'[v] = req[v]
  OBVIOUS
<1>2. \A v \in Workers : req'[v].at \in SavingRates => rates' = rates
  <2>1. \A v \in Workers : req'[v].at \in SavingRates => Filled
    BY <1>1 DEF PricingInv, RatesSeen, RequestSees, SavingRates, NeedsRates
  <2> QED BY <2>1, SeededIsFilled DEF PricingInv
<1>3. \A t \in Tiers : asked'[t] # None => rates'[t] = asked'[t]
  BY DEF RatesKept, Seeded
<1>4. \A u, v \in Workers : req'[u].at \in SavingRates /\ req'[v].at \in SavingRates => u = v
  BY <1>1 DEF RatesKept
<1>5. ASSUME NEW v \in Workers, req'[v].at \in SavingRates, NEW t \in Tiers \ {req'[v].tier}
      PROVE  req'[v].table[t] = rates'[t]
  <2>1. req'[v] = req[v] /\ rates' = rates
    BY <1>1, <1>2, <1>5
  <2>2. req[v].at \in SavingRates /\ t \in Tiers \ {req[v].tier}
    BY <1>5, <2>1
  <2>3. req[v].table[t] = rates[t]
    BY <2>2 DEF RatesKept
  <2> QED BY <2>1, <2>3
<1>6. ASSUME NEW v \in Workers, req'[v].at = "rates: saving"
      PROVE  req'[v].cols = Differing(req[v].table)'
  <2>1. req'[v].at \in SavingRates
    BY <1>6 DEF SavingRates
  <2>2. req'[v] = req[v] /\ rates' = rates
    BY <1>1, <1>2, <2>1
  <2>3. req[v].cols = Differing(req[v].table)
    BY <1>6, <2>2 DEF RatesKept
  <2> QED BY <2>2, <2>3 DEF Differing
<1> QED BY <1>3, <1>4, <1>5, <1>6 DEF RatesKept

\* A step that saves no override and moves one request, which is none that does.
LEMMA OverridesUntouched ==
    ASSUME PricingInv, OverridesKept, overrides' = overrides, NEW w \in Workers,
           req'[w].at \notin SavingTiers,
           \A v \in Workers \ {w} : req'[v].at \in SavingTiers => req'[v] = req[v],
           \A n \in Names : asked'[n] = asked[n], "tiers" \notin raced' => "tiers" \notin raced
    PROVE  OverridesKept'
<1>1. \A v \in Workers : req'[v].at \in SavingTiers => req'[v] = req[v]
  OBVIOUS
<1>2. \A u : Overrides(u)' = Overrides(u)
  BY DEF Overrides
<1>3. /\ \A v \in Workers : req'[v].at = "tiers: saving" => req'[v] = req[v]
      /\ \A v \in Workers : req'[v].at = "tiers: loaded" => req'[v] = req[v]
  BY <1>1 DEF SavingTiers
<1>4. /\ \A n \in Names : asked'[n] = None => overrides'[n] = None
      /\ \A v \in Workers : req'[v].at = "tiers: saving" =>
            req'[v].tier # Natural[UserOf[req'[v].name]]
  BY <1>3 DEF OverridesKept
<1>5. ASSUME "tiers" \notin raced'
      PROVE  /\ \A u, v \in Workers : req'[u].at \in SavingTiers /\ req'[v].at \in SavingTiers => u = v
             /\ \A v \in Workers : req'[v].at = "tiers: loaded" =>
                   req'[v].overridden = (Overrides(UserOf[req[v].name])' # {})
             /\ \A n \in Names : asked'[n] # None =>
                   overrides'[n] = IF asked'[n] = Natural[UserOf[n]] THEN None ELSE asked'[n]
  <2>1. \A u, v \in Workers : req'[u].at \in SavingTiers /\ req'[v].at \in SavingTiers => u = v
    BY <1>1, <1>5 DEF OverridesKept
  <2>2. \A v \in Workers : req'[v].at = "tiers: loaded" =>
           req'[v].overridden = (Overrides(UserOf[req[v].name])' # {})
    BY <1>2, <1>3, <1>5, ZenonT(60) DEF OverridesKept
  <2>3. \A n \in Names : asked'[n] # None =>
           overrides'[n] = IF asked'[n] = Natural[UserOf[n]] THEN None ELSE asked'[n]
    BY <1>5 DEF OverridesKept
  <2> QED BY <2>1, <2>2, <2>3
<1> QED BY <1>4, <1>5 DEF OverridesKept

\* What is seen changes no other request than those that see.
LEMMA SeeingKeeps ==
    ASSUME NEW r \in {Idle} \cup RequestStates
    PROVE  /\ r.at \notin Billing => Seeing(r) = r
           /\ r.at \in Billing => Seeing(r).at = r.at
<1>1. ASSUME r.at \notin Billing PROVE Seeing(r) = r
  BY <1>1 DEF Seeing, Billing
<1>2. ASSUME r.at \in Billing PROVE Seeing(r).at = r.at
  <2>1. Seeing(r) = [r EXCEPT !.seen = @ \cup {rates'[r.tier]}]
    BY <1>2 DEF Seeing, Billing
  <2> QED BY <1>2, <2>1, BillingStates
<1> QED BY <1>1, <1>2

\* The steps of the form of the rates.
LEMMA RatesLoaded ==
    ASSUME PricingInv, RatesKept, NEW w \in Workers, NEW x \in Tiers, NEW rate \in Rates,
           LoadRates(w, x, rate)
    PROVE  RatesKept'
<1> SUFFICES ASSUME "rates" \notin raced' PROVE RatesKept'
  BY DEF RatesKept
<1> DEFINE r == [at |-> "rates: loaded", tier |-> x, table |-> [Seeded EXCEPT ![x] = rate]]
<1>1. /\ req'[w] = r /\ \A v \in Workers \ {w} : req'[v] = req[v]
      /\ rates' = Seeded /\ UNCHANGED asked
  BY DEF LoadRates, Begin, PricingInv, TypeOK
<1>2. "rates" \notin raced /\ \A v \in Workers : req[v].at \notin SavingRates
  BY DEF LoadRates, Saving, SavingRates
<1>3. r.at = "rates: loaded" /\ \A t \in Tiers \ {r.tier} : r.table[t] = Seeded[t]
  BY SeededIsFilled DEF PricingInv
<1> HIDE DEF r
<1>4. \A v \in Workers : req'[v].at \in SavingRates => v = w
  BY <1>1, <1>2
<1>5. \A t \in Tiers : asked'[t] # None => rates'[t] = asked'[t]
  BY <1>1, <1>2 DEF RatesKept, Seeded
<1>6. \A v \in Workers : req'[v].at \in SavingRates =>
          \A t \in Tiers \ {req'[v].tier} : req'[v].table[t] = rates'[t]
  BY <1>1, <1>3, <1>4
<1>7. \A v \in Workers : req'[v].at # "rates: saving"
  BY <1>1, <1>3, <1>4 DEF SavingRates
<1> QED BY <1>4, <1>5, <1>6, <1>7 DEF RatesKept

LEMMA RatesCompared ==
    ASSUME PricingInv, RatesKept, NEW w \in Workers, SaveRates(w)
    PROVE  RatesKept'
<1> SUFFICES ASSUME "rates" \notin raced' PROVE RatesKept'
  BY DEF RatesKept
<1> DEFINE r == [at |-> "rates: saving", tier |-> req[w].tier, table |-> req[w].table,
                 cols |-> Differing(req[w].table)]
<1>1. /\ req'[w] = r /\ \A v \in Workers \ {w} : req'[v] = req[v]
      /\ req[w].at = "rates: loaded" /\ UNCHANGED <<rates, asked, raced>>
  BY DEF SaveRates, Step, PricingInv, TypeOK, Differing
<1>2. /\ r.at = "rates: saving" /\ r.tier = req[w].tier /\ r.table = req[w].table
      /\ r.cols = Differing(req[w].table)
  OBVIOUS
<1> HIDE DEF r
<1>3. req[w].at \in SavingRates /\ "rates" \notin raced
  BY <1>1 DEF SavingRates
<1>4. \A v \in Workers \ {w} : req'[v].at \notin SavingRates
  BY <1>1, <1>3 DEF RatesKept
<1>5. ASSUME NEW t \in Tiers \ {r.tier} PROVE r.table[t] = rates'[t]
  <2>1. t \in Tiers \ {req[w].tier}
    BY <1>2
  <2>2. req[w].table[t] = rates[t]
    BY <1>3, <2>1 DEF RatesKept
  <2> QED BY <1>1, <1>2, <2>2
<1>6. r.cols = Differing(req[w].table)'
  <2>1. req'[w].table = req[w].table /\ rates' = rates
    BY <1>1, <1>2
  <2>2. Differing(req[w].table)' = Differing(req[w].table)
    BY <2>1 DEF Differing
  <2> QED BY <1>2, <2>2
<1>7. \A t \in Tiers : asked'[t] # None => rates'[t] = asked'[t]
  BY <1>1, <1>3 DEF RatesKept
<1>8. \A v \in Workers : req'[v].at \in SavingRates =>
          v = w /\ \A t \in Tiers \ {req'[v].tier} : req'[v].table[t] = rates'[t]
  BY <1>1, <1>4, <1>5
<1>9. \A v \in Workers : req'[v].at = "rates: saving" => req'[v].cols = Differing(req[v].table)'
  BY <1>1, <1>4, <1>6 DEF SavingRates
<1> QED BY <1>7, <1>8, <1>9 DEF RatesKept

LEMMA RatesCommitted ==
    ASSUME PricingInv, RatesKept, NEW w \in Workers, CommitRates(w)
    PROVE  RatesKept'
<1> SUFFICES ASSUME "rates" \notin raced' PROVE RatesKept'
  BY DEF RatesKept
<1>1. /\ req[w].at = "rates: saving" /\ req[w] \in {Idle} \cup RequestStates /\ UNCHANGED raced
      /\ req[w].at \in SavingRates
  BY DEF CommitRates, PricingInv, TypeOK, SavingRates
<1> DEFINE x == req[w].tier
           table == req[w].table
<1>2. /\ x \in Tiers /\ table \in [Tiers -> Rate] /\ Filled
      /\ \A t \in Tiers \ {x} : table[t] = rates[t]
      /\ req[w].cols = Differing(table)
  BY <1>1, RequestFields DEF PricingInv, RatesSeen, RequestSees, NeedsRates, RatesKept
<1>3. \A t \in Tiers : rates'[t] = table[t]
  <2>1. ASSUME NEW t \in Tiers PROVE rates'[t] = table[t]
    <3>1. rates'[t] = [c \in {"cpu", "gpu", "mem"} |->
                          IF <<t, c>> \in req[w].cols THEN table[t][c] ELSE rates[t][c]]
      BY DEF CommitRates
    <3>2. \A c \in {"cpu", "gpu", "mem"} : <<t, c>> \notin req[w].cols => rates[t][c] = table[t][c]
      BY <1>2 DEF Differing
    <3>3. table[t] \in Rate
      BY <1>2
    <3>4. table[t] = [c \in {"cpu", "gpu", "mem"} |-> table[t][c]]
      BY <3>3 DEF Rate
    <3> QED BY <3>1, <3>2, <3>4
  <2> QED BY <2>1
<1>4. \A v \in Workers : req'[v].at \notin SavingRates
  <2>1. req'[w].at \notin SavingRates
    <3>1. req'[w] = Idle
      BY DEF CommitRates
    <3> QED BY <3>1 DEF Idle, SavingRates
  <2>2. ASSUME NEW v \in Workers \ {w} PROVE req'[v].at \notin SavingRates
    <3>1. req[v].at \notin SavingRates
      BY <1>1 DEF RatesKept
    <3>2. req'[v] = Seeing(req[v])
      BY DEF CommitRates
    <3> QED BY <3>1, <3>2, SeeingKeeps DEF PricingInv, TypeOK
  <2> QED BY <2>1, <2>2
<1>5. asked' = [asked EXCEPT ![x] = table[x]]
  BY DEF CommitRates
<1>6. \A t \in Tiers : asked'[t] # None => rates'[t] = asked'[t]
  BY <1>1, <1>2, <1>3, <1>5 DEF RatesKept, PricingInv, TypeOK
<1>7. \A v \in Workers : req'[v].at # "rates: saving"
  BY <1>4 DEF SavingRates
<1> QED BY <1>4, <1>6, <1>7 DEF RatesKept

\* The steps of the form of the tiers.
LEMMA OverridesLoaded ==
    ASSUME PricingInv, OverridesKept, NEW w \in Workers, NEW n \in Names, NEW t \in Tiers,
           LoadOverrides(w, n, t)
    PROVE  OverridesKept'
<1> DEFINE r == [at |-> "tiers: loaded", name |-> n, tier |-> t,
                 overridden |-> Overrides(UserOf[n]) # {}]
<1>1. /\ req'[w] = r /\ \A v \in Workers \ {w} : req'[v] = req[v]
      /\ UNCHANGED <<overrides, asked>>
  BY DEF LoadOverrides, Begin, PricingInv, TypeOK
<1>2. "tiers" \notin raced' =>
          "tiers" \notin raced /\ \A v \in Workers : req[v].at \notin SavingTiers
  BY DEF LoadOverrides, Saving, SavingTiers
<1>3. /\ r.at = "tiers: loaded" /\ r.name = n
      /\ r.overridden = (Overrides(UserOf[n]) # {})
  OBVIOUS
<1> HIDE DEF r
<1>4. \A v \in Workers : req'[v].at = "tiers: saving" => req'[v].tier # Natural[UserOf[req'[v].name]]
  BY <1>1, <1>3 DEF OverridesKept
<1>5. \A k \in Names : asked'[k] = None => overrides'[k] = None
  BY <1>1 DEF OverridesKept
<1>6. ASSUME "tiers" \notin raced'
      PROVE  /\ \A u, v \in Workers : req'[u].at \in SavingTiers /\ req'[v].at \in SavingTiers => u = v
             /\ \A v \in Workers : req'[v].at = "tiers: loaded" =>
                   req'[v].overridden = (Overrides(UserOf[req[v].name])' # {})
             /\ \A k \in Names : asked'[k] # None =>
                   overrides'[k] = IF asked'[k] = Natural[UserOf[k]] THEN None ELSE asked'[k]
  <2>1. \A v \in Workers : req'[v].at \in SavingTiers => v = w
    BY <1>1, <1>2, <1>6
  <2>2. Overrides(UserOf[req[w].name])' = Overrides(UserOf[n])
    BY <1>1, <1>3 DEF Overrides
  <2>3. \A v \in Workers : req'[v].at = "tiers: loaded" =>
           req'[v].overridden = (Overrides(UserOf[req[v].name])' # {})
    BY <1>1, <1>3, <2>1, <2>2 DEF SavingTiers
  <2>4. \A k \in Names : asked'[k] # None =>
           overrides'[k] = IF asked'[k] = Natural[UserOf[k]] THEN None ELSE asked'[k]
    BY <1>1, <1>2, <1>6 DEF OverridesKept
  <2> QED BY <2>1, <2>3, <2>4
<1> QED BY <1>4, <1>5, <1>6 DEF OverridesKept

LEMMA OverrideLookedUp ==
    ASSUME PricingInv, OverridesKept, NEW w \in Workers, FindOverride(w)
    PROVE  OverridesKept'
<1> DEFINE r == [at |-> "tiers: saving", name |-> req[w].name, tier |-> req[w].tier,
                 found |-> overrides[req[w].name] # None]
<1>1. /\ req'[w] = r /\ \A v \in Workers \ {w} : req'[v] = req[v]
      /\ UNCHANGED <<overrides, asked, raced>>
      /\ req[w].at = "tiers: loaded" /\ req[w].tier # Natural[UserOf[req[w].name]]
  BY DEF FindOverride, Step, PricingInv, TypeOK
<1>2. r.at = "tiers: saving" /\ r.name = req[w].name /\ r.tier = req[w].tier
  OBVIOUS
<1> HIDE DEF r
<1>3. \A v \in Workers : req'[v].at = "tiers: saving" => req'[v].tier # Natural[UserOf[req'[v].name]]
  <2>1. req'[w].tier # Natural[UserOf[req'[w].name]]
    BY <1>1, <1>2
  <2>2. \A v \in Workers \ {w} :
           req'[v].at = "tiers: saving" => req'[v].tier # Natural[UserOf[req'[v].name]]
    BY <1>1 DEF OverridesKept
  <2> QED BY <2>1, <2>2
<1>4. \A k \in Names : asked'[k] = None => overrides'[k] = None
  BY <1>1 DEF OverridesKept
<1>5. ASSUME "tiers" \notin raced'
      PROVE  /\ \A u, v \in Workers : req'[u].at \in SavingTiers /\ req'[v].at \in SavingTiers => u = v
             /\ \A v \in Workers : req'[v].at # "tiers: loaded"
             /\ \A k \in Names : asked'[k] # None =>
                   overrides'[k] = IF asked'[k] = Natural[UserOf[k]] THEN None ELSE asked'[k]
  <2>1. req[w].at \in SavingTiers /\ "tiers" \notin raced
    BY <1>1, <1>5 DEF SavingTiers
  <2>2. \A v \in Workers \ {w} : req'[v].at \notin SavingTiers
    BY <1>1, <2>1 DEF OverridesKept
  <2>3. \A v \in Workers : req'[v].at # "tiers: loaded"
    BY <1>1, <1>2, <2>2 DEF SavingTiers
  <2>4. \A k \in Names : asked'[k] # None =>
           overrides'[k] = IF asked'[k] = Natural[UserOf[k]] THEN None ELSE asked'[k]
    BY <1>1, <2>1 DEF OverridesKept
  <2> QED BY <2>2, <2>3, <2>4
<1> QED BY <1>3, <1>4, <1>5 DEF OverridesKept

LEMMA OverrideSaved ==
    ASSUME PricingInv, OverridesKept, NEW w \in Workers, SaveNatural(w) \/ CommitOverride(w)
    PROVE  OverridesKept'
<1> DEFINE n == req[w].name
           tier == req[w].tier
           natural == Natural[UserOf[n]]
<1>1. /\ req[w].at \in {"tiers: loaded", "tiers: saving"} /\ req[w] \in {Idle} \cup RequestStates
      /\ req[w].at \in SavingTiers
  BY DEF SaveNatural, CommitOverride, PricingInv, TypeOK, SavingTiers
<1>2. n \in Names /\ tier \in Tiers /\ tier # None
  BY <1>1, RequestFields, NoneAssumption
<1>3. /\ req'[w] = Idle /\ \A v \in Workers \ {w} : req'[v] = req[v]
      /\ asked' = [asked EXCEPT ![n] = tier] /\ UNCHANGED raced
  BY DEF SaveNatural, CommitOverride, End, PricingInv, TypeOK
<1>4. /\ asked'[n] = tier /\ \A k \in Names \ {n} : asked'[k] = asked[k]
  BY <1>2, <1>3 DEF PricingInv, TypeOK
<1>5. /\ DOMAIN overrides = Names
      /\ overrides' \in {overrides, [overrides EXCEPT ![n] = None], [overrides EXCEPT ![n] = tier]}
  BY DEF SaveNatural, CommitOverride, PricingInv, TypeOK
<1>6. \A k \in Names \ {n} : overrides'[k] = overrides[k]
  BY <1>2, <1>5
<1>7. ASSUME "tiers" \notin raced PROVE overrides'[n] = IF tier = natural THEN None ELSE tier
  <2>1. CASE SaveNatural(w)
    <3>1. tier = natural /\ req[w].at = "tiers: loaded"
      BY <2>1 DEF SaveNatural
    <3>2. CASE req[w].overridden
      <4>1. overrides' = [overrides EXCEPT ![n] = None]
        BY <2>1, <3>2 DEF SaveNatural
      <4> QED BY <1>2, <1>5, <3>1, <4>1
    <3>3. CASE ~ req[w].overridden
      <4>1. overrides' = overrides
        BY <2>1, <3>3 DEF SaveNatural
      <4>2. Overrides(UserOf[n]) = {}
        BY <1>7, <3>1, <3>3 DEF OverridesKept
      <4>3. overrides[n] = None
        BY <1>2, <4>2 DEF Overrides
      <4> QED BY <3>1, <4>1, <4>3
    <3> QED BY <3>2, <3>3
  <2>2. CASE CommitOverride(w)
    <3>1. req[w].at = "tiers: saving" /\ overrides' = [overrides EXCEPT ![n] = tier]
      BY <2>2 DEF CommitOverride
    <3>2. tier # natural
      BY <3>1 DEF OverridesKept
    <3> QED BY <1>2, <1>5, <3>1, <3>2
  <2> QED BY <2>1, <2>2
<1> HIDE DEF n, tier, natural
<1>8. req'[w].at \notin SavingTiers
  BY <1>3 DEF Idle, SavingTiers
<1>9. \A v \in Workers : req'[v].at = "tiers: saving" => req'[v].tier # Natural[UserOf[req'[v].name]]
  BY <1>3, <1>8 DEF OverridesKept, SavingTiers
<1>10. \A k \in Names : asked'[k] = None => overrides'[k] = None
  BY <1>2, <1>4, <1>6 DEF OverridesKept
<1>11. ASSUME "tiers" \notin raced'
       PROVE  /\ \A v \in Workers : req'[v].at \notin SavingTiers
              /\ \A k \in Names : asked'[k] # None =>
                    overrides'[k] = IF asked'[k] = Natural[UserOf[k]] THEN None ELSE asked'[k]
  <2>1. "tiers" \notin raced
    BY <1>3, <1>11
  <2>2. \A v \in Workers : req'[v].at \notin SavingTiers
    BY <1>1, <1>3, <1>8, <2>1 DEF OverridesKept
  <2>3. \A k \in Names \ {n} : asked'[k] # None =>
           overrides'[k] = IF asked'[k] = Natural[UserOf[k]] THEN None ELSE asked'[k]
    BY <1>4, <1>6, <2>1 DEF OverridesKept
  <2>4. overrides'[n] = IF asked'[n] = Natural[UserOf[n]] THEN None ELSE asked'[n]
    BY <1>4, <1>7, <2>1 DEF natural
  <2> QED BY <2>2, <2>3, <2>4
<1>12. "tiers" \notin raced' => \A v \in Workers : req'[v].at # "tiers: loaded"
  BY <1>11 DEF SavingTiers
<1> QED BY <1>9, <1>10, <1>11, <1>12 DEF OverridesKept

SettingsInv == PricingInv /\ RatesKept /\ OverridesKept

LEMMA SettingsInit == Init => SettingsInv
<1> SUFFICES ASSUME Init PROVE SettingsInv
  OBVIOUS
<1>1. \A w \in Workers : req[w].at = "idle"
  BY DEF Init, Idle
<1>2. RatesKept
  BY <1>1 DEF Init, RatesKept, SavingRates
<1>3. OverridesKept
  BY <1>1 DEF Init, OverridesKept, SavingTiers
<1> QED BY <1>2, <1>3, PricingInit DEF SettingsInv

\* A billing step, or a failure, moves one request and saves nothing.
LEMMA SettingsQuiet ==
    ASSUME SettingsInv, PricingInv', rates' \in {rates, Seeded}, NEW w \in Workers,
           req'[w].at \notin SavingRates \cup SavingTiers,
           \A v \in Workers \ {w} : req'[v] = req[v],
           UNCHANGED <<overrides, asked, raced>>
    PROVE  SettingsInv'
<1>1. RatesKept'
  BY RatesUntouched DEF SettingsInv
<1>2. OverridesKept'
  BY OverridesUntouched DEF SettingsInv
<1> QED BY <1>1, <1>2 DEF SettingsInv

LEMMA SettingsNext == SettingsInv /\ [Next]_vars => SettingsInv'
<1> SUFFICES ASSUME SettingsInv, [Next]_vars PROVE SettingsInv'
  OBVIOUS
<1> USE DEF SettingsInv
<1>0. PricingInv'
  BY PricingNext
<1>1. ASSUME NEW w \in Workers, NEW t \in Tiers, NEW rate \in Rates, LoadRates(w, t, rate)
      PROVE  SettingsInv'
  <2>1. /\ req'[w].at = "rates: loaded" /\ \A v \in Workers \ {w} : req'[v] = req[v]
        /\ UNCHANGED <<overrides, asked>> /\ raced' \in {raced, raced \cup {"rates"}}
    BY <1>1 DEF LoadRates, Begin, PricingInv, TypeOK
  <2>2. OverridesKept'
    BY <2>1, OverridesUntouched DEF SavingTiers
  <2> QED BY <1>0, <1>1, <2>2, RatesLoaded
<1>2. ASSUME NEW w \in Workers, SaveRates(w) PROVE SettingsInv'
  <2>1. /\ req'[w].at = "rates: saving" /\ \A v \in Workers \ {w} : req'[v] = req[v]
        /\ UNCHANGED <<overrides, asked, raced>>
    BY <1>2 DEF SaveRates, Step, PricingInv, TypeOK
  <2>2. OverridesKept'
    BY <2>1, OverridesUntouched DEF SavingTiers
  <2> QED BY <1>0, <1>2, <2>2, RatesCompared
<1>3. ASSUME NEW w \in Workers, CommitRates(w) PROVE SettingsInv'
  <2>1. /\ req'[w] = Idle /\ \A v \in Workers \ {w} : req'[v] = Seeing(req[v])
        /\ UNCHANGED <<overrides, raced>>
        /\ asked' = [asked EXCEPT ![req[w].tier] = req[w].table[req[w].tier]]
    BY <1>3 DEF CommitRates
  <2>2. req[w].tier \in Tiers
    <3>1. req[w].at = "rates: saving" /\ req[w] \in {Idle} \cup RequestStates
      BY <1>3 DEF CommitRates, PricingInv, TypeOK
    <3> QED BY <3>1, RequestFields
  <2>3. \A n \in Names : asked'[n] = asked[n]
    BY <2>1, <2>2, TierAssumption DEF PricingInv, TypeOK
  <2>4. ASSUME NEW v \in Workers \ {w}, req'[v].at \in SavingTiers PROVE req'[v] = req[v]
    <3>1. req[v] \in {Idle} \cup RequestStates
      BY DEF PricingInv, TypeOK
    <3>2. req'[v].at \notin Billing
      BY <2>4 DEF SavingTiers, Billing
    <3> QED BY <2>1, <3>1, <3>2, SeeingKeeps
  <2>5. req'[w].at \notin SavingTiers
    BY <2>1 DEF Idle, SavingTiers
  <2>6. OverridesKept'
    BY <2>1, <2>3, <2>4, <2>5, OverridesUntouched
  <2> QED BY <1>0, <1>3, <2>6, RatesCommitted
<1>4. ASSUME NEW w \in Workers, NEW n \in Names, NEW t \in Tiers, LoadOverrides(w, n, t)
      PROVE  SettingsInv'
  <2>1. /\ req'[w].at = "tiers: loaded" /\ \A v \in Workers \ {w} : req'[v] = req[v]
        /\ UNCHANGED <<rates, asked>> /\ raced' \in {raced, raced \cup {"tiers"}}
    BY <1>4 DEF LoadOverrides, Begin, PricingInv, TypeOK
  <2>2. RatesKept'
    BY <2>1, RatesUntouched DEF SavingRates
  <2> QED BY <1>0, <1>4, <2>2, OverridesLoaded
<1>5. ASSUME NEW w \in Workers, FindOverride(w) PROVE SettingsInv'
  <2>1. /\ req'[w].at = "tiers: saving" /\ \A v \in Workers \ {w} : req'[v] = req[v]
        /\ UNCHANGED <<rates, asked, raced>>
    BY <1>5 DEF FindOverride, Step, PricingInv, TypeOK
  <2>2. RatesKept'
    BY <2>1, RatesUntouched DEF SavingRates
  <2> QED BY <1>0, <1>5, <2>2, OverrideLookedUp
<1>6. ASSUME NEW w \in Workers, SaveNatural(w) \/ CommitOverride(w) PROVE SettingsInv'
  <2>1. /\ req'[w] = Idle /\ \A v \in Workers \ {w} : req'[v] = req[v]
        /\ UNCHANGED <<rates, raced>> /\ asked' = [asked EXCEPT ![req[w].name] = req[w].tier]
    BY <1>6 DEF SaveNatural, CommitOverride, End, PricingInv, TypeOK
  <2>2. req[w].name \in Names
    <3>1. /\ req[w].at \in {"tiers: loaded", "tiers: saving"}
          /\ req[w] \in {Idle} \cup RequestStates
      BY <1>6 DEF SaveNatural, CommitOverride, PricingInv, TypeOK
    <3> QED BY <3>1, RequestFields
  <2>3. \A t \in Tiers : asked'[t] = asked[t]
    BY <2>1, <2>2, TierAssumption DEF PricingInv, TypeOK
  <2>4. req'[w].at \notin SavingRates
    BY <2>1 DEF Idle, SavingRates
  <2>5. RatesKept'
    BY <2>1, <2>3, <2>4, RatesUntouched
  <2> QED BY <1>0, <1>6, <2>5, OverrideSaved
<1>7. ASSUME NEW w \in Workers, NEW u \in Users, NEW job \in Jobs, BillTier(w, u, job)
      PROVE  SettingsInv'
  <2>1. /\ req'[w].at = "bill: tier" /\ \A v \in Workers \ {w} : req'[v] = req[v]
        /\ UNCHANGED <<rates, overrides, asked, raced>>
    <3>1. PICK t \in Effective(u) :
             Begin(w, [at |-> "bill: tier", user |-> u, job |-> job, tier |-> t,
                       seen |-> {Seeded[t]}])
      BY <1>7 DEF BillTier
    <3> DEFINE r == [at |-> "bill: tier", user |-> u, job |-> job, tier |-> t,
                     seen |-> {Seeded[t]}]
    <3>2. req' = [req EXCEPT ![w] = r] /\ r.at = "bill: tier"
      BY <3>1 DEF Begin
    <3> HIDE DEF r
    <3>3. UNCHANGED <<rates, overrides, asked, raced>>
      BY <1>7 DEF BillTier
    <3> QED BY <3>2, <3>3 DEF PricingInv, TypeOK
  <2>2. req'[w].at \notin SavingRates \cup SavingTiers
    BY <2>1 DEF SavingRates, SavingTiers
  <2> QED BY <1>0, <2>1, <2>2, SettingsQuiet
<1>8. ASSUME NEW w \in Workers, BillCosts(w) PROVE SettingsInv'
  <2>1. /\ req'[w].at = "bill: costs" /\ \A v \in Workers \ {w} : req'[v] = req[v]
        /\ rates' = Seeded /\ UNCHANGED <<overrides, asked, raced>>
    BY <1>8 DEF BillCosts, Step, PricingInv, TypeOK
  <2>2. req'[w].at \notin SavingRates \cup SavingTiers
    BY <2>1 DEF SavingRates, SavingTiers
  <2> QED BY <1>0, <2>1, <2>2, SettingsQuiet
<1>9. ASSUME NEW w \in Workers, BillSnapshot(w) PROVE SettingsInv'
  <2>1. /\ req'[w].at = "bill: snapshot" /\ \A v \in Workers \ {w} : req'[v] = req[v]
        /\ UNCHANGED <<rates, overrides, asked, raced>>
    BY <1>9 DEF BillSnapshot, Step, PricingInv, TypeOK
  <2>2. req'[w].at \notin SavingRates \cup SavingTiers
    BY <2>1 DEF SavingRates, SavingTiers
  <2> QED BY <1>0, <2>1, <2>2, SettingsQuiet
<1>10. ASSUME NEW w \in Workers, BillCommit(w) \/ Fail(w) PROVE SettingsInv'
  <2>1. /\ req'[w] = Idle /\ \A v \in Workers \ {w} : req'[v] = req[v]
        /\ UNCHANGED <<rates, overrides, asked, raced>>
    BY <1>10 DEF BillCommit, Fail, End, PricingInv, TypeOK
  <2>2. req'[w].at \notin SavingRates \cup SavingTiers
    BY <2>1 DEF Idle, SavingRates, SavingTiers
  <2> QED BY <1>0, <2>1, <2>2, SettingsQuiet
<1>11. ASSUME NEW t \in Taxes, Restart(t) PROVE SettingsInv'
  <2>1. /\ \A w \in Workers : req'[w].at = "idle"
        /\ UNCHANGED <<rates, overrides, asked, raced>>
    BY <1>11 DEF Restart, Idle
  <2>2. RatesKept'
    BY <2>1 DEF RatesKept, SavingRates
  <2>3. OverridesKept'
    BY <2>1 DEF OverridesKept, SavingTiers
  <2> QED BY <1>0, <2>2, <2>3
<1>12. CASE UNCHANGED vars
  <2>1. RatesKept'
    <3>1. UNCHANGED <<rates, req, asked, raced>>
      BY <1>12 DEF vars
    <3>2. ASSUME NEW w \in Workers, "rates" \notin raced, req[w].at = "rates: saving"
          PROVE  req[w].cols = Differing(req[w].table)'
      <4>1. req[w].cols = Differing(req[w].table)
        BY <3>2 DEF RatesKept
      <4> QED BY <3>1, <4>1 DEF Differing
    <3> QED BY <3>1, <3>2 DEF RatesKept
  <2>2. OverridesKept'
    <3>1. UNCHANGED <<overrides, req, asked, raced>>
      BY <1>12 DEF vars
    <3>2. \A w \in Workers : Overrides(UserOf[req[w].name])' = Overrides(UserOf[req[w].name])
      BY <3>1 DEF Overrides
    <3> QED BY <3>1, <3>2 DEF OverridesKept
  <2> QED BY <1>0, <2>1, <2>2
<1> QED BY <1>1, <1>2, <1>3, <1>4, <1>5, <1>6, <1>7, <1>8, <1>9, <1>10, <1>11, <1>12 DEF Next

LEMMA SettingsImplied == SettingsInv => SettingsAreAsSaved
<1> SUFFICES ASSUME SettingsInv PROVE SettingsAreAsSaved
  OBVIOUS
<1>1. "rates" \notin raced => \A t \in Tiers : asked[t] # None => rates[t] = asked[t]
  BY DEF SettingsInv, RatesKept
<1>2. ASSUME "tiers" \notin raced, NEW n \in Names, asked[n] # None,
             \A m \in Names : UserOf[m] = UserOf[n] /\ asked[m] # None => m = n
      PROVE  Effective(UserOf[n]) = {asked[n]}
  <2>1. \A m \in Names : UserOf[m] = UserOf[n] => m = n \/ overrides[m] = None
    BY <1>2 DEF SettingsInv, OverridesKept
  <2>2. Overrides(UserOf[n]) = {overrides[n]} \ {None}
    BY <2>1 DEF Overrides
  <2>3. overrides[n] = IF asked[n] = Natural[UserOf[n]] THEN None ELSE asked[n]
    BY <1>2 DEF SettingsInv, OverridesKept
  <2>4. CASE asked[n] = Natural[UserOf[n]]
    BY <2>2, <2>3, <2>4 DEF Effective
  <2>5. CASE asked[n] # Natural[UserOf[n]]
    BY <1>2, <2>2, <2>3, <2>5 DEF Effective
  <2> QED BY <2>4, <2>5
<1> QED BY <1>1, <1>2 DEF SettingsAreAsSaved

\* Unless savings overlap, what is in force is what was saved last: saving the
\* whole table takes nothing back from other tiers, loading and seeding neither
\* (admin_update, controllers/admin.py:911; save_tiers, :1411).
THEOREM SettingsHold == Spec => []SettingsAreAsSaved
BY SettingsInit, SettingsNext, SettingsImplied, PTL DEF Spec
=============================================================================
